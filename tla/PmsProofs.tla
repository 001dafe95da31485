------------------------------ MODULE PmsProofs ------------------------------
(***************************************************************************)
(* Theorems about the composition of MCPms and, within it, about Tags,     *)
(* what hangs on tasks and projects, and their lists, for any users,       *)
(* entities, rows, requests and calls.                                     *)
(***************************************************************************)
EXTENDS MCPms, FiniteSetTheorems, SequenceTheorems, WellFoundedInduction, TLAPS

-----------------------------------------------------------------------------
(***************************************************************************)
(* Tags: type correctness                                                  *)
(***************************************************************************)

TagRequests == Requests \cup {r1}
TagKinds == {"create", "update", "remove", "add", "untag", "dropEntity"}
Settling == {"increment", "decrement"}

\* Where a request is says what it was called with; one that was aborted
\* between its two statements is over.
TagCallOK ==
    \A r \in TagRequests :
        /\ gPc[r] = "idle" => gCall[r] = G!NoCall
        /\ gPc[r] # "idle" => gCall[r] \in TagCalls
        /\ gPc[r] \in {"findName", "createTag"} => gCall[r].kind = "create"
        /\ gPc[r] \in {"findNewName", "updateTag"} => gCall[r].kind = "update"
        /\ gPc[r] = "findTag" => gCall[r].kind \in {"update", "remove", "add"}
        /\ gPc[r] = "deleteTag" => gCall[r].kind = "remove"
        /\ gPc[r] \in {"findEntity", "findTagging"} => gCall[r].kind \in {"add", "untag"}
        /\ gPc[r] \in {"createTagging", "increment"} => gCall[r].kind = "add"
        /\ gPc[r] \in {"deleteTagging", "decrement"} => gCall[r].kind = "untag"
        /\ gPc[r] = "dropEntity" => gCall[r].kind = "dropEntity"
        /\ r \in halfway => gPc[r] = "done"

TagTyped == G!TypeOK /\ TagCallOK

\* What each call carries.
LEMMA TagCallFields ==
    ASSUME NEW c \in TagCalls
    PROVE  /\ c.kind \in TagKinds
           /\ c.kind # "dropEntity" => c.tag \in TagIds /\ c.user \in Users
           /\ c.kind \in {"create", "update"} => c.name \in Names /\ c.visibility \in G!Visibility
           /\ c.kind \in {"add", "untag", "dropEntity"} => c.entity \in Entities
BY PartsAssumption
   DEF TagKinds, G!TagsAssumption, G!CreateCall, G!UpdateCall, G!RemoveCall, G!TaggingCall, G!DropCall

LEMMA NoneNoTag == None \notin G!TagRow /\ SeedTag \in TagIds
BY PartsAssumption DEF G!TagsAssumption

LEMMA TagsInit == G!Init => TagTyped
<1> SUFFICES ASSUME G!Init PROVE TagTyped
  OBVIOUS
<1>1. tags \in [TagIds -> G!TagRow \cup {None}]
  BY NoneNoTag DEF G!Init, G!TagRow
<1>2. G!TypeOK
  BY <1>1 DEF G!Init, G!TypeOK, G!Labels, G!Answers
<1> QED BY <1>2 DEF G!Init, TagTyped, TagCallOK, TagRequests, G!NoCall

LEMMA TagTypedStep == TagTyped /\ [G!Next]_(G!vars) => TagTyped'
<1> SUFFICES ASSUME TagTyped, [G!Next]_(G!vars) PROVE TagTyped'
  OBVIOUS
<1> USE DEF TagTyped, TagRequests, G!Goto, G!Reply, G!history, G!tables
<1>u. ASSUME NEW r \in TagRequests,
             G!FindEntity(r) \/ G!FindTagging(r) \/ G!CreateTagging(r) \/ G!DeleteTagging(r)
               \/ G!Increment(r) \/ G!Decrement(r)
      PROVE  gCall[r] \in TagCalls /\ gCall[r].tag \in TagIds /\ gCall[r].entity \in Entities
  <2>1. gPc[r] \in {"findEntity", "findTagging", "createTagging", "deleteTagging",
                    "increment", "decrement"}
    BY <1>u DEF G!FindEntity, G!FindTagging, G!CreateTagging, G!DeleteTagging, G!Increment, G!Decrement
  <2>2. gCall[r] \in TagCalls /\ gCall[r].kind \in {"add", "untag"}
    BY <2>1 DEF TagCallOK
  <2> QED BY <2>2, TagCallFields
<1>1. ASSUME NEW r \in TagRequests, G!Start(r) PROVE TagTyped'
  <2>1. PICK c \in TagCalls :
          /\ gCall' = [gCall EXCEPT ![r] = c]
          /\ gPc' = [gPc EXCEPT ![r] = G!FirstStep[c.kind]] /\ UNCHANGED gAnswer
    BY <1>1 DEF G!Start
  <2>2. c.kind \in TagKinds
    BY TagCallFields
  <2>3. /\ G!FirstStep[c.kind] \in G!Labels \ {"idle"}
        /\ G!FirstStep[c.kind] = "findName" => c.kind = "create"
        /\ G!FirstStep[c.kind] = "findTag" => c.kind \in {"update", "remove", "add"}
        /\ G!FirstStep[c.kind] = "findEntity" => c.kind = "untag"
        /\ G!FirstStep[c.kind] = "dropEntity" => c.kind = "dropEntity"
        /\ G!FirstStep[c.kind] \in {"findName", "findTag", "findEntity", "dropEntity"}
    BY <2>2 DEF TagKinds, G!FirstStep, G!Labels
  <2>4. G!TypeOK'
    BY <1>1, <2>1, <2>3 DEF G!Start, G!TypeOK
  <2>5. gPc[r] = "idle" /\ halfway' = halfway
    BY <1>1 DEF G!Start
  <2>6. TagCallOK'
    BY <2>1, <2>3, <2>5 DEF TagCallOK, G!TypeOK
  <2> QED BY <2>4, <2>6
<1>2. ASSUME NEW r \in TagRequests, G!FindName(r) PROVE TagTyped'
  BY <1>2 DEF G!FindName, G!TypeOK, TagCallOK, G!Labels, G!Answers
<1>3. ASSUME NEW r \in TagRequests, G!CreateTag(r) PROVE TagTyped'
  <2>1. gCall[r] \in TagCalls /\ gCall[r].kind = "create"
    BY <1>3 DEF G!CreateTag, TagCallOK
  <2>2. gCall[r].tag \in TagIds /\ G!NewTag(gCall[r]) \in G!TagRow
    BY <2>1, TagCallFields DEF G!NewTag, G!TagRow
  <2> HIDE DEF G!NewTag
  <2>3. G!TypeOK'
    BY <1>3, <2>1, <2>2 DEF G!CreateTag, G!TypeOK, G!Labels, G!Answers
  <2>4. TagCallOK'
    BY <1>3, <2>1 DEF G!CreateTag, G!TypeOK, TagCallOK
  <2> QED BY <2>3, <2>4
<1>4. ASSUME NEW r \in TagRequests, G!FindTag(r) PROVE TagTyped'
  <2>1. gCall[r].kind \in {"update", "remove", "add"} /\ gCall[r] \in TagCalls /\ gPc[r] = "findTag"
    BY <1>4 DEF G!FindTag, TagCallOK
  <2>2. /\ \/ \E what \in {"notFound", "forbidden", "inUse"} : G!Reply(r, what)
           \/ gCall[r].kind = "add" /\ G!Goto(r, "findEntity")
           \/ gCall[r].kind = "update" /\ G!Goto(r, "updateTag")
           \/ gCall[r].kind = "update" /\ G!Goto(r, "findNewName")
           \/ gCall[r].kind = "remove" /\ G!Goto(r, "deleteTag")
        /\ shaken' \subseteq TagRequests
        /\ UNCHANGED <<tags, taggings, gEntities, gCall, halfway>>
    <3>1. shaken \subseteq TagRequests
      BY DEF G!TypeOK
    <3>2. shaken' \subseteq TagRequests
      BY <1>4, <3>1 DEF G!FindTag
    <3> QED BY <1>4, <3>2 DEF G!FindTag
  <2>3. G!TypeOK'
    BY <2>2 DEF G!TypeOK, G!Labels, G!Answers
  <2>4. TagCallOK'
    BY <2>1, <2>2 DEF G!TypeOK, TagCallOK
  <2> QED BY <2>3, <2>4
<1>5. ASSUME NEW r \in TagRequests, G!UpdateTag(r) PROVE TagTyped'
  <2>1. gCall[r] \in TagCalls /\ gCall[r].kind = "update"
    BY <1>5 DEF G!UpdateTag, TagCallOK
  <2>2. /\ gCall[r].tag \in TagIds /\ gCall[r].name \in Names
        /\ gCall[r].visibility \in G!Visibility
    BY <2>1, TagCallFields
  <2>3. tags' \in [TagIds -> G!TagRow \cup {None}]
    <3>1. CASE UNCHANGED tags
      BY <3>1 DEF G!TypeOK
    <3>2. CASE /\ G!Exists(gCall[r].tag)
               /\ tags' = [tags EXCEPT ![gCall[r].tag].name = gCall[r].name,
                                       ![gCall[r].tag].visibility = gCall[r].visibility]
      <4>1. tags[gCall[r].tag] \in G!TagRow
        BY <2>2, <3>2 DEF G!Exists, G!TypeOK
      <4> QED BY <2>2, <3>2, <4>1 DEF G!TypeOK, G!TagRow
    <3> QED BY <1>5, <3>1, <3>2 DEF G!UpdateTag
  <2>4. G!TypeOK'
    BY <1>5, <2>3 DEF G!UpdateTag, G!TypeOK, G!Labels, G!Answers
  <2>5. TagCallOK'
    BY <1>5, <2>1 DEF G!UpdateTag, G!TypeOK, TagCallOK
  <2> QED BY <2>4, <2>5
<1>6. ASSUME NEW r \in TagRequests, G!DeleteTag(r) PROVE TagTyped'
  BY <1>6 DEF G!DeleteTag, G!TypeOK, TagCallOK, G!Labels, G!Answers
<1>7. ASSUME NEW r \in TagRequests, G!FindEntity(r) PROVE TagTyped'
  BY <1>7 DEF G!FindEntity, G!TypeOK, TagCallOK, G!Labels, G!Answers
<1>8. ASSUME NEW r \in TagRequests, G!FindTagging(r) PROVE TagTyped'
  BY <1>8 DEF G!FindTagging, G!TypeOK, TagCallOK, G!Labels, G!Answers
<1>9. ASSUME NEW r \in TagRequests, G!CreateTagging(r) PROVE TagTyped'
  <2>1. G!Pair(r) \in G!Tagging
    BY <1>9, <1>u DEF G!Pair, G!Tagging
  <2>2. shaken' \subseteq TagRequests /\ taggings' \subseteq G!Tagging
    BY <1>9, <2>1 DEF G!CreateTagging, G!TypeOK, G!At
  <2>3. G!TypeOK'
    BY <1>9, <2>2 DEF G!CreateTagging, G!TypeOK, G!Labels, G!Answers
  <2>4. TagCallOK'
    BY <1>9 DEF G!CreateTagging, G!TypeOK, TagCallOK
  <2> QED BY <2>3, <2>4
<1>10. ASSUME NEW r \in TagRequests, G!DeleteTagging(r) PROVE TagTyped'
  BY <1>10 DEF G!DeleteTagging, G!TypeOK, TagCallOK, G!Labels, G!Answers
<1>11. ASSUME NEW r \in TagRequests, NEW step \in {1, -1}, gPc[r] \in Settling, G!Count(r, step)
       PROVE  TagTyped'
  <2>1. gCall[r] \in TagCalls /\ gCall[r].tag \in TagIds
    BY <1>11, TagCallFields DEF TagCallOK, Settling
  <2>2. tags' \in [TagIds -> G!TagRow \cup {None}]
    <3>1. CASE UNCHANGED tags
      BY <3>1 DEF G!TypeOK
    <3>2. CASE /\ G!Exists(gCall[r].tag)
               /\ tags' = [tags EXCEPT ![gCall[r].tag].usage = @ + step]
      <4>1. tags[gCall[r].tag] \in G!TagRow
        BY <2>1, <3>2 DEF G!Exists, G!TypeOK
      <4> QED BY <2>1, <3>2, <4>1 DEF G!TypeOK, G!TagRow
    <3> QED BY <1>11, <3>1, <3>2 DEF G!Count
  <2>3. G!TypeOK'
    BY <1>11, <2>2 DEF G!Count, G!TypeOK, G!Labels, G!Answers
  <2>4. TagCallOK'
    BY <1>11, <2>1 DEF G!Count, G!TypeOK, TagCallOK, Settling
  <2> QED BY <2>3, <2>4
<1>12. ASSUME NEW r \in TagRequests, G!DropEntity(r) PROVE TagTyped'
  BY <1>12 DEF G!DropEntity, G!TypeOK, TagCallOK, G!Labels, G!Answers
<1>13. ASSUME NEW r \in TagRequests, G!Abort(r) PROVE TagTyped'
  BY <1>13 DEF G!Abort, G!TypeOK, TagCallOK, G!Labels, G!Answers
<1>14. CASE UNCHANGED G!vars
  BY <1>14 DEF G!vars, G!TypeOK, TagCallOK
<1>15. ASSUME NEW r \in TagRequests, G!Increment(r) \/ G!Decrement(r) PROVE TagTyped'
  BY <1>11, <1>15 DEF G!Increment, G!Decrement, Settling
<1> QED BY <1>1, <1>2, <1>3, <1>4, <1>5, <1>6, <1>7, <1>8, <1>9, <1>10, <1>12, <1>13, <1>14, <1>15 DEF G!Next

-----------------------------------------------------------------------------
(***************************************************************************)
(* Tags: the counts                                                        *)
(***************************************************************************)

\* The requests that have written a tagging of t, and not its count.
Added(t) == G!Uncounted(t, "add")
Removed(t) == G!Uncounted(t, "untag")

\* No tag is created twice, nor the one that is there at the start.
CreatedOnce ==
    \A q \in TagRequests : gCall[q].kind = "create" =>
        /\ gCall[q].tag # SeedTag
        /\ \A r \in TagRequests : gCall[r].kind = "create" /\ gCall[r].tag = gCall[q].tag => r = q

\* The call that creates t has not written it.
Unborn(t) ==
    /\ t # SeedTag
    /\ \A q \in TagRequests :
          gCall[q].kind = "create" /\ gCall[q].tag = t => gPc[q] \in {"findName", "createTag"}

\* Of such a tag there is no row, and nothing was written for it.
UnbornAreBlank ==
    \A t \in TagIds : Unborn(t) => ~ G!Exists(t) /\ Added(t) = {} /\ Removed(t) = {}

CountsFinite ==
    /\ IsFiniteSet(taggings)
    /\ \A t \in TagIds : IsFiniteSet(Added(t)) /\ IsFiniteSet(Removed(t))

\* A removal that nothing shook is right about the tag being unused.
UnshakenAreRight ==
    \A r \in TagRequests :
        gPc[r] = "deleteTag" /\ r \notin shaken /\ G!Exists(gCall[r].tag)
        => G!TaggingsOf(gCall[r].tag) = {}

TagInv ==
    /\ TagTyped /\ CreatedOnce /\ UnbornAreBlank /\ CountsFinite /\ UnshakenAreRight
    /\ G!UsageCountsTaggings /\ G!NamesAndTaggingsHold

\* One element more, or one less.
LEMMA OneMore ==
    ASSUME NEW S, IsFiniteSet(S), NEW x, x \notin S
    PROVE  IsFiniteSet(S \cup {x}) /\ Cardinality(S \cup {x}) = Cardinality(S) + 1
           /\ Cardinality(S) \in Nat
BY FS_AddElement, FS_CardinalityType

LEMMA OneLess ==
    ASSUME NEW S, IsFiniteSet(S), NEW x \in S
    PROVE  IsFiniteSet(S \ {x}) /\ Cardinality(S \ {x}) = Cardinality(S) - 1
           /\ Cardinality(S) \in Nat
BY FS_RemoveElement, FS_CardinalityType

LEMMA CountsAreNumbers ==
    ASSUME TagTyped, CountsFinite, NEW t \in TagIds
    PROVE  /\ IsFiniteSet(G!TaggingsOf(t))
           /\ Cardinality(Added(t)) \in Nat /\ Cardinality(Removed(t)) \in Nat
           /\ Cardinality(G!TaggingsOf(t)) \in Nat
           /\ G!Exists(t) => tags[t].usage \in Int
<1>1. G!TaggingsOf(t) \subseteq taggings
  BY DEF G!TaggingsOf
<1>2. IsFiniteSet(G!TaggingsOf(t))
  BY <1>1, FS_Subset DEF CountsFinite
<1>3. G!Exists(t) => tags[t].usage \in Int
  BY DEF G!Exists, TagTyped, G!TypeOK, G!TagRow
<1> QED BY <1>2, <1>3, FS_CardinalityType DEF CountsFinite

\* The count of t is right, given the requests between their two statements.
Balanced(t) ==
    G!Exists(t) => tags[t].usage + Cardinality(Added(t))
                     = Cardinality(G!TaggingsOf(t)) + Cardinality(Removed(t))

LEMMA SameCount == ASSUME NEW S PROVE G!Cardinality(S) = Cardinality(S)
BY DEF G!Cardinality, Cardinality

LEMMA CountsAreBalanced ==
    /\ G!UsageCountsTaggings <=> \A t \in TagIds : Balanced(t)
    /\ G!UsageCountsTaggings' <=> \A t \in TagIds : Balanced(t)'
BY SameCount DEF G!UsageCountsTaggings, Balanced, Added, Removed

LEMMA TagInvInit == G!Init => TagInv
<1> SUFFICES ASSUME G!Init PROVE TagInv
  OBVIOUS
<1>1. \A t : Added(t) = {} /\ Removed(t) = {} /\ G!TaggingsOf(t) = {}
  BY DEF G!Init, Added, Removed, G!Uncounted, G!TaggingsOf
<1>2. \A t \in TagIds : G!Exists(t) <=> t = SeedTag
  BY NoneNoTag DEF G!Init, G!Exists, G!TagRow
<1>3. SeedTag \in TagIds /\ tags[SeedTag].usage = 0
  BY NoneNoTag DEF G!Init
<1>4. TagTyped
  BY TagsInit
<1>5. CreatedOnce /\ UnshakenAreRight
  BY DEF G!Init, CreatedOnce, UnshakenAreRight, G!NoCall, TagRequests
<1>6. UnbornAreBlank
  BY <1>1, <1>2 DEF UnbornAreBlank, Unborn
<1>7. CountsFinite
  BY <1>1, FS_EmptySet DEF CountsFinite, G!Init
<1>8. G!UsageCountsTaggings
  <2>1. Cardinality({}) = 0
    BY FS_EmptySet
  <2>2. ASSUME NEW t \in TagIds, G!Exists(t) PROVE Balanced(t)
    <3>1. t = SeedTag /\ Added(t) = {} /\ Removed(t) = {} /\ G!TaggingsOf(t) = {}
      BY <1>1, <1>2, <2>2
    <3> QED BY <1>3, <2>1, <3>1 DEF Balanced
  <2> QED BY <2>2, CountsAreBalanced DEF Balanced
<1>9. G!NamesAndTaggingsHold
  BY <1>2 DEF G!Init, G!NamesAndTaggingsHold, G!HasName
<1> QED BY <1>4, <1>5, <1>6, <1>7, <1>8, <1>9 DEF TagInv

\* A step that neither comes to nor goes from a count, and one that is aborted
\* there, leave the requests between their two statements as they are.
LEMMA UncountedStay ==
    ASSUME TagTyped, NEW r \in TagRequests, NEW l,
           gPc' = [gPc EXCEPT ![r] = l],
           \/ gPc[r] = "idle" /\ \E c : gCall' = [gCall EXCEPT ![r] = c]
           \/ UNCHANGED gCall,
           \/ gPc[r] \notin Settling /\ l \notin Settling /\ UNCHANGED halfway
           \/ gPc[r] \in Settling /\ l \notin Settling /\ halfway' = halfway \cup {r},
           NEW t
    PROVE  Added(t)' = Added(t) /\ Removed(t)' = Removed(t)
<1>1. \A q \in TagRequests :
        /\ (gPc'[q] \in Settling \/ q \in halfway') <=> (gPc[q] \in Settling \/ q \in halfway)
        /\ gPc[q] \in Settling \/ q \in halfway => gCall'[q] = gCall[q]
  BY DEF TagTyped, G!TypeOK, TagCallOK, Settling, TagRequests
<1>2. \A k : {q \in TagRequests : /\ gCall'[q].kind = k /\ gCall'[q].tag = t
                                  /\ gPc'[q] \in Settling \/ q \in halfway'}
              = {q \in TagRequests : /\ gCall[q].kind = k /\ gCall[q].tag = t
                                     /\ gPc[q] \in Settling \/ q \in halfway}
  BY <1>1
<1> QED BY <1>2 DEF Added, Removed, G!Uncounted, Settling, TagRequests

\* The request that writes a tagging joins them.
LEMMA UncountedJoins ==
    ASSUME TagTyped, NEW r \in TagRequests, NEW l \in Settling,
           gPc[r] \in {"createTagging", "deleteTagging"},
           gPc' = [gPc EXCEPT ![r] = l], UNCHANGED <<gCall, halfway>>, NEW t
    PROVE  /\ Added(t)' = IF gCall[r].kind = "add" /\ gCall[r].tag = t
                          THEN Added(t) \cup {r} ELSE Added(t)
           /\ Removed(t)' = IF gCall[r].kind = "untag" /\ gCall[r].tag = t
                            THEN Removed(t) \cup {r} ELSE Removed(t)
           /\ r \notin Added(t) /\ r \notin Removed(t)
<1>1. /\ gPc'[r] \in Settling /\ gPc[r] \notin Settling /\ r \notin halfway
      /\ \A q \in TagRequests : q # r => gPc'[q] = gPc[q]
  BY DEF TagTyped, G!TypeOK, TagCallOK, Settling, TagRequests
<1> QED BY <1>1 DEF Added, Removed, G!Uncounted, Settling, TagRequests

\* The one that writes the count leaves them.
LEMMA UncountedLeaves ==
    ASSUME TagTyped, NEW r \in TagRequests, gPc[r] \in Settling,
           gPc' = [gPc EXCEPT ![r] = "done"], UNCHANGED <<gCall, halfway>>, NEW t
    PROVE  /\ Added(t)' = Added(t) \ {r} /\ Removed(t)' = Removed(t) \ {r}
           /\ r \in Added(t) <=> gCall[r].kind = "add" /\ gCall[r].tag = t
           /\ r \in Removed(t) <=> gCall[r].kind = "untag" /\ gCall[r].tag = t
<1>1. /\ gPc'[r] \notin Settling /\ r \notin halfway
      /\ \A q \in TagRequests : q # r => gPc'[q] = gPc[q]
  BY DEF TagTyped, G!TypeOK, TagCallOK, Settling, TagRequests
<1> QED BY <1>1 DEF Added, Removed, G!Uncounted, Settling, TagRequests


\* Steps that write no tagging and no count: of every tag there is the same is
\* known afterwards, but for one that was just created or removed.
QuietStep(r) ==
    \/ G!Start(r) \/ G!FindName(r) \/ G!FindTag(r) \/ G!UpdateTag(r) \/ G!FindEntity(r)
    \/ G!FindTagging(r) \/ G!DropEntity(r) \/ G!Abort(r)

LEMMA QuietSteps ==
    ASSUME TagTyped, NEW r \in TagRequests, QuietStep(r)
    PROVE  /\ UNCHANGED taggings
           /\ \A t \in TagIds : G!Exists(t)' => G!Exists(t) /\ tags'[t].usage = tags[t].usage
           /\ \A t \in TagIds : G!Exists(t) => G!Exists(t)'
           /\ \A t : Added(t)' = Added(t) /\ Removed(t)' = Removed(t)
<1> USE DEF G!Goto, G!Reply, G!history, G!tables, TagTyped
<1>1. CASE G!Start(r)
  <2>1. PICK c \in TagCalls :
          /\ gCall' = [gCall EXCEPT ![r] = c]
          /\ gPc' = [gPc EXCEPT ![r] = G!FirstStep[c.kind]] /\ UNCHANGED gAnswer
    BY <1>1 DEF G!Start
  <2>2. G!FirstStep[c.kind] \notin Settling
    BY TagCallFields DEF TagKinds, G!FirstStep, Settling
  <2>3. gPc[r] = "idle" /\ UNCHANGED <<tags, taggings, halfway>>
    BY <1>1 DEF G!Start
  <2>4. gPc[r] \notin Settling
    BY <2>3 DEF Settling
  <2>5. \A t : Added(t)' = Added(t) /\ Removed(t)' = Removed(t)
    BY <2>1, <2>2, <2>3, <2>4, UncountedStay
  <2> QED BY <2>3, <2>5 DEF G!Exists
<1>2. CASE G!FindName(r) \/ G!FindTag(r) \/ G!FindEntity(r) \/ G!FindTagging(r) \/ G!DropEntity(r)
  <2>1. /\ UNCHANGED <<tags, taggings, gCall, halfway>>
        /\ gPc[r] \notin Settling
        /\ \E l : gPc' = [gPc EXCEPT ![r] = l] /\ l \notin Settling
    <3>1. CASE G!FindName(r)
      BY <3>1 DEF G!FindName, Settling
    <3>2. CASE G!FindTag(r)
      BY <3>2 DEF G!FindTag, Settling
    <3>3. CASE G!FindEntity(r)
      BY <3>3 DEF G!FindEntity, Settling
    <3>4. CASE G!FindTagging(r)
      BY <3>4 DEF G!FindTagging, Settling
    <3>5. CASE G!DropEntity(r)
      BY <3>5 DEF G!DropEntity, Settling
    <3> QED BY <1>2, <3>1, <3>2, <3>3, <3>4, <3>5
  <2>2. \A t : Added(t)' = Added(t) /\ Removed(t)' = Removed(t)
    BY <2>1, UncountedStay
  <2> QED BY <2>1, <2>2 DEF G!Exists
<1>3. CASE G!UpdateTag(r)
  <2>1. /\ UNCHANGED <<taggings, gCall, halfway>>
        /\ gPc[r] = "updateTag" /\ gPc' = [gPc EXCEPT ![r] = "done"]
    BY <1>3 DEF G!UpdateTag
  <2>2. gPc[r] \notin Settling /\ "done" \notin Settling
    BY <2>1 DEF Settling
  <2>3. \A t : Added(t)' = Added(t) /\ Removed(t)' = Removed(t)
    BY <2>1, <2>2, UncountedStay
  <2>4. gCall[r].tag \in TagIds
    BY <2>1, TagCallFields DEF TagCallOK
  <2>5. /\ \A t \in TagIds : G!Exists(t)' => G!Exists(t) /\ tags'[t].usage = tags[t].usage
        /\ \A t \in TagIds : G!Exists(t) => G!Exists(t)'
    <3>1. CASE UNCHANGED tags
      BY <3>1 DEF G!Exists
    <3>2. CASE /\ G!Exists(gCall[r].tag)
               /\ tags' = [tags EXCEPT ![gCall[r].tag].name = gCall[r].name,
                                       ![gCall[r].tag].visibility = gCall[r].visibility]
      <4> DEFINE s == gCall[r].tag
      <4>1. tags[s] \in G!TagRow
        BY <2>4, <3>2 DEF G!Exists, G!TypeOK
      <4>2. tags' \in [TagIds -> G!TagRow \cup {None}]
        BY TagTypedStep, <1>3 DEF G!Next, G!TypeOK, TagRequests
      <4>3. /\ \A t \in TagIds : t # s => tags'[t] = tags[t]
            /\ tags'[s].usage = tags[s].usage
            /\ tags'[s] = [[tags[s] EXCEPT !.name = gCall[r].name] EXCEPT !.visibility = gCall[r].visibility]
        BY <2>4, <3>2, <4>1 DEF G!TypeOK, G!TagRow
      <4>4. tags'[s] \in G!TagRow
        BY <2>1, <2>4, <4>1, <4>3, TagCallFields DEF TagCallOK, G!TagRow
      <4>5. tags'[s] # None
        BY <4>4, NoneNoTag
      <4> QED BY <3>2, <4>3, <4>5 DEF G!Exists
    <3> QED BY <1>3, <3>1, <3>2 DEF G!UpdateTag
  <2> QED BY <2>1, <2>3, <2>5
<1>4. CASE G!Abort(r)
  <2>1. /\ UNCHANGED <<tags, taggings, gCall>> /\ gPc' = [gPc EXCEPT ![r] = "done"]
        /\ halfway' = IF gPc[r] \in Settling THEN halfway \cup {r} ELSE halfway
    BY <1>4 DEF G!Abort, Settling
  <2>2. "done" \notin Settling
    BY DEF Settling
  <2>3. \A t : Added(t)' = Added(t) /\ Removed(t)' = Removed(t)
    <3>1. CASE gPc[r] \in Settling
      BY <2>1, <2>2, <3>1, UncountedStay
    <3>2. CASE gPc[r] \notin Settling
      BY <2>1, <2>2, <3>2, UncountedStay
    <3> QED BY <3>1, <3>2
  <2> QED BY <2>1, <2>3 DEF G!Exists
<1> QED BY <1>1, <1>2, <1>3, <1>4 DEF QuietStep

LEMMA BalancedKept ==
    ASSUME NEW t, Balanced(t), Added(t)' = Added(t), Removed(t)' = Removed(t),
           G!TaggingsOf(t)' = G!TaggingsOf(t),
           G!Exists(t)' => G!Exists(t) /\ tags'[t].usage = tags[t].usage
    PROVE  Balanced(t)'
BY DEF Balanced

LEMMA CountsStep == TagInv /\ [G!Next]_(G!vars) => CountsFinite' /\ G!UsageCountsTaggings'
<1> SUFFICES ASSUME TagInv, [G!Next]_(G!vars) PROVE CountsFinite' /\ \A t \in TagIds : Balanced(t)'
  BY CountsAreBalanced
<1>b. \A t \in TagIds : Balanced(t)
  BY CountsAreBalanced DEF TagInv
<1>t. TagTyped /\ CountsFinite
  BY DEF TagInv
<1> USE DEF G!Goto, G!Reply, G!history, G!tables
<1>1. ASSUME NEW r \in TagRequests, QuietStep(r) PROVE CountsFinite' /\ \A t \in TagIds : Balanced(t)'
  <2>1. \A t : G!TaggingsOf(t)' = G!TaggingsOf(t)
    BY <1>1, <1>t, QuietSteps DEF G!TaggingsOf
  <2> QED BY <1>1, <1>b, <1>t, <2>1, QuietSteps, BalancedKept DEF CountsFinite
<1>2. ASSUME NEW r \in TagRequests, G!CreateTag(r) \/ G!DeleteTag(r)
      PROVE  CountsFinite' /\ \A t \in TagIds : Balanced(t)'
  <2>1. /\ gPc' = [gPc EXCEPT ![r] = "done"] /\ UNCHANGED <<gCall, halfway>>
        /\ gPc[r] \in {"createTag", "deleteTag"}
    BY <1>2 DEF G!CreateTag, G!DeleteTag
  <2>2. gPc[r] \notin Settling /\ "done" \notin Settling
    BY <2>1 DEF Settling
  <2>3. \A t : Added(t)' = Added(t) /\ Removed(t)' = Removed(t)
    BY <1>t, <2>1, <2>2, UncountedStay
  <2>4. PICK s \in TagIds : s = gCall[r].tag
    BY <1>t, <2>1, TagCallFields DEF TagTyped, TagCallOK
  <2>5. taggings' \subseteq taggings
    BY <1>2 DEF G!CreateTag, G!DeleteTag
  <2>6. CountsFinite'
    BY <1>t, <2>3, <2>5, FS_Subset DEF CountsFinite
  <2>7. ASSUME NEW t \in TagIds, t # s PROVE Balanced(t)'
    <3>1. tags'[t] = tags[t]
      BY <1>2, <1>t, <2>4, <2>7 DEF G!CreateTag, G!DeleteTag, TagTyped, G!TypeOK
    <3>2. G!TaggingsOf(t)' = G!TaggingsOf(t)
      BY <1>2, <2>4, <2>7 DEF G!CreateTag, G!DeleteTag, G!TaggingsOf
    <3> QED BY <1>b, <2>3, <3>1, <3>2, BalancedKept DEF G!Exists
  <2>8. Balanced(s)'
    <3>1. CASE UNCHANGED <<tags, taggings>>
      <4>1. G!TaggingsOf(s)' = G!TaggingsOf(s)
        BY <3>1 DEF G!TaggingsOf
      <4> QED BY <1>b, <2>3, <3>1, <4>1, BalancedKept DEF G!Exists
    <3>2. CASE tags' = [tags EXCEPT ![s] = None]
      BY <1>t, <2>1, <2>4, <3>2 DEF Balanced, G!Exists, TagTyped, G!TypeOK
    <3>3. CASE G!CreateTag(r) /\ tags' = [tags EXCEPT ![s] = G!NewTag(gCall[r])]
      <4>1. Unborn(s)
        BY <1>t, <2>4, <3>3 DEF G!CreateTag, TagInv, CreatedOnce, Unborn, TagTyped, TagCallOK
      <4>2. Added(s) = {} /\ Removed(s) = {} /\ ~ G!Exists(s)
        BY <2>4, <4>1 DEF TagInv, UnbornAreBlank
      <4>3. G!TaggingsOf(s) = {}
        BY <4>2 DEF TagInv, G!NamesAndTaggingsHold, G!TaggingsOf
      <4>4. G!TaggingsOf(s)' = {} /\ Added(s)' = {} /\ Removed(s)' = {} /\ tags'[s].usage = 0
        <5>1. tags'[s].usage = 0
          BY <1>t, <2>4, <3>3 DEF G!NewTag, TagTyped, G!TypeOK
        <5>2. UNCHANGED taggings /\ UNCHANGED gCall
          BY <3>3 DEF G!CreateTag
        <5>3. \A t : G!TaggingsOf(t)' = G!TaggingsOf(t)
          BY <5>2 DEF G!TaggingsOf
        <5> QED BY <2>3, <4>2, <4>3, <5>1, <5>3
      <4>5. Cardinality({}) = 0
        BY FS_EmptySet
      <4> QED BY <4>4, <4>5 DEF Balanced
    <3>4. \/ UNCHANGED <<tags, taggings>>
          \/ tags' = [tags EXCEPT ![s] = None]
          \/ G!CreateTag(r) /\ tags' = [tags EXCEPT ![s] = G!NewTag(gCall[r])]
      BY <1>2, <2>4 DEF G!CreateTag, G!DeleteTag
    <3> QED BY <3>1, <3>2, <3>3, <3>4
  <2> QED BY <2>6, <2>7, <2>8

<1>3. ASSUME NEW r \in TagRequests, G!CreateTagging(r) \/ G!DeleteTagging(r)
      PROVE  CountsFinite' /\ \A t \in TagIds : Balanced(t)'
  <2>1. /\ UNCHANGED <<tags, gCall, halfway>>
        /\ gPc[r] \in {"createTagging", "deleteTagging"} /\ gCall[r].kind \in {"add", "untag"}
    BY <1>3, <1>t DEF G!CreateTagging, G!DeleteTagging, TagTyped, TagCallOK
  <2>2. PICK s \in TagIds : s = gCall[r].tag
    BY <1>t, <2>1, TagCallFields DEF TagTyped, TagCallOK
  <2>3. CASE UNCHANGED taggings /\ gPc' = [gPc EXCEPT ![r] = "done"]
    <3>1. gPc[r] \notin Settling /\ "done" \notin Settling
      BY <2>1 DEF Settling
    <3>2. \A t : Added(t)' = Added(t) /\ Removed(t)' = Removed(t)
      BY <1>t, <2>1, <2>3, <3>1, UncountedStay
    <3>3. \A t : G!TaggingsOf(t)' = G!TaggingsOf(t)
      BY <2>3 DEF G!TaggingsOf
    <3> QED BY <1>b, <1>t, <2>1, <2>3, <3>2, <3>3, BalancedKept DEF CountsFinite, G!Exists
  <2>4. CASE \/ /\ gCall[r].kind = "add" /\ gPc' = [gPc EXCEPT ![r] = "increment"]
                /\ G!Pair(r) \notin taggings /\ taggings' = taggings \cup {G!Pair(r)}
             \/ /\ gCall[r].kind = "untag" /\ gPc' = [gPc EXCEPT ![r] = "decrement"]
                /\ G!Pair(r) \in taggings /\ taggings' = taggings \ {G!Pair(r)}
    <3>1. PICK l \in Settling : gPc' = [gPc EXCEPT ![r] = l]
      BY <2>4 DEF Settling
    <3>9. G!Pair(r).tag = s
      BY <2>2 DEF G!Pair
    <3>2. PICK row : row = G!Pair(r) /\ row.tag = s
      BY <3>9
    <3>3. ASSUME NEW t \in TagIds
          PROVE  /\ Added(t)' = IF gCall[r].kind = "add" /\ s = t
                                THEN Added(t) \cup {r} ELSE Added(t)
                 /\ Removed(t)' = IF gCall[r].kind = "untag" /\ s = t
                                  THEN Removed(t) \cup {r} ELSE Removed(t)
                 /\ r \notin Added(t) /\ r \notin Removed(t)
      BY <1>t, <2>1, <2>2, <3>1, UncountedJoins
    <3>4. CountsFinite'
      <4>1. IsFiniteSet(taggings')
        BY <1>t, <2>4, OneMore, OneLess DEF CountsFinite
      <4>2. ASSUME NEW t \in TagIds PROVE IsFiniteSet(Added(t)') /\ IsFiniteSet(Removed(t)')
        BY <1>t, <3>3, OneMore DEF CountsFinite
      <4> QED BY <4>1, <4>2 DEF CountsFinite
    <3>5. ASSUME NEW t \in TagIds, t # s PROVE Balanced(t)'
      <4>1. G!TaggingsOf(t)' = G!TaggingsOf(t)
        BY <2>4, <3>2, <3>5 DEF G!TaggingsOf
      <4>2. Added(t)' = Added(t) /\ Removed(t)' = Removed(t)
        BY <3>3, <3>5
      <4> QED BY <1>b, <2>1, <4>1, <4>2, BalancedKept DEF G!Exists
    <3>6. Balanced(s)'
      <4>1. /\ G!Exists(s)' <=> G!Exists(s)
            /\ G!Exists(s) => tags'[s].usage = tags[s].usage
        BY <2>1 DEF G!Exists
      <4>2. /\ IsFiniteSet(G!TaggingsOf(s)) /\ IsFiniteSet(Added(s)) /\ IsFiniteSet(Removed(s))
            /\ Cardinality(Added(s)) \in Nat /\ Cardinality(Removed(s)) \in Nat
            /\ Cardinality(G!TaggingsOf(s)) \in Nat
            /\ G!Exists(s) => tags[s].usage \in Int
        BY <1>t, CountsAreNumbers DEF CountsFinite
      <4>3. CASE gCall[r].kind = "add"
        <5>1. G!TaggingsOf(s)' = G!TaggingsOf(s) \cup {row} /\ row \notin G!TaggingsOf(s)
          BY <2>4, <3>2, <4>3 DEF G!TaggingsOf
        <5>2. Cardinality(G!TaggingsOf(s)') = Cardinality(G!TaggingsOf(s)) + 1
          BY <4>2, <5>1, OneMore
        <5>3. Added(s)' = Added(s) \cup {r} /\ Removed(s)' = Removed(s) /\ r \notin Added(s)
          BY <3>3, <4>3
        <5>4. Cardinality(Added(s)') = Cardinality(Added(s)) + 1
          BY <4>2, <5>3, OneMore
        <5> QED BY <1>b, <4>1, <4>2, <5>2, <5>3, <5>4 DEF Balanced
      <4>4. CASE gCall[r].kind = "untag"
        <5>1. G!TaggingsOf(s)' = G!TaggingsOf(s) \ {row} /\ row \in G!TaggingsOf(s)
          BY <2>4, <3>2, <4>4 DEF G!TaggingsOf
        <5>2. Cardinality(G!TaggingsOf(s)') = Cardinality(G!TaggingsOf(s)) - 1
          BY <4>2, <5>1, OneLess
        <5>3. Removed(s)' = Removed(s) \cup {r} /\ Added(s)' = Added(s) /\ r \notin Removed(s)
          BY <3>3, <4>4
        <5>4. Cardinality(Removed(s)') = Cardinality(Removed(s)) + 1
          BY <4>2, <5>3, OneMore
        <5> QED BY <1>b, <4>1, <4>2, <5>2, <5>3, <5>4 DEF Balanced
      <4> QED BY <2>1, <4>3, <4>4
    <3> QED BY <3>4, <3>5, <3>6
  <2>5. \/ UNCHANGED taggings /\ gPc' = [gPc EXCEPT ![r] = "done"]
        \/ /\ gCall[r].kind = "add" /\ gPc' = [gPc EXCEPT ![r] = "increment"]
           /\ G!Pair(r) \notin taggings /\ taggings' = taggings \cup {G!Pair(r)}
        \/ /\ gCall[r].kind = "untag" /\ gPc' = [gPc EXCEPT ![r] = "decrement"]
           /\ G!Pair(r) \in taggings /\ taggings' = taggings \ {G!Pair(r)}
    BY <1>3, <1>t DEF G!CreateTagging, G!DeleteTagging, G!Creatable, TagTyped, TagCallOK
  <2> QED BY <2>3, <2>4, <2>5
<1>4. ASSUME NEW r \in TagRequests, G!Increment(r) \/ G!Decrement(r)
      PROVE  CountsFinite' /\ \A t \in TagIds : Balanced(t)'
  <2>1. /\ gPc' = [gPc EXCEPT ![r] = "done"] /\ UNCHANGED <<taggings, gCall, halfway>>
        /\ gPc[r] \in Settling /\ gCall[r].kind \in {"add", "untag"}
    BY <1>4, <1>t DEF G!Increment, G!Decrement, G!Count, Settling, TagTyped, TagCallOK
  <2>2. PICK s \in TagIds : s = gCall[r].tag
    BY <1>t, <2>1, TagCallFields DEF TagTyped, TagCallOK, Settling
  <2>3. ASSUME NEW t \in TagIds
        PROVE  /\ Added(t)' = Added(t) \ {r} /\ Removed(t)' = Removed(t) \ {r}
               /\ r \in Added(t) <=> gCall[r].kind = "add" /\ s = t
               /\ r \in Removed(t) <=> gCall[r].kind = "untag" /\ s = t
    BY <1>t, <2>1, <2>2, UncountedLeaves
  <2>4. CountsFinite'
    BY <1>t, <2>1, <2>3, FS_Subset DEF CountsFinite
  <2>5. \A t : G!TaggingsOf(t)' = G!TaggingsOf(t)
    BY <2>1 DEF G!TaggingsOf
  <2>6. PICK step \in Int : /\ step = IF gCall[r].kind = "add" THEN 1 ELSE -1
                            /\ G!Count(r, step)
    BY <1>4, <1>t DEF G!Increment, G!Decrement, TagTyped, TagCallOK
  <2>7. /\ \A t \in TagIds : t # s => tags'[t] = tags[t]
        /\ G!Exists(s)' => G!Exists(s) /\ tags'[s].usage = tags[s].usage + step
    <3>1. CASE G!Exists(s)
      <4>1. tags[s] \in G!TagRow /\ tags' = [tags EXCEPT ![s].usage = @ + step]
        BY <1>t, <2>2, <2>6, <3>1 DEF G!Count, G!Exists, TagTyped, G!TypeOK
      <4> QED BY <1>t, <3>1, <4>1 DEF TagTyped, G!TypeOK, G!TagRow
    <3>2. CASE ~ G!Exists(s)
      BY <2>2, <2>6, <3>2 DEF G!Count, G!Exists
    <3> QED BY <3>1, <3>2
  <2>8. ASSUME NEW t \in TagIds, t # s PROVE Balanced(t)'
    <3>1. Added(t)' = Added(t) /\ Removed(t)' = Removed(t)
      BY <2>3, <2>8
    <3> QED BY <1>b, <2>5, <2>7, <2>8, <3>1, BalancedKept DEF G!Exists
  <2>9. Balanced(s)'
    <3>1. /\ IsFiniteSet(Added(s)) /\ IsFiniteSet(Removed(s))
          /\ Cardinality(Added(s)) \in Nat /\ Cardinality(Removed(s)) \in Nat
          /\ Cardinality(G!TaggingsOf(s)) \in Nat
          /\ G!Exists(s) => tags[s].usage \in Int
      BY <1>t, CountsAreNumbers DEF CountsFinite
    <3>2. CASE gCall[r].kind = "add"
      <4>1. Added(s)' = Added(s) \ {r} /\ Removed(s)' = Removed(s) /\ r \in Added(s)
        BY <2>3, <3>2
      <4>2. Cardinality(Added(s)') = Cardinality(Added(s)) - 1
        BY <3>1, <4>1, OneLess
      <4> QED BY <1>b, <2>5, <2>6, <2>7, <3>1, <3>2, <4>1, <4>2 DEF Balanced
    <3>3. CASE gCall[r].kind = "untag"
      <4>1. Removed(s)' = Removed(s) \ {r} /\ Added(s)' = Added(s) /\ r \in Removed(s)
        BY <2>3, <3>3
      <4>2. Cardinality(Removed(s)') = Cardinality(Removed(s)) - 1
        BY <3>1, <4>1, OneLess
      <4> QED BY <1>b, <2>5, <2>6, <2>7, <3>1, <3>3, <4>1, <4>2 DEF Balanced
    <3> QED BY <2>1, <3>2, <3>3
  <2> QED BY <2>4, <2>8, <2>9
<1>5. CASE UNCHANGED G!vars
  BY <1>5, <1>b, <1>t DEF G!vars, Balanced, CountsFinite, Added, Removed, G!Uncounted,
     G!TaggingsOf, G!Exists
<1> QED BY <1>1, <1>2, <1>3, <1>4, <1>5 DEF G!Next, QuietStep, TagRequests


\* No call that is at its start comes back to it, and what is created is fresh.
LEMMA CreatedOnceStep == TagInv /\ [G!Next]_(G!vars) => CreatedOnce'
<1> SUFFICES ASSUME TagInv, [G!Next]_(G!vars) PROVE CreatedOnce'
  OBVIOUS
<1> USE DEF TagInv
<1>1. ASSUME NEW r \in TagRequests, G!Start(r) PROVE CreatedOnce'
  <2>1. PICK c \in TagCalls : G!FreshId(c) /\ gCall' = [gCall EXCEPT ![r] = c]
    BY <1>1 DEF G!Start
  <2>2. gCall[r].kind = "none"
    BY <1>1 DEF G!Start, TagTyped, TagCallOK, G!NoCall
  <2> QED BY <2>1, <2>2 DEF CreatedOnce, G!FreshId, TagTyped, G!TypeOK, TagRequests
<1>2. UNCHANGED gCall \/ \E r \in TagRequests : G!Start(r)
  BY DEF G!Next, G!vars, G!FindName, G!CreateTag, G!FindTag, G!UpdateTag, G!DeleteTag, G!FindEntity,
     G!FindTagging, G!CreateTagging, G!Increment, G!DeleteTagging, G!Decrement, G!DropEntity, G!Abort,
     G!Count, TagRequests
<1> QED BY <1>1, <1>2 DEF CreatedOnce

\* A call moves on; only the last step of a creation makes a tag that was not
\* there, and only a step on a tag that is there writes for it.
LEMMA UnbornStep == TagInv /\ [G!Next]_(G!vars) => UnbornAreBlank'
<1> SUFFICES ASSUME TagInv, [G!Next]_(G!vars), NEW t \in TagIds, Unborn(t)'
             PROVE  ~ G!Exists(t)' /\ Added(t)' = {} /\ Removed(t)' = {}
  BY DEF UnbornAreBlank
<1> USE DEF G!Goto, G!Reply, G!history, G!tables
<1>t. TagTyped
  BY DEF TagInv
<1>1. ASSUME NEW r \in TagRequests, G!Start(r) PROVE Unborn(t)
  <2>1. /\ \A q \in TagRequests : q # r => gCall'[q] = gCall[q] /\ gPc'[q] = gPc[q]
        /\ gCall[r].kind = "none"
    BY <1>1, <1>t DEF G!Start, TagTyped, G!TypeOK, TagCallOK, G!NoCall
  <2> QED BY <2>1 DEF Unborn
<1>2. ASSUME NEW r \in TagRequests, NEW l, gPc[r] # "idle", gPc' = [gPc EXCEPT ![r] = l],
             UNCHANGED gCall, l \in {"findName", "createTag"} => gPc[r] = "findName"
      PROVE  Unborn(t)
  BY <1>2, <1>t DEF Unborn, TagTyped, G!TypeOK, TagRequests
<1>3. Unborn(t)
  <2>1. ASSUME NEW r \in TagRequests,
               G!FindName(r) \/ G!CreateTag(r) \/ G!FindTag(r) \/ G!UpdateTag(r) \/ G!DeleteTag(r)
        PROVE  Unborn(t)
    <3>1. CASE G!FindName(r)
      BY <1>2, <1>t, <3>1 DEF G!FindName, TagTyped, TagCallOK
    <3>2. CASE G!FindTag(r)
      BY <1>2, <3>2 DEF G!FindTag
    <3>3. CASE G!CreateTag(r) \/ G!UpdateTag(r) \/ G!DeleteTag(r)
      BY <1>2, <3>3 DEF G!CreateTag, G!UpdateTag, G!DeleteTag
    <3> QED BY <2>1, <3>1, <3>2, <3>3
  <2>2. ASSUME NEW r \in TagRequests,
               \/ G!FindEntity(r) \/ G!FindTagging(r) \/ G!CreateTagging(r) \/ G!DeleteTagging(r)
               \/ G!Increment(r) \/ G!Decrement(r) \/ G!DropEntity(r) \/ G!Abort(r)
        PROVE  Unborn(t)
    <3>1. CASE G!FindEntity(r) \/ G!FindTagging(r)
      BY <1>2, <3>1 DEF G!FindEntity, G!FindTagging
    <3>2. CASE G!CreateTagging(r) \/ G!DeleteTagging(r)
      BY <1>2, <3>2 DEF G!CreateTagging, G!DeleteTagging
    <3>3. CASE G!Increment(r) \/ G!Decrement(r) \/ G!DropEntity(r) \/ G!Abort(r)
      BY <1>2, <3>3 DEF G!Increment, G!Decrement, G!Count, G!DropEntity, G!Abort
    <3> QED BY <2>2, <3>1, <3>2, <3>3
  <2>3. CASE UNCHANGED G!vars
    BY <2>3 DEF G!vars, Unborn
  <2> QED BY <1>1, <2>1, <2>2, <2>3 DEF G!Next, TagRequests
<1>4. ~ G!Exists(t) /\ Added(t) = {} /\ Removed(t) = {}
  BY <1>3 DEF TagInv, UnbornAreBlank
<1>5. ASSUME NEW r \in TagRequests, QuietStep(r)
      PROVE  ~ G!Exists(t)' /\ Added(t)' = {} /\ Removed(t)' = {}
  BY <1>4, <1>5, <1>t, QuietSteps
<1>6. ASSUME NEW r \in TagRequests, G!CreateTag(r) \/ G!DeleteTag(r)
      PROVE  ~ G!Exists(t)' /\ Added(t)' = {} /\ Removed(t)' = {}
  <2>1. /\ gPc' = [gPc EXCEPT ![r] = "done"] /\ UNCHANGED <<gCall, halfway>>
        /\ gPc[r] \in {"createTag", "deleteTag"}
    BY <1>6 DEF G!CreateTag, G!DeleteTag
  <2>2. gPc[r] \notin Settling /\ "done" \notin Settling
    BY <2>1 DEF Settling
  <2>3. Added(t)' = {} /\ Removed(t)' = {}
    BY <1>4, <1>t, <2>1, <2>2, UncountedStay
  <2>4. G!CreateTag(r) => gCall[r].tag # t
    <3>1. G!CreateTag(r) => gCall[r].kind = "create" /\ gPc'[r] = "done"
      BY <1>t, <2>1 DEF G!CreateTag, TagTyped, TagCallOK, G!TypeOK, TagRequests
    <3> QED BY <2>1, <3>1 DEF Unborn
  <2>5. tags'[t] = None
    BY <1>4, <1>6, <1>t, <2>4 DEF G!CreateTag, G!DeleteTag, G!Exists, TagTyped, G!TypeOK
  <2> QED BY <2>3, <2>5 DEF G!Exists
<1>7. ASSUME NEW r \in TagRequests, G!CreateTagging(r) \/ G!DeleteTagging(r)
      PROVE  ~ G!Exists(t)' /\ Added(t)' = {} /\ Removed(t)' = {}
  <2>1. /\ UNCHANGED <<tags, gCall, halfway>>
        /\ gPc[r] \in {"createTagging", "deleteTagging"}
    BY <1>7 DEF G!CreateTagging, G!DeleteTagging
  <2>2. CASE gPc' = [gPc EXCEPT ![r] = "done"]
    <3>1. gPc[r] \notin Settling /\ "done" \notin Settling
      BY <2>1 DEF Settling
    <3> QED BY <1>4, <1>t, <2>1, <2>2, <3>1, UncountedStay DEF G!Exists
  <2>3. CASE \E l \in Settling : gPc' = [gPc EXCEPT ![r] = l]
    <3>1. G!Exists(gCall[r].tag)
      <4>1. CASE G!CreateTagging(r)
        BY <2>3, <4>1, <1>t DEF G!CreateTagging, G!Creatable, Settling, TagTyped, G!TypeOK, TagRequests
      <4>2. CASE G!DeleteTagging(r)
        <5>1. G!Pair(r) \in taggings
          BY <2>3, <4>2, <1>t DEF G!DeleteTagging, Settling, TagTyped, G!TypeOK, TagRequests
        <5> QED BY <5>1 DEF TagInv, G!NamesAndTaggingsHold, G!Pair
      <4> QED BY <1>7, <4>1, <4>2
    <3>2. gCall[r].tag # t
      BY <1>4, <3>1
    <3> QED BY <1>4, <1>t, <2>1, <2>3, <3>2, UncountedJoins DEF G!Exists
  <2>4. gPc' = [gPc EXCEPT ![r] = "done"] \/ \E l \in Settling : gPc' = [gPc EXCEPT ![r] = l]
    BY <1>7 DEF G!CreateTagging, G!DeleteTagging, Settling
  <2> QED BY <2>2, <2>3, <2>4
<1>8. ASSUME NEW r \in TagRequests, G!Increment(r) \/ G!Decrement(r)
      PROVE  ~ G!Exists(t)' /\ Added(t)' = {} /\ Removed(t)' = {}
  <2>1. /\ gPc' = [gPc EXCEPT ![r] = "done"] /\ UNCHANGED <<gCall, halfway>>
        /\ gPc[r] \in Settling
    BY <1>8 DEF G!Increment, G!Decrement, G!Count, Settling
  <2>2. Added(t)' = {} /\ Removed(t)' = {}
    BY <1>4, <1>t, <2>1, UncountedLeaves
  <2>3. r \notin Added(t) /\ r \notin Removed(t)
    BY <1>4
  <2>4. gCall[r].tag # t
    <3>1. gCall[r].kind \in {"add", "untag"}
      BY <1>t, <2>1 DEF TagTyped, TagCallOK, Settling
    <3> QED BY <1>t, <2>1, <2>3, <3>1, UncountedLeaves
  <2>5. tags'[t] = None
    BY <1>4, <1>8, <1>t, <2>4 DEF G!Increment, G!Decrement, G!Count, G!Exists, TagTyped, G!TypeOK
  <2> QED BY <2>2, <2>5 DEF G!Exists
<1>9. CASE UNCHANGED G!vars
  BY <1>4, <1>9 DEF G!vars, Added, Removed, G!Uncounted, G!Exists
<1> QED BY <1>5, <1>6, <1>7, <1>8, <1>9 DEF G!Next, QuietStep, TagRequests


\* The unique key on names and the cascade on taggings do what the look-ups
\* cannot: no name is given twice, and no tagging outlives its tag.
LEMMA NamesStep == TagInv /\ [G!Next]_(G!vars) => G!NamesAndTaggingsHold'
<1> SUFFICES ASSUME TagInv, [G!Next]_(G!vars) PROVE G!NamesAndTaggingsHold'
  OBVIOUS
<1>t. TagTyped /\ G!NamesAndTaggingsHold
  BY DEF TagInv
<1>1. CASE UNCHANGED <<tags, taggings>>
  BY <1>1, <1>t DEF G!NamesAndTaggingsHold, G!HasName, G!Exists
<1>2. ASSUME NEW r \in TagRequests, NEW s \in TagIds, NEW n, ~ G!NameTaken(s, n),
             UNCHANGED taggings, NEW row, tags' = [tags EXCEPT ![s] = row], row.name = n,
             row # None
      PROVE  G!NamesAndTaggingsHold'
  <2>1. /\ tags'[s] # None /\ tags'[s].name = n
        /\ \A u \in TagIds : u # s => tags'[u] = tags[u]
    BY <1>2, <1>t DEF TagTyped, G!TypeOK
  <2>2. \A u \in TagIds : u # s /\ tags[u] # None => tags[u].name # n
    BY <1>2 DEF G!NameTaken, G!HasName, G!Exists
  <2>3. ASSUME NEW a \in TagIds, NEW b \in TagIds, tags'[a] # None, tags'[b] # None,
               tags'[b].name = tags'[a].name
        PROVE  a = b
    <3>1. CASE a # s /\ b # s
      BY <1>t, <2>1, <2>3, <3>1 DEF G!NamesAndTaggingsHold, G!HasName, G!Exists
    <3>2. CASE a = s \/ b = s
      BY <2>1, <2>2, <2>3, <3>2
    <3> QED BY <3>1, <3>2
  <2>4. \A t \in taggings : t.tag \in TagIds /\ tags[t.tag] # None
    BY <1>t DEF G!NamesAndTaggingsHold, G!Exists, TagTyped, G!TypeOK, G!Tagging
  <2>5. \A t \in taggings' : tags'[t.tag] # None
    BY <1>2, <2>1, <2>4
  <2> QED BY <2>3, <2>5 DEF G!NamesAndTaggingsHold, G!HasName, G!Exists
<1>3. ASSUME NEW r \in TagRequests, G!CreateTag(r) PROVE G!NamesAndTaggingsHold'
  <2>1. gCall[r].tag \in TagIds /\ G!NewTag(gCall[r]) \in G!TagRow
    BY <1>3, <1>t, TagCallFields DEF G!CreateTag, TagTyped, TagCallOK, G!NewTag, G!TagRow
  <2>2. G!NewTag(gCall[r]).name = gCall[r].name /\ G!NewTag(gCall[r]) # None
    BY <2>1, NoneNoTag DEF G!NewTag
  <2>3. \/ UNCHANGED <<tags, taggings>>
        \/ /\ ~ G!NameTaken(gCall[r].tag, gCall[r].name) /\ UNCHANGED taggings
           /\ tags' = [tags EXCEPT ![gCall[r].tag] = G!NewTag(gCall[r])]
    BY <1>3 DEF G!CreateTag
  <2> HIDE DEF G!NewTag
  <2> QED BY <1>1, <1>2, <2>1, <2>2, <2>3
<1>4. ASSUME NEW r \in TagRequests, G!UpdateTag(r) PROVE G!NamesAndTaggingsHold'
  <2>1. gCall[r].tag \in TagIds
    BY <1>4, <1>t, TagCallFields DEF G!UpdateTag, TagTyped, TagCallOK
  <2>2. CASE /\ ~ G!NameTaken(gCall[r].tag, gCall[r].name) /\ G!Exists(gCall[r].tag)
             /\ UNCHANGED taggings
             /\ tags' = [tags EXCEPT ![gCall[r].tag].name = gCall[r].name,
                                     ![gCall[r].tag].visibility = gCall[r].visibility]
    <3> DEFINE new == [[tags[gCall[r].tag] EXCEPT !.name = gCall[r].name]
                          EXCEPT !.visibility = gCall[r].visibility]
    <3>1. tags[gCall[r].tag] \in G!TagRow
      BY <1>t, <2>1, <2>2 DEF G!Exists, TagTyped, G!TypeOK
    <3>2. tags' = [tags EXCEPT ![gCall[r].tag] = new]
      BY <1>t, <2>1, <2>2 DEF TagTyped, G!TypeOK
    <3>3. new \in G!TagRow /\ new.name = gCall[r].name
      BY <1>4, <1>t, <3>1, TagCallFields DEF G!UpdateTag, TagTyped, TagCallOK, G!TagRow
    <3> HIDE DEF new
    <3> QED BY <1>2, <2>1, <2>2, <3>2, <3>3, NoneNoTag
  <2> QED BY <1>1, <1>4, <2>2 DEF G!UpdateTag, G!history
<1>5. ASSUME NEW r \in TagRequests, G!DeleteTag(r) PROVE G!NamesAndTaggingsHold'
  <2>1. gCall[r].tag \in TagIds
    BY <1>5, <1>t, TagCallFields DEF G!DeleteTag, TagTyped, TagCallOK
  <2>2. CASE /\ tags' = [tags EXCEPT ![gCall[r].tag] = None]
             /\ taggings' = taggings \ G!TaggingsOf(gCall[r].tag)
    BY <1>t, <2>1, <2>2 DEF G!NamesAndTaggingsHold, G!HasName, G!Exists, G!TaggingsOf,
       TagTyped, G!TypeOK, G!Tagging
  <2> QED BY <1>1, <1>5, <2>2 DEF G!DeleteTag
<1>6. ASSUME NEW r \in TagRequests, G!CreateTagging(r) \/ G!DeleteTagging(r)
      PROVE  G!NamesAndTaggingsHold'
  BY <1>t, <1>6 DEF G!CreateTagging, G!DeleteTagging, G!Creatable, G!Pair,
     G!NamesAndTaggingsHold, G!HasName, G!Exists
<1>7. ASSUME NEW r \in TagRequests, NEW step \in {1, -1}, G!Count(r, step), gPc[r] \in Settling
      PROVE  G!NamesAndTaggingsHold'
  <2>1. gCall[r].tag \in TagIds
    BY <1>7, <1>t, TagCallFields DEF Settling, TagTyped, TagCallOK
  <2>2. CASE /\ G!Exists(gCall[r].tag) /\ UNCHANGED taggings
             /\ tags' = [tags EXCEPT ![gCall[r].tag].usage = @ + step]
    <3>1. tags[gCall[r].tag] \in G!TagRow
      BY <1>t, <2>1, <2>2 DEF G!Exists, TagTyped, G!TypeOK
    <3>2. /\ tags'[gCall[r].tag].name = tags[gCall[r].tag].name
          /\ \A u \in TagIds : u # gCall[r].tag => tags'[u] = tags[u]
      BY <1>t, <2>1, <2>2, <3>1 DEF TagTyped, G!TypeOK, G!TagRow
    <3>3. tags'[gCall[r].tag] # None
      <4>1. tags'[gCall[r].tag] = [tags[gCall[r].tag] EXCEPT !.usage = @ + step]
        BY <1>t, <2>1, <2>2 DEF TagTyped, G!TypeOK
      <4>2. tags'[gCall[r].tag] \in G!TagRow
        BY <1>7, <3>1, <4>1 DEF G!TagRow
      <4> QED BY <4>2, NoneNoTag
    <3>4. \A t \in taggings : t.tag \in TagIds
      BY <1>t DEF TagTyped, G!TypeOK, G!Tagging
    <3> QED BY <1>t, <2>1, <2>2, <3>2, <3>3, <3>4 DEF G!NamesAndTaggingsHold, G!HasName, G!Exists
  <2> QED BY <1>1, <1>7, <2>2 DEF G!Count
<1>8. ASSUME NEW r \in TagRequests,
             \/ G!Start(r) \/ G!FindName(r) \/ G!FindTag(r) \/ G!FindEntity(r)
             \/ G!FindTagging(r) \/ G!DropEntity(r) \/ G!Abort(r)
      PROVE  UNCHANGED <<tags, taggings>>
  BY <1>8 DEF G!Start, G!FindName, G!FindTag, G!FindEntity, G!FindTagging, G!DropEntity, G!Abort,
     G!tables
<1>9. ASSUME NEW r \in TagRequests, G!Increment(r) \/ G!Decrement(r) PROVE G!NamesAndTaggingsHold'
  BY <1>7, <1>9 DEF G!Increment, G!Decrement, Settling
<1>10. CASE UNCHANGED G!vars
  BY <1>1, <1>10 DEF G!vars
<1> QED BY <1>1, <1>3, <1>4, <1>5, <1>6, <1>8, <1>9, <1>10 DEF G!Next, TagRequests


\* A removal that has read the count looked at the taggings with it, unless an
\* addition was between its two statements, or comes after it.
LEMMA UnshakenStep == TagInv /\ [G!Next]_(G!vars) => UnshakenAreRight'
<1> SUFFICES ASSUME TagInv, [G!Next]_(G!vars), NEW q \in TagRequests, NEW s, s = gCall'[q].tag,
                    gPc'[q] = "deleteTag", q \notin shaken', G!Exists(s)'
             PROVE  G!TaggingsOf(s)' = {}
  BY DEF UnshakenAreRight, G!Exists, G!TaggingsOf
<1>t. TagTyped /\ UnshakenAreRight
  BY DEF TagInv
<1> USE DEF G!Goto, G!Reply, G!history, G!tables
<1>1. ASSUME gPc[q] = "deleteTag", gCall'[q] = gCall[q], shaken \subseteq shaken',
             taggings' \subseteq taggings, G!Exists(s)' => G!Exists(s)
      PROVE  G!TaggingsOf(s)' = {}
  <2>1. G!TaggingsOf(s) = {}
    BY <1>1, <1>t DEF UnshakenAreRight, G!Exists
  <2> QED BY <1>1, <2>1 DEF G!TaggingsOf
<1>2. ASSUME NEW r \in TagRequests, NEW l, gPc' = [gPc EXCEPT ![r] = l], l # "deleteTag"
      PROVE  gPc[q] = "deleteTag" /\ q # r
  BY <1>2, <1>t DEF TagTyped, G!TypeOK, TagRequests
<1>3. ASSUME NEW r \in TagRequests, G!Start(r) PROVE G!TaggingsOf(s)' = {}
  <2>1. PICK c \in TagCalls :
          gCall' = [gCall EXCEPT ![r] = c] /\ gPc' = [gPc EXCEPT ![r] = G!FirstStep[c.kind]]
    BY <1>3 DEF G!Start
  <2>2. G!FirstStep[c.kind] # "deleteTag"
    BY TagCallFields DEF TagKinds, G!FirstStep
  <2>3. gPc[q] = "deleteTag" /\ gCall'[q] = gCall[q] /\ UNCHANGED <<tags, taggings, shaken>>
    BY <1>2, <1>3, <1>t, <2>1, <2>2 DEF G!Start, TagTyped, G!TypeOK, TagRequests
  <2> QED BY <1>1, <2>3 DEF G!Exists
<1>4. ASSUME NEW r \in TagRequests,
             \/ G!FindName(r) \/ G!FindEntity(r) \/ G!FindTagging(r) \/ G!DropEntity(r) \/ G!Abort(r)
      PROVE  G!TaggingsOf(s)' = {}
  <2>1. /\ UNCHANGED <<gCall, tags, taggings, shaken>>
        /\ \E l : gPc' = [gPc EXCEPT ![r] = l] /\ l # "deleteTag"
    BY <1>4 DEF G!FindName, G!FindEntity, G!FindTagging, G!DropEntity, G!Abort
  <2>2. gPc[q] = "deleteTag"
    BY <1>2, <2>1
  <2> QED BY <1>1, <2>1, <2>2 DEF G!Exists
<1>5. ASSUME NEW r \in TagRequests, G!FindTag(r) PROVE G!TaggingsOf(s)' = {}
  <2>1. UNCHANGED <<gCall, tags, taggings>> /\ shaken \subseteq shaken'
    BY <1>5 DEF G!FindTag
  <2>2. CASE q # r \/ \E l : gPc' = [gPc EXCEPT ![r] = l] /\ l # "deleteTag"
    <3>1. gPc[q] = "deleteTag"
      BY <1>2, <1>5, <1>t, <2>2 DEF G!FindTag, TagTyped, G!TypeOK, TagRequests
    <3> QED BY <1>1, <2>1, <3>1 DEF G!Exists
  <2>3. CASE q = r /\ gPc' = [gPc EXCEPT ![r] = "deleteTag"]
    <3>1. /\ gCall[r].kind = "remove" /\ G!Exists(gCall[r].tag) /\ ~ G!InUse(gCall[r].tag)
          /\ gPc[r] = "findTag"
      BY <1>5, <1>t, <2>3 DEF G!FindTag, TagTyped, G!TypeOK, TagRequests
    <3>2. s \in TagIds /\ s = gCall[r].tag
      BY <1>t, <2>1, <2>3, <3>1, TagCallFields DEF TagTyped, TagCallOK
    <3>3. /\ G!At(s, "increment") = {}
          /\ {p \in halfway : gCall[p].kind = "add" /\ gCall[p].tag = s} = {}
      <4>1. shaken' = IF G!At(s, "increment") \cup
                            {p \in halfway : gCall[p].kind = "add" /\ gCall[p].tag = s} # {}
                      THEN shaken \cup {r} ELSE shaken
        BY <1>5, <3>1, <3>2 DEF G!FindTag
      <4> QED BY <2>3, <4>1
    <3>4. Added(s) = {}
      BY <1>t, <3>3 DEF Added, G!Uncounted, G!At, TagTyped, TagCallOK, TagRequests
    <3>5. Balanced(s) /\ G!Exists(s) /\ tags[s].usage \in Int /\ ~ (tags[s].usage > 0)
      BY <1>t, <3>1, <3>2, CountsAreBalanced, CountsAreNumbers DEF TagInv, G!InUse
    <3>6. /\ IsFiniteSet(G!TaggingsOf(s)) /\ Cardinality(G!TaggingsOf(s)) \in Nat
          /\ Cardinality(Removed(s)) \in Nat
      BY <1>t, <3>2, CountsAreNumbers DEF TagInv
    <3>7. Cardinality(Added(s)) = 0
      BY <3>4, FS_EmptySet
    <3>8. Cardinality(G!TaggingsOf(s)) = 0
      BY <3>5, <3>6, <3>7 DEF Balanced
    <3>9. G!TaggingsOf(s) = {}
      BY <3>6, <3>8, FS_EmptySet
    <3> QED BY <2>1, <2>3, <3>2, <3>9 DEF G!TaggingsOf
  <2>4. gPc' = [gPc EXCEPT ![r] = "deleteTag"] \/ \E l : gPc' = [gPc EXCEPT ![r] = l] /\ l # "deleteTag"
    BY <1>5 DEF G!FindTag
  <2> QED BY <2>2, <2>3, <2>4
<1>6. ASSUME NEW r \in TagRequests, G!CreateTag(r) PROVE G!TaggingsOf(s)' = {}
  <2>1. /\ UNCHANGED <<gCall, taggings, shaken>> /\ gPc' = [gPc EXCEPT ![r] = "done"]
        /\ gPc[r] = "createTag"
    BY <1>6 DEF G!CreateTag
  <2>2. gPc[q] = "deleteTag"
    BY <1>2, <2>1
  <2>3. s \in TagIds /\ s = gCall[q].tag
    BY <1>t, <2>1, <2>2, TagCallFields DEF TagTyped, TagCallOK
  <2>4. CASE G!Exists(s)
    BY <1>1, <2>1, <2>2, <2>3, <2>4
  <2>5. CASE ~ G!Exists(s)
    BY <2>1, <2>3, <2>5 DEF TagInv, G!NamesAndTaggingsHold, G!TaggingsOf
  <2> QED BY <2>4, <2>5
<1>7. ASSUME NEW r \in TagRequests,
             G!UpdateTag(r) \/ G!DeleteTag(r) \/ G!Increment(r) \/ G!Decrement(r)
      PROVE  G!TaggingsOf(s)' = {}
  <2>1. /\ UNCHANGED <<gCall, shaken>> /\ gPc' = [gPc EXCEPT ![r] = "done"]
        /\ taggings' \subseteq taggings
    BY <1>7 DEF G!UpdateTag, G!DeleteTag, G!Increment, G!Decrement, G!Count
  <2>2. gPc[q] = "deleteTag"
    BY <1>2, <2>1
  <2>3. s \in TagIds /\ s = gCall[q].tag
    BY <1>t, <2>1, <2>2, TagCallFields DEF TagTyped, TagCallOK
  <2>4. gCall[r].tag \in TagIds
    BY <1>7, <1>t, TagCallFields DEF G!UpdateTag, G!DeleteTag, G!Increment, G!Decrement, TagTyped,
       TagCallOK
  <2>5. G!Exists(s)' => G!Exists(s)
    <3>1. CASE G!Exists(gCall[r].tag) /\ gCall[r].tag # s
      <4>1. tags'[s] = tags[s]
        BY <1>7, <1>t, <2>3, <2>4, <3>1 DEF G!UpdateTag, G!DeleteTag, G!Increment, G!Decrement, G!Count,
           TagTyped, G!TypeOK
      <4> QED BY <4>1 DEF G!Exists
    <3>2. CASE ~ G!Exists(gCall[r].tag)
      BY <1>7, <3>2 DEF G!UpdateTag, G!DeleteTag, G!Increment, G!Decrement, G!Count, G!Exists
    <3> QED BY <3>1, <3>2
  <2> QED BY <1>1, <2>1, <2>2, <2>3, <2>5
<1>8. ASSUME NEW r \in TagRequests, G!CreateTagging(r) PROVE G!TaggingsOf(s)' = {}
  <2>1. /\ UNCHANGED <<gCall, tags>> /\ shaken \subseteq shaken'
        /\ \E l : gPc' = [gPc EXCEPT ![r] = l] /\ l # "deleteTag"
        /\ \/ UNCHANGED taggings
           \/ /\ taggings' = taggings \cup {G!Pair(r)}
              /\ G!At(gCall[r].tag, "deleteTag") \subseteq shaken'
    BY <1>8 DEF G!CreateTagging
  <2>2. gPc[q] = "deleteTag"
    BY <1>2, <2>1
  <2>3. CASE UNCHANGED taggings
    BY <1>1, <2>1, <2>2, <2>3 DEF G!Exists
  <2>4. CASE /\ taggings' = taggings \cup {G!Pair(r)}
             /\ G!At(gCall[r].tag, "deleteTag") \subseteq shaken'
    <3>1. gCall[r].tag # s
      BY <2>1, <2>2, <2>4 DEF G!At, TagRequests
    <3>2. G!TaggingsOf(s) = {}
      BY <1>t, <2>1, <2>2 DEF UnshakenAreRight, G!Exists
    <3> QED BY <2>1, <2>4, <3>1, <3>2 DEF G!TaggingsOf, G!Pair
  <2> QED BY <2>1, <2>3, <2>4
<1>9. ASSUME NEW r \in TagRequests, G!DeleteTagging(r) PROVE G!TaggingsOf(s)' = {}
  <2>1. /\ UNCHANGED <<gCall, tags, shaken>> /\ taggings' \subseteq taggings
        /\ \E l : gPc' = [gPc EXCEPT ![r] = l] /\ l # "deleteTag"
    BY <1>9 DEF G!DeleteTagging
  <2>2. gPc[q] = "deleteTag"
    BY <1>2, <2>1
  <2> QED BY <1>1, <2>1, <2>2 DEF G!Exists
<1>10. CASE UNCHANGED G!vars
  BY <1>10, <1>1 DEF G!vars, G!Exists
<1> QED BY <1>3, <1>4, <1>5, <1>6, <1>7, <1>8, <1>9, <1>10 DEF G!Next, TagRequests

LEMMA TagInvStep == TagInv /\ [G!Next]_(G!vars) => TagInv'
BY TagTypedStep, CountsStep, CreatedOnceStep, UnbornStep, NamesStep, UnshakenStep DEF TagInv

\* A step of DeleteTag takes its own tag, which another removal may be after too.
LEMMA RemovesUnusedStep ==
    ASSUME TagInv, [G!Next]_(G!vars), NEW r \in TagRequests, NEW t \in TagIds,
           gPc[r] = "deleteTag", gCall[r].tag = t, G!Exists(t), tags'[t] = None
    PROVE  G!TaggingsOf(t) = {} \/ r \in shaken
BY DEF TagInv, UnshakenAreRight

-----------------------------------------------------------------------------
(***************************************************************************)
(* Tags within the composition                                             *)
(***************************************************************************)

LEMMA TagsWithin == MCSpec => G!Spec
<1>1. MCInit => G!Init
  BY DEF MCInit
<1>2. [MCNext]_<<part, handlers, wVars, gVars, dVars, kVars, cVars, lVars>> => [G!Next]_(G!vars)
  BY DEF MCNext, gVars, G!vars
<1> QED BY <1>1, <1>2, PTL DEF MCSpec, G!Spec

LEMMA TagInvHolds == MCSpec => []TagInv
BY TagsWithin, TagInvInit, TagInvStep, PTL DEF G!Spec

\* However additions, removals and aborted requests of tags.service.ts
\* interleave, the usage count of a tag is off its taggings by exactly the
\* requests between their two statements; names stay unique and taggings have
\* their tag; and remove takes a tag in use only when an addition was under way
\* while it looked, was left uncounted, or came after.
THEOREM TagsHolding == MCSpec => TagsHold
<1>1. TagInv => G!NamesAndTaggingsHold /\ G!UsageCountsTaggings
  BY DEF TagInv
<1>2. ASSUME TagInv, [G!Next]_(G!vars)
      PROVE  [\A r \in TagRequests, t \in TagIds :
                 /\ gPc[r] = "deleteTag" /\ gCall[r].tag = t
                 /\ G!Exists(t) /\ tags'[t] = None
                 => G!TaggingsOf(t) = {} \/ r \in shaken]_(G!vars)
  BY <1>2, RemovesUnusedStep
<1> QED BY <1>1, <1>2, TagsWithin, TagInvHolds, PTL
        DEF G!Spec, TagsHold, G!RemovesUnusedUnlessShaken, TagRequests

-----------------------------------------------------------------------------
(***************************************************************************)
(* What a step does to the handlers                                        *)
(***************************************************************************)

\* Each local variable is one of the requests.
Framed ==
    /\ pc = [q \in Requests |-> pc[q]] /\ call = [q \in Requests |-> call[q]]
    /\ held = [q \in Requests |-> held[q]] /\ answer = [q \in Requests |-> answer[q]]

\* One request moves on; a call is kept from the start to the end.
Moves(r) ==
    /\ Framed'
    /\ \A q \in Requests \ {r} :
          pc'[q] = pc[q] /\ call'[q] = call[q] /\ held'[q] = held[q] /\ answer'[q] = answer[q]
    /\ pc[r] # "idle" => call'[r] = call[r]
    /\ pc[r] # "done" /\ pc'[r] # "idle"

-----------------------------------------------------------------------------
(***************************************************************************)
(* Delegations: type correctness                                           *)
(***************************************************************************)

LEMMA DelegationContinues ==
    ASSUME Framed, NEW r \in Requests, pc[r] \notin {"idle", "done"},
           NEW label, label # "idle", NEW what, D!Continue(r, label, what)
    PROVE  Moves(r) /\ pc'[r] = label /\ held'[r] = what /\ answer'[r] = answer[r]
BY DEF D!Continue, Framed, Moves

LEMMA DelegationGoes ==
    ASSUME Framed, NEW r \in Requests, pc[r] \notin {"idle", "done"},
           NEW label, label # "idle", D!Goto(r, label)
    PROVE  Moves(r) /\ pc'[r] = label /\ held'[r] = held[r] /\ answer'[r] = answer[r]
BY DelegationContinues DEF D!Goto

LEMMA DelegationReplies ==
    ASSUME Framed, NEW r \in Requests, pc[r] \notin {"idle", "done"}, NEW what, D!Reply(r, what)
    PROVE  Moves(r) /\ pc'[r] = "done" /\ held'[r] = held[r] /\ answer'[r] = what
BY DEF D!Reply, Framed, Moves

LEMMA DelegationBegins ==
    ASSUME Framed, NEW r \in Requests, NEW c, NEW label, label # "idle", D!Begin(r, c, label)
    PROVE  /\ Moves(r) /\ pc[r] = "idle" /\ pc'[r] = label /\ call'[r] = c
           /\ held'[r] = held[r] /\ answer'[r] = answer[r]
BY DEF D!Begin, Framed, Moves

RowKinds == {"updateStatus", "updateAssignment", "removeAssignment"}
ShareKinds == {"updateShare", "removeShare"}
CreatingKinds == {"assign", "share"}
Recipients == (Users \cup Outsiders) \cup Teams

\* Where a request is says what it was called with and whether it has answered.
PlacedDelegation(r) ==
    /\ pc[r] = "idle" => call[r] = NoCall
    /\ pc[r] # "idle" => call[r] \in DelegationCalls
    /\ pc[r] # "done" => answer[r] = "none"
    /\ pc[r] = "done" => answer[r] # "none"
    /\ pc[r] \in {"entity", "recipient"} => call[r].kind \in CreatingKinds
    /\ pc[r] \in {"active", "insertAssignment", "tellAssignee"} => call[r].kind = "assign"
    /\ pc[r] \in {"share", "insertShare", "tellRecipients"} => call[r].kind = "share"
    /\ pc[r] \in {"row", "rowEntity"} => call[r].kind \in RowKinds
    /\ pc[r] = "writeStatus" => call[r].kind = "updateStatus" /\ call[r].status \in D!Statuses
    /\ pc[r] = "tellAssigner" => call[r].kind = "updateStatus"
    /\ pc[r] = "writeAssignment" => call[r].kind = "updateAssignment"
    /\ pc[r] = "deleteAssignment" => call[r].kind = "removeAssignment"
    /\ pc[r] \in {"shareRow", "member", "writeShare", "deleteShare"} => call[r].kind \in ShareKinds
    /\ pc[r] = "removeEntity" => call[r].kind = "removeEntity"

DelegationTyped == D!TypeOK /\ Framed /\ \A r \in Requests : PlacedDelegation(r)

DelegationStep(r) ==
    \/ D!Start(r) \/ D!FindEntity(r) \/ D!FindRecipient(r)
    \/ D!FindActive(r) \/ D!CreateAssignment(r) \/ D!FindShare(r) \/ D!CreateShare(r) \/ D!Announce(r)
    \/ D!FindAssignment(r) \/ D!VerifyRowEntity(r) \/ D!WriteStatus(r) \/ D!TellAssigner(r)
    \/ D!WriteAssignment(r) \/ D!DeleteAssignment(r)
    \/ D!FindShareRow(r) \/ D!FindMember(r) \/ D!WriteShare(r) \/ D!DeleteShare(r) \/ D!RemoveEntity(r)

LEMMA DelegationCallFields ==
    ASSUME NEW c \in DelegationCalls
    PROVE  /\ c.kind \in CreatingKinds \cup RowKinds \cup ShareKinds \cup {"removeEntity"}
           /\ c.kind # "removeEntity" => c.row \in Rows /\ c.by \in Users \cup Outsiders
           /\ c.kind \in CreatingKinds \cup {"removeEntity"} => c.entity \in Entities
           /\ c.kind = "assign" => c.assignee \in Users \cup Outsiders
           /\ c.kind = "share" => c.with \in Recipients
BY PartsAssumption
   DEF D!DelegationsAssumption, D!AssignCall, D!StatusCall, D!AssignmentCall, D!ShareCall,
       D!ShareRowCall, D!RemoveEntityCall, CreatingKinds, RowKinds, ShareKinds, Recipients

LEMMA DelegationsTypedInit == D!Init => DelegationTyped
BY DEF D!Init, D!HandlersInit, DelegationTyped, D!TypeOK, D!Handling, PlacedDelegation, Framed,
       D!NoCall, NoCall

\* What the handler of a request does next.
DelegationGoesOn(r) ==
    \/ /\ pc[r] = "idle" /\ call'[r] \in DelegationCalls /\ D!FreshId(call'[r])
       /\ answer'[r] = answer[r]
       /\ \/ pc'[r] = "entity" /\ call'[r].kind \in CreatingKinds
          \/ pc'[r] = "row" /\ call'[r].kind \in RowKinds
          \/ pc'[r] = "shareRow" /\ call'[r].kind \in ShareKinds
          \/ pc'[r] = "removeEntity" /\ call'[r].kind = "removeEntity"
    \/ /\ pc[r] \notin {"idle", "done"} /\ answer'[r] \in {"notFound", "forbidden", "refused"} /\ pc'[r] = "done"
       /\ pc[r] \notin {"insertAssignment", "insertShare", "tellAssignee", "tellRecipients"}
    \/ pc[r] \notin {"idle", "done"} /\ answer'[r] \in {"ok", "error"} /\ pc'[r] = "done"
    \/ /\ pc[r] \notin {"idle", "done"} /\ answer'[r] = answer[r]
       /\ \/ pc[r] = "entity" /\ pc'[r] = "recipient"
          \/ pc[r] = "recipient" /\ pc'[r] = "active" /\ call[r].kind = "assign"
          \/ pc[r] = "recipient" /\ pc'[r] = "share" /\ call[r].kind = "share"
          \/ /\ pc[r] = "active" /\ pc'[r] = "insertAssignment"
             /\ \A a \in Rows : ~(D!IsActive(a) /\ D!Same(a, call[r]))
          \/ pc[r] = "insertAssignment" /\ pc'[r] = "tellAssignee"
          \/ /\ pc[r] = "share" /\ pc'[r] = "insertShare"
             /\ \A s \in Rows : ~(shares[s] # None /\ D!SameShare(s, call[r]))
          \/ pc[r] = "insertShare" /\ pc'[r] = "tellRecipients"
          \/ pc[r] = "row" /\ pc'[r] = "rowEntity"
          \/ pc[r] = "row" /\ pc'[r] = "writeStatus" /\ call[r].kind = "updateStatus" /\ call[r].status \in D!Statuses
          \/ pc[r] = "row" /\ pc'[r] = "writeAssignment" /\ call[r].kind = "updateAssignment"
          \/ pc[r] = "row" /\ pc'[r] = "deleteAssignment" /\ call[r].kind = "removeAssignment"
          \/ pc[r] = "writeStatus" /\ pc'[r] = "tellAssigner"
          \/ pc[r] = "shareRow" /\ pc'[r] \in {"member", "writeShare", "deleteShare"}

LEMMA DelegationMoves ==
    ASSUME DelegationTyped, NEW r \in Requests, DelegationStep(r)
    PROVE  Moves(r) /\ DelegationGoesOn(r)
<1>0. Framed /\ PlacedDelegation(r)
  BY DEF DelegationTyped
<1> USE <1>0, DelegationContinues, DelegationGoes, DelegationReplies DEF D!Fails
<1>1. CASE D!Start(r)
  <2>1. PICK kinds, label : /\ D!StartWith(r, kinds, label)
                            /\ \/ kinds = CreatingKinds /\ label = "entity"
                               \/ kinds = RowKinds /\ label = "row"
                               \/ kinds = ShareKinds /\ label = "shareRow"
                               \/ kinds = {"removeEntity"} /\ label = "removeEntity"
    BY <1>1 DEF D!Start, CreatingKinds, RowKinds, ShareKinds
  <2>2. PICK c \in DelegationCalls : c.kind \in kinds /\ D!FreshId(c) /\ D!Begin(r, c, label)
    BY <2>1 DEF D!StartWith
  <2>3. /\ Moves(r) /\ pc[r] = "idle" /\ pc'[r] = label /\ call'[r] = c /\ answer'[r] = answer[r]
    BY <2>1, <2>2, DelegationBegins
  <2> QED BY <2>1, <2>2, <2>3 DEF DelegationGoesOn
<1>2. CASE D!FindEntity(r)
  BY <1>2 DEF D!FindEntity, D!VerifyAccess, DelegationGoesOn
<1>3. CASE D!FindRecipient(r)
  <2>1. call[r].kind \in CreatingKinds
    BY <1>3 DEF D!FindRecipient, PlacedDelegation
  <2> QED BY <1>3, <2>1 DEF D!FindRecipient, D!Kind, DelegationGoesOn, CreatingKinds
<1>4. CASE D!FindActive(r)
  BY <1>4 DEF D!FindActive, DelegationGoesOn
<1>5. CASE D!CreateAssignment(r)
  BY <1>5 DEF D!CreateAssignment, DelegationGoesOn
<1>6. CASE D!FindShare(r)
  BY <1>6 DEF D!FindShare, DelegationGoesOn
<1>7. CASE D!CreateShare(r)
  BY <1>7 DEF D!CreateShare, DelegationGoesOn
<1>8. CASE D!Announce(r) \/ D!TellAssigner(r)
  BY <1>8 DEF D!Announce, D!TellAssigner, DelegationGoesOn
<1>9. CASE D!FindAssignment(r)
  <2>1. call[r].kind \in RowKinds
    BY <1>9 DEF D!FindAssignment, PlacedDelegation
  <2>2. PICK a : \/ \E what \in {"notFound", "forbidden", "refused"} : D!Reply(r, what)
                 \/ D!Continue(r, "rowEntity", a)
                 \/ /\ D!Continue(r, D!WriteLabel(r), a)
                    /\ call[r].kind = "updateStatus" => call[r].status \in D!Statuses
    BY <1>9 DEF D!FindAssignment, D!Kind
  <2> QED BY <1>9, <2>1, <2>2 DEF D!FindAssignment, D!WriteLabel, D!Kind, DelegationGoesOn, RowKinds
<1>10. CASE D!VerifyRowEntity(r) \/ D!FindMember(r)
  BY <1>10 DEF D!VerifyRowEntity, D!FindMember, DelegationGoesOn
<1>11. CASE D!WriteStatus(r)
  BY <1>11 DEF D!WriteStatus, DelegationGoesOn
<1>12. CASE D!WriteAssignment(r) \/ D!DeleteAssignment(r) \/ D!WriteShare(r) \/ D!DeleteShare(r)
  BY <1>12 DEF D!WriteAssignment, D!DeleteAssignment, D!WriteShare, D!DeleteShare, DelegationGoesOn
<1>13. CASE D!FindShareRow(r)
  BY <1>13 DEF D!FindShareRow, DelegationGoesOn
<1>14. CASE D!RemoveEntity(r)
  BY <1>14 DEF D!RemoveEntity, DelegationGoesOn
<1> QED BY <1>1, <1>2, <1>3, <1>4, <1>5, <1>6, <1>7, <1>8, <1>9, <1>10, <1>11, <1>12, <1>13, <1>14
        DEF DelegationStep

LEMMA DelegationPlaced ==
    ASSUME DelegationTyped, NEW r \in Requests, DelegationStep(r)
    PROVE  Framed' /\ \A q \in Requests : PlacedDelegation(q)'
<1>1. Moves(r) /\ DelegationGoesOn(r) /\ PlacedDelegation(r)
  BY DelegationMoves DEF DelegationTyped
<1>2. PlacedDelegation(r)'
  BY <1>1 DEF Moves, DelegationGoesOn, PlacedDelegation, CreatingKinds, RowKinds, ShareKinds
<1>3. ASSUME NEW q \in Requests \ {r} PROVE PlacedDelegation(q)'
  BY <1>1 DEF Moves, DelegationTyped, PlacedDelegation
<1> QED BY <1>1, <1>2, <1>3 DEF Moves

DelegationRead(r) ==
    \/ D!Start(r) \/ D!FindEntity(r) \/ D!FindRecipient(r) \/ D!FindActive(r) \/ D!FindShare(r)
    \/ D!Announce(r) \/ D!FindAssignment(r) \/ D!VerifyRowEntity(r) \/ D!TellAssigner(r)
    \/ D!WriteAssignment(r) \/ D!FindShareRow(r) \/ D!FindMember(r) \/ D!WriteShare(r)

LEMMA DelegationReads ==
    ASSUME NEW r \in Requests, DelegationRead(r)
    PROVE  UNCHANGED <<dEntities, assignments, shares, dCrossed, revived>>
<1>1. UNCHANGED <<D!tables, D!history>>
  BY Zenon DEF DelegationRead, D!Start, D!StartWith, D!FindEntity, D!FindRecipient, D!FindActive,
     D!FindShare, D!Announce, D!FindAssignment, D!VerifyRowEntity, D!TellAssigner,
     D!WriteAssignment, D!FindShareRow, D!FindMember, D!WriteShare
<1> QED BY <1>1 DEF D!tables, D!history

AssignmentTable == [Rows -> D!Assignment \cup {None}]
ShareTable == [Rows -> D!Share \cup {None}]

\* No row is None.
LEMMA NoneNoDelegation == None \notin D!Assignment /\ None \notin D!Share
BY PartsAssumption DEF D!DelegationsAssumption

LEMMA AssignmentStored ==
    ASSUME DelegationTyped, NEW r \in Requests, D!CreateAssignment(r)
    PROVE  LET x == call[r].row
           IN  /\ pc[r] = "insertAssignment" /\ pc'[r] = "tellAssignee" /\ x \in Rows
               /\ assignments' \in AssignmentTable
               /\ assignments'[x].entity = call[r].entity /\ assignments'[x].assignee = call[r].assignee
               /\ assignments'[x].status = "pending" /\ assignments'[x].completed = FALSE
               /\ \A a \in Rows \ {x} : assignments'[a] = assignments[a]
               /\ dCrossed' = dCrossed \cup (D!Inserting(call[r]) \ {x})
               /\ UNCHANGED <<dEntities, shares, revived>>
<1> DEFINE c == call[r]
           row == [entity |-> c.entity, assignee |-> c.assignee, assigner |-> c.by,
                   status |-> "pending", completed |-> FALSE]
<1>1. pc[r] = "insertAssignment" /\ c \in DelegationCalls /\ c.kind = "assign"
  BY DEF D!CreateAssignment, DelegationTyped, PlacedDelegation
<1>2. row \in D!Assignment /\ c.row \in Rows
  BY <1>1, DelegationCallFields DEF D!Assignment, D!Statuses, CreatingKinds
<1>3. /\ assignments' = [assignments EXCEPT ![c.row] = row]
      /\ dCrossed' = dCrossed \cup (D!Inserting(row) \ {c.row})
      /\ UNCHANGED <<dEntities, shares, revived>>
  BY DEF D!CreateAssignment
<1>4. D!Inserting(row) = D!Inserting(c)
  BY DEF D!Inserting
<1>5. row.entity = c.entity /\ row.assignee = c.assignee /\ row.status = "pending" /\ row.completed = FALSE
  OBVIOUS
<1> HIDE DEF row
<1>6. assignments' \in AssignmentTable /\ assignments'[c.row] = row /\ row # None
      /\ \A a \in Rows \ {c.row} : assignments'[a] = assignments[a]
  BY <1>2, <1>3, NoneNoDelegation DEF DelegationTyped, D!TypeOK, AssignmentTable
<1>7. pc'[r] = "tellAssignee"
  BY <1>1, DelegationGoes DEF D!CreateAssignment, DelegationTyped
<1> QED BY <1>1, <1>2, <1>3, <1>4, <1>5, <1>6, <1>7

LEMMA ShareStored ==
    ASSUME DelegationTyped, NEW r \in Requests, D!CreateShare(r)
    PROVE  LET x == call[r].row
           IN  /\ pc[r] = "insertShare" /\ pc'[r] = "tellRecipients" /\ x \in Rows
               /\ shares' \in ShareTable /\ shares'[x] # None
               /\ shares'[x].entity = call[r].entity /\ shares'[x].with = call[r].with
               /\ \A s \in Rows \ {x} : shares'[s] = shares[s]
               /\ dCrossed' = dCrossed \cup {call[q].row : q \in {q \in D!At("insertShare") \ {r} :
                                  call[q].entity = call[r].entity /\ call[q].with = call[r].with}}
               /\ UNCHANGED <<dEntities, assignments, revived>>
<1> DEFINE c == call[r]
           row == [entity |-> c.entity, with |-> c.with, by |-> c.by]
<1>1. pc[r] = "insertShare" /\ c \in DelegationCalls /\ c.kind = "share"
  BY DEF D!CreateShare, DelegationTyped, PlacedDelegation
<1>2. row \in D!Share /\ c.row \in Rows
  BY <1>1, DelegationCallFields DEF D!Share, Recipients, CreatingKinds
<1>3. /\ shares' = [shares EXCEPT ![c.row] = row]
      /\ dCrossed' = dCrossed \cup {call[q].row : q \in {q \in D!At("insertShare") \ {r} :
                                  call[q].entity = c.entity /\ call[q].with = c.with}}
      /\ UNCHANGED <<dEntities, assignments, revived>>
  BY DEF D!CreateShare
<1>4. row.entity = c.entity /\ row.with = c.with
  OBVIOUS
<1> HIDE DEF row
<1>5. shares' \in ShareTable /\ shares'[c.row] = row /\ row # None
      /\ \A s \in Rows \ {c.row} : shares'[s] = shares[s]
  BY <1>2, <1>3, NoneNoDelegation DEF DelegationTyped, D!TypeOK, ShareTable
<1>6. pc'[r] = "tellRecipients"
  BY <1>1, DelegationGoes DEF D!CreateShare, DelegationTyped
<1> QED BY <1>1, <1>2, <1>3, <1>4, <1>5, <1>6

LEMMA StatusWritten ==
    ASSUME DelegationTyped, NEW r \in Requests, D!WriteStatus(r)
    PROVE  LET x == call[r].row
               status == call[r].status
               back == assignments[x].status \in D!Settled /\ status \notin D!Settled
           IN  /\ pc[r] = "writeStatus" /\ x \in Rows /\ UNCHANGED <<dEntities, shares>>
               /\ \/ assignments[x] = None /\ UNCHANGED <<assignments, dCrossed, revived>>
                  \/ /\ assignments[x] # None /\ assignments' \in AssignmentTable
                     /\ assignments'[x] # None /\ assignments'[x].status = status
                     /\ assignments'[x].entity = assignments[x].entity
                     /\ assignments'[x].assignee = assignments[x].assignee
                     /\ assignments'[x].completed = D!Completed(assignments[x], status)
                     /\ \A a \in Rows \ {x} : assignments'[a] = assignments[a]
                     /\ revived' = IF back THEN revived \cup {x} ELSE revived
                     /\ dCrossed' = IF back THEN dCrossed \cup D!Inserting(assignments[x]) ELSE dCrossed
<1> DEFINE x == call[r].row
           status == call[r].status
           a == assignments[x]
<1>1. /\ pc[r] = "writeStatus" /\ call[r] \in DelegationCalls /\ call[r].kind = "updateStatus"
      /\ status \in D!Statuses
  BY DEF D!WriteStatus, DelegationTyped, PlacedDelegation
<1>2. x \in Rows /\ UNCHANGED <<dEntities, shares>>
  BY <1>1, DelegationCallFields DEF D!WriteStatus
<1>3. CASE a = None
  BY <1>1, <1>2, <1>3 DEF D!WriteStatus
<1>4. CASE a # None
  <2>1. a \in D!Assignment /\ assignments \in AssignmentTable
    BY <1>2, <1>4 DEF DelegationTyped, D!TypeOK, AssignmentTable
  <2>2. D!Completed(a, status) \in BOOLEAN
    BY <2>1 DEF D!Completed, D!Assignment
  <2> DEFINE row == [a EXCEPT !.status = status, !.completed = D!Completed(a, status)]
  <2>3. assignments' = [assignments EXCEPT ![x] = row]
    BY <1>2, <1>4, <2>1 DEF D!WriteStatus, AssignmentTable
  <2>4. /\ row \in D!Assignment /\ row.status = status /\ row.completed = D!Completed(a, status)
        /\ row.entity = a.entity /\ row.assignee = a.assignee
    BY <1>1, <2>1, <2>2 DEF D!Assignment
  <2>5. /\ revived' = IF a.status \in D!Settled /\ status \notin D!Settled THEN revived \cup {x} ELSE revived
        /\ dCrossed' = IF a.status \in D!Settled /\ status \notin D!Settled
                       THEN dCrossed \cup D!Inserting(a) ELSE dCrossed
    BY <1>4 DEF D!WriteStatus
  <2> HIDE DEF row
  <2>6. assignments' \in AssignmentTable /\ assignments'[x] = row /\ row # None
        /\ \A b \in Rows \ {x} : assignments'[b] = assignments[b]
    BY <1>2, <2>1, <2>3, <2>4, NoneNoDelegation DEF AssignmentTable
  <2> QED BY <1>1, <1>2, <1>4, <2>4, <2>5, <2>6
<1> QED BY <1>3, <1>4

LEMMA DelegationDropped ==
    ASSUME DelegationTyped, NEW r \in Requests,
           D!DeleteAssignment(r) \/ D!DeleteShare(r) \/ D!RemoveEntity(r)
    PROVE  /\ dEntities' \subseteq dEntities /\ UNCHANGED <<dCrossed, revived>>
           /\ assignments' \in AssignmentTable /\ shares' \in ShareTable
           /\ \A a \in Rows : assignments'[a] \in {assignments[a], None} /\ shares'[a] \in {shares[a], None}
BY DEF D!DeleteAssignment, D!DeleteShare, D!RemoveEntity, D!history, DelegationTyped, D!TypeOK,
       AssignmentTable, ShareTable

LEMMA DelegationTypedStep ==
    ASSUME DelegationTyped, NEW r \in Requests, DelegationStep(r)
    PROVE  DelegationTyped'
<1>1. Moves(r) /\ DelegationGoesOn(r) /\ Framed' /\ \A q \in Requests : PlacedDelegation(q)'
  BY DelegationMoves, DelegationPlaced
<1>2. /\ dEntities \subseteq Entities /\ assignments \in AssignmentTable /\ shares \in ShareTable
      /\ dCrossed \subseteq Rows /\ revived \subseteq Rows
  BY DEF DelegationTyped, D!TypeOK, AssignmentTable, ShareTable
<1>3. \A q \in Requests : pc[q] = "insertAssignment" \/ pc[q] = "insertShare" => call[q].row \in Rows
  BY DelegationCallFields DEF DelegationTyped, PlacedDelegation
<1>4. /\ dEntities' \subseteq Entities /\ assignments' \in AssignmentTable /\ shares' \in ShareTable
      /\ dCrossed' \subseteq Rows /\ revived' \subseteq Rows
  <2>0. \A row : D!Inserting(row) \subseteq Rows
    BY <1>3 DEF D!Inserting, D!At
  <2>1. CASE DelegationRead(r)
    BY <1>2, <2>1, DelegationReads
  <2>2. CASE D!CreateAssignment(r)
    BY <1>2, <2>0, <2>2, AssignmentStored
  <2>3. CASE D!CreateShare(r)
    <3>1. {call[q].row : q \in {q \in D!At("insertShare") \ {r} :
              call[q].entity = call[r].entity /\ call[q].with = call[r].with}} \subseteq Rows
      BY <1>3 DEF D!At
    <3> QED BY <1>2, <2>3, <3>1, ShareStored
  <2>4. CASE D!WriteStatus(r)
    BY <1>2, <2>0, <2>4, StatusWritten
  <2>5. CASE D!DeleteAssignment(r) \/ D!DeleteShare(r) \/ D!RemoveEntity(r)
    BY <1>2, <2>5, DelegationDropped
  <2> QED BY <2>1, <2>2, <2>3, <2>4, <2>5 DEF DelegationStep, DelegationRead
<1>5. D!Handling({"entity", "recipient", "active", "insertAssignment", "tellAssignee", "row", "rowEntity",
                 "writeStatus", "tellAssigner", "writeAssignment", "deleteAssignment", "share", "insertShare",
                 "tellRecipients", "shareRow", "member", "writeShare", "deleteShare", "removeEntity"},
                 DelegationCalls, {"refused"})'
  <2>1. /\ pc'[r] \in {"done"} \cup
             {"entity", "recipient", "active", "insertAssignment", "tellAssignee", "row", "rowEntity",
              "writeStatus", "tellAssigner", "writeAssignment", "deleteAssignment", "share", "insertShare",
              "tellRecipients", "shareRow", "member", "writeShare", "deleteShare", "removeEntity"}
        /\ call'[r] \in DelegationCalls
    BY <1>1 DEF DelegationGoesOn, PlacedDelegation
  <2>2. answer'[r] \in {"none", "ok", "notFound", "forbidden", "error", "refused"}
    BY <1>1 DEF DelegationGoesOn, DelegationTyped, D!TypeOK, D!Handling
  <2>3. \A q \in Requests \ {r} : pc'[q] = pc[q] /\ call'[q] = call[q] /\ answer'[q] = answer[q]
    BY <1>1 DEF Moves
  <2> QED BY <1>1, <2>1, <2>2, <2>3 DEF DelegationTyped, D!TypeOK, D!Handling, D!NoCall, Framed
<1> QED BY <1>1, <1>4, <1>5 DEF DelegationTyped, D!TypeOK, AssignmentTable, ShareTable

-----------------------------------------------------------------------------
(***************************************************************************)
(* Delegations: rows like each other                                       *)
(***************************************************************************)

Creates(q) == call[q].kind \in CreatingKinds

\* A creation has its id for itself; what it is answered says whether it stored.
RowsOfCreations ==
    /\ \A p, q \in Requests : Creates(p) /\ Creates(q) /\ call[p].row = call[q].row => p = q
    /\ \A a \in Rows : assignments[a] # None =>
          \E q \in Requests : /\ call[q].kind = "assign" /\ call[q].row = a
                              /\ pc[q] \in {"tellAssignee", "done"}
                              /\ answer[q] \in {"none", "ok", "error"}
    /\ \A s \in Rows : shares[s] # None =>
          \E q \in Requests : /\ call[q].kind = "share" /\ call[q].row = s
                              /\ pc[q] \in {"tellRecipients", "done"}
                              /\ answer[q] \in {"none", "ok", "error"}

\* Who is about to insert has seen every row like his, or was crossed by it.
LikeOnesSeen ==
    /\ \A q \in Requests, a \in Rows :
          pc[q] = "insertAssignment" /\ D!IsActive(a) /\ D!Same(a, call[q]) =>
              call[q].row \in dCrossed \/ a \in revived
    /\ \A q \in Requests, s \in Rows :
          pc[q] = "insertShare" /\ shares[s] # None /\ D!SameShare(s, call[q]) =>
              call[q].row \in dCrossed

DelegationInv ==
    /\ DelegationTyped /\ RowsOfCreations /\ LikeOnesSeen
    /\ D!OneActiveUnlessCrossedOrRevived /\ D!OneShareUnlessCrossed /\ D!CompletionTimesHold

LEMMA DelegationInit == D!Init => DelegationInv
<1> SUFFICES ASSUME D!Init PROVE DelegationInv
  OBVIOUS
<1>1. DelegationTyped
  BY DelegationsTypedInit
<1>2. RowsOfCreations /\ LikeOnesSeen
  BY DEF D!Init, D!HandlersInit, RowsOfCreations, LikeOnesSeen, Creates, D!NoCall, CreatingKinds
<1>3. /\ D!OneActiveUnlessCrossedOrRevived /\ D!OneShareUnlessCrossed /\ D!CompletionTimesHold
  BY DEF D!Init, D!OneActiveUnlessCrossedOrRevived, D!OneShareUnlessCrossed, D!CompletionTimesHold, D!IsActive
<1> QED BY <1>1, <1>2, <1>3 DEF DelegationInv

\* The step of another request, and of one that creates nothing, leaves creations alone.
LEMMA CreationsStep ==
    ASSUME DelegationInv, NEW r \in Requests, DelegationStep(r)
    PROVE  RowsOfCreations'
<1>1. Moves(r) /\ DelegationGoesOn(r) /\ \A q \in Requests : PlacedDelegation(q)
  BY DelegationMoves DEF DelegationInv, DelegationTyped
<1>2. ASSUME NEW p \in Requests, NEW q \in Requests, Creates(p)', Creates(q)', call'[p].row = call'[q].row
      PROVE  p = q
  <2>1. CASE pc[r] # "idle"
    BY <1>1, <1>2, <2>1 DEF Moves, Creates, DelegationInv, RowsOfCreations
  <2>2. CASE pc[r] = "idle"
    <3>1. D!FreshId(call'[r]) /\ \A s \in Requests \ {r} : call'[s] = call[s]
      BY <1>1, <2>2 DEF Moves, DelegationGoesOn
    <3> QED BY <1>2, <3>1 DEF D!FreshId, D!Kind, Creates, CreatingKinds, DelegationInv, RowsOfCreations
  <2> QED BY <2>1, <2>2
<1>3. ASSUME NEW q \in Requests, pc[q] \in {"tellAssignee", "tellRecipients", "done"},
             answer[q] \in {"none", "ok", "error"}
      PROVE  /\ call'[q] = call[q] /\ answer'[q] \in {"none", "ok", "error"}
             /\ pc'[q] = pc[q] \/ pc'[q] = "done"
  BY <1>1, <1>3 DEF Moves, DelegationGoesOn
<1>4. ASSUME NEW a \in Rows, assignments'[a] # None
      PROVE  \E q \in Requests : /\ call'[q].kind = "assign" /\ call'[q].row = a
                                /\ pc'[q] \in {"tellAssignee", "done"}
                                /\ answer'[q] \in {"none", "ok", "error"}
  <2>1. CASE assignments[a] # None
    <3>1. PICK q \in Requests : /\ call[q].kind = "assign" /\ call[q].row = a
                                /\ pc[q] \in {"tellAssignee", "done"}
                                /\ answer[q] \in {"none", "ok", "error"}
      BY <2>1 DEF DelegationInv, RowsOfCreations
    <3> QED BY <1>3, <3>1
  <2>2. CASE assignments[a] = None
    <3>1. D!CreateAssignment(r) /\ a = call[r].row
      <4> USE DEF DelegationInv
      <4>1. CASE DelegationRead(r)
        BY <1>4, <2>2, <4>1, DelegationReads
      <4>2. CASE D!CreateAssignment(r)
        BY <1>4, <2>2, <4>2, AssignmentStored
      <4>3. CASE D!CreateShare(r)
        BY <1>4, <2>2, <4>3, ShareStored
      <4>4. CASE D!WriteStatus(r)
        BY <1>4, <2>2, <4>4, StatusWritten
      <4>5. CASE D!DeleteAssignment(r) \/ D!DeleteShare(r) \/ D!RemoveEntity(r)
        BY <1>4, <2>2, <4>5, DelegationDropped
      <4> QED BY <4>1, <4>2, <4>3, <4>4, <4>5 DEF DelegationStep, DelegationRead
    <3>2. pc[r] = "insertAssignment" /\ pc'[r] = "tellAssignee"
      BY <3>1, AssignmentStored DEF DelegationInv
    <3>3. call'[r] = call[r] /\ call[r].kind = "assign" /\ answer'[r] = "none"
      BY <1>1, <3>2 DEF Moves, PlacedDelegation, DelegationGoesOn
    <3> QED BY <3>1, <3>2, <3>3
  <2> QED BY <2>1, <2>2
<1>5. ASSUME NEW s \in Rows, shares'[s] # None
      PROVE  \E q \in Requests : /\ call'[q].kind = "share" /\ call'[q].row = s
                                /\ pc'[q] \in {"tellRecipients", "done"}
                                /\ answer'[q] \in {"none", "ok", "error"}
  <2>1. CASE shares[s] # None
    <3>1. PICK q \in Requests : /\ call[q].kind = "share" /\ call[q].row = s
                                /\ pc[q] \in {"tellRecipients", "done"}
                                /\ answer[q] \in {"none", "ok", "error"}
      BY <2>1 DEF DelegationInv, RowsOfCreations
    <3> QED BY <1>3, <3>1
  <2>2. CASE shares[s] = None
    <3>1. D!CreateShare(r) /\ s = call[r].row
      <4> USE DEF DelegationInv
      <4>1. CASE DelegationRead(r)
        BY <1>5, <2>2, <4>1, DelegationReads
      <4>2. CASE D!CreateAssignment(r)
        BY <1>5, <2>2, <4>2, AssignmentStored
      <4>3. CASE D!CreateShare(r)
        BY <1>5, <2>2, <4>3, ShareStored
      <4>4. CASE D!WriteStatus(r)
        BY <1>5, <2>2, <4>4, StatusWritten
      <4>5. CASE D!DeleteAssignment(r) \/ D!DeleteShare(r) \/ D!RemoveEntity(r)
        BY <1>5, <2>2, <4>5, DelegationDropped
      <4> QED BY <4>1, <4>2, <4>3, <4>4, <4>5 DEF DelegationStep, DelegationRead
    <3>2. pc[r] = "insertShare" /\ pc'[r] = "tellRecipients"
      BY <3>1, ShareStored DEF DelegationInv
    <3>3. call'[r] = call[r] /\ call[r].kind = "share" /\ answer'[r] = "none"
      BY <1>1, <3>2 DEF Moves, PlacedDelegation, DelegationGoesOn
    <3> QED BY <3>1, <3>2, <3>3
  <2> QED BY <2>1, <2>2
<1> QED BY <1>2, <1>4, <1>5 DEF RowsOfCreations

\* What a step does to an assignment that is active afterwards.
LEMMA ActiveBefore ==
    ASSUME DelegationInv, NEW r \in Requests, DelegationStep(r), NEW a \in Rows, D!IsActive(a)'
    PROVE  /\ dCrossed \subseteq dCrossed' /\ revived \subseteq revived'
           /\ \/ D!CreateAssignment(r) /\ a = call[r].row
              \/ a \in revived'
              \/ /\ D!IsActive(a) /\ assignments'[a].entity = assignments[a].entity
                 /\ assignments'[a].assignee = assignments[a].assignee
<1> USE DEF DelegationInv
<1>1. CASE DelegationRead(r)
  BY <1>1, DelegationReads DEF D!IsActive
<1>2. CASE D!CreateAssignment(r)
  BY <1>2, AssignmentStored DEF D!IsActive
<1>3. CASE D!CreateShare(r)
  BY <1>3, ShareStored DEF D!IsActive
<1>4. CASE D!WriteStatus(r)
  BY <1>4, StatusWritten DEF D!IsActive
<1>5. CASE D!DeleteAssignment(r) \/ D!DeleteShare(r) \/ D!RemoveEntity(r)
  BY <1>5, DelegationDropped DEF D!IsActive
<1> QED BY <1>1, <1>2, <1>3, <1>4, <1>5 DEF DelegationStep, DelegationRead

LEMMA SharedBefore ==
    ASSUME DelegationInv, NEW r \in Requests, DelegationStep(r), NEW s \in Rows, shares'[s] # None
    PROVE  \/ D!CreateShare(r) /\ s = call[r].row
           \/ shares[s] # None /\ shares'[s] = shares[s]
<1> USE DEF DelegationInv
<1>1. CASE DelegationRead(r)
  BY <1>1, DelegationReads
<1>2. CASE D!CreateAssignment(r)
  BY <1>2, AssignmentStored
<1>3. CASE D!CreateShare(r)
  BY <1>3, ShareStored
<1>4. CASE D!WriteStatus(r)
  BY <1>4, StatusWritten
<1>5. CASE D!DeleteAssignment(r) \/ D!DeleteShare(r) \/ D!RemoveEntity(r)
  BY <1>5, DelegationDropped
<1> QED BY <1>1, <1>2, <1>3, <1>4, <1>5 DEF DelegationStep, DelegationRead

LEMMA CrossedGrows ==
    ASSUME DelegationInv, NEW r \in Requests, DelegationStep(r)
    PROVE  dCrossed \subseteq dCrossed' /\ revived \subseteq revived'
<1> USE DEF DelegationInv
<1>1. CASE DelegationRead(r)
  BY <1>1, DelegationReads
<1>2. CASE D!CreateAssignment(r)
  BY <1>2, AssignmentStored
<1>3. CASE D!CreateShare(r)
  BY <1>3, ShareStored
<1>4. CASE D!WriteStatus(r)
  BY <1>4, StatusWritten
<1>5. CASE D!DeleteAssignment(r) \/ D!DeleteShare(r) \/ D!RemoveEntity(r)
  BY <1>5, DelegationDropped
<1> QED BY <1>1, <1>2, <1>3, <1>4, <1>5 DEF DelegationStep, DelegationRead

LEMMA LikeOnesStep ==
    ASSUME DelegationInv, NEW r \in Requests, DelegationStep(r)
    PROVE  LikeOnesSeen'
<1>1. /\ Moves(r) /\ DelegationGoesOn(r) /\ \A q \in Requests : PlacedDelegation(q)
      /\ dCrossed \subseteq dCrossed' /\ revived \subseteq revived'
  BY DelegationMoves, CrossedGrows DEF DelegationInv, DelegationTyped
<1>2. ASSUME NEW q \in Requests, NEW a \in Rows,
             pc'[q] = "insertAssignment", D!IsActive(a)', D!Same(a, call[q])'
      PROVE  call'[q].row \in dCrossed' \/ a \in revived'
  <2>1. CASE q = r
    <3>1. pc[r] = "active" /\ call'[r] = call[r] /\ ~(D!IsActive(a) /\ D!Same(a, call[r]))
      BY <1>1, <1>2, <2>1 DEF DelegationGoesOn, Moves
    <3>2. ~D!CreateAssignment(r)
      BY <3>1 DEF D!CreateAssignment
    <3> QED BY <1>2, <2>1, <3>1, <3>2, ActiveBefore DEF D!Same
  <2>2. CASE q # r
    <3>1. pc[q] = "insertAssignment" /\ call'[q] = call[q] /\ call[q].kind = "assign"
      BY <1>1, <1>2, <2>2 DEF Moves, PlacedDelegation
    <3>2. CASE D!CreateAssignment(r) /\ a = call[r].row
      <4>1. /\ dCrossed' = dCrossed \cup (D!Inserting(call[r]) \ {call[r].row})
            /\ pc[r] = "insertAssignment"
            /\ assignments'[a].entity = call[r].entity /\ assignments'[a].assignee = call[r].assignee
        BY <3>2, AssignmentStored DEF DelegationInv
      <4>2. call'[r] = call[r] /\ call[r].kind = "assign"
        BY <1>1, <4>1 DEF Moves, PlacedDelegation
      <4>3. call[q].row # call[r].row
        BY <2>2, <3>1, <4>2 DEF DelegationInv, RowsOfCreations, Creates, CreatingKinds
      <4>4. call[q].entity = call[r].entity /\ call[q].assignee = call[r].assignee
        BY <1>2, <3>1, <4>1, <4>2 DEF D!Same
      <4>5. call[q].row \in D!Inserting(call[r])
        BY <3>1, <4>4 DEF D!Inserting, D!At
      <4> QED BY <3>1, <4>1, <4>3, <4>5
    <3>3. CASE D!IsActive(a) /\ D!Same(a, call[q])
      BY <1>1, <3>1, <3>3 DEF DelegationInv, LikeOnesSeen
    <3> QED BY <1>2, <3>1, <3>2, <3>3, ActiveBefore DEF D!Same
  <2> QED BY <2>1, <2>2
<1>3. ASSUME NEW q \in Requests, NEW s \in Rows,
             pc'[q] = "insertShare", shares'[s] # None, D!SameShare(s, call[q])'
      PROVE  call'[q].row \in dCrossed'
  <2>1. CASE q = r
    <3>1. pc[r] = "share" /\ call'[r] = call[r] /\ ~(shares[s] # None /\ D!SameShare(s, call[r]))
      BY <1>1, <1>3, <2>1 DEF DelegationGoesOn, Moves
    <3>2. ~D!CreateShare(r)
      BY <3>1 DEF D!CreateShare
    <3> QED BY <1>3, <2>1, <3>1, <3>2, SharedBefore DEF D!SameShare
  <2>2. CASE q # r
    <3>1. pc[q] = "insertShare" /\ call'[q] = call[q]
      BY <1>1, <1>3, <2>2 DEF Moves
    <3>2. CASE D!CreateShare(r) /\ s = call[r].row
      <4>1. /\ dCrossed' = dCrossed \cup {call[p].row : p \in {p \in D!At("insertShare") \ {r} :
                                  call[p].entity = call[r].entity /\ call[p].with = call[r].with}}
            /\ pc[r] = "insertShare"
            /\ shares'[s].entity = call[r].entity /\ shares'[s].with = call[r].with
        BY <3>2, ShareStored DEF DelegationInv
      <4>2. call'[r] = call[r]
        BY <1>1, <4>1 DEF Moves
      <4>3. call[q].entity = call[r].entity /\ call[q].with = call[r].with
        BY <1>3, <3>1, <4>1, <4>2 DEF D!SameShare
      <4>4. q \in {p \in D!At("insertShare") \ {r} :
                     call[p].entity = call[r].entity /\ call[p].with = call[r].with}
        BY <2>2, <3>1, <4>3 DEF D!At
      <4> QED BY <3>1, <4>1, <4>4
    <3>3. CASE shares[s] # None /\ shares'[s] = shares[s]
      BY <1>1, <1>3, <3>1, <3>3 DEF DelegationInv, LikeOnesSeen, D!SameShare
    <3> QED BY <1>3, <3>2, <3>3, SharedBefore
  <2> QED BY <2>1, <2>2
<1> QED BY <1>2, <1>3 DEF LikeOnesSeen

LEMMA OneActiveStep ==
    ASSUME DelegationInv, NEW r \in Requests, DelegationStep(r)
    PROVE  D!OneActiveUnlessCrossedOrRevived'
<1> SUFFICES ASSUME NEW a \in Rows, NEW b \in Rows, a # b, D!IsActive(a)', D!IsActive(b)',
                    assignments'[a].entity = assignments'[b].entity,
                    assignments'[a].assignee = assignments'[b].assignee
             PROVE  {a, b} \cap (dCrossed' \cup revived') # {}
  BY DEF D!OneActiveUnlessCrossedOrRevived
<1>1. ASSUME NEW x \in Rows, NEW y \in Rows, x # y, D!IsActive(x)', D!IsActive(y)',
             D!CreateAssignment(r), x = call[r].row,
             assignments'[x].entity = assignments'[y].entity,
             assignments'[x].assignee = assignments'[y].assignee
      PROVE  {x, y} \cap (dCrossed' \cup revived') # {}
  <2>1. /\ pc[r] = "insertAssignment" /\ assignments'[y] = assignments[y]
        /\ assignments'[x].entity = call[r].entity /\ assignments'[x].assignee = call[r].assignee
    BY <1>1, AssignmentStored DEF DelegationInv
  <2>2. D!IsActive(y) /\ D!Same(y, call[r])
    BY <1>1, <2>1 DEF D!IsActive, D!Same
  <2>3. x \in dCrossed \/ y \in revived
    BY <1>1, <2>1, <2>2 DEF DelegationInv, LikeOnesSeen
  <2> QED BY <2>3, CrossedGrows
<1>2. CASE D!CreateAssignment(r) /\ a = call[r].row
  BY <1>1, <1>2
<1>3. CASE D!CreateAssignment(r) /\ b = call[r].row
  <2>1. {b, a} \cap (dCrossed' \cup revived') # {}
    BY <1>1, <1>3
  <2> QED BY <2>1
<1>4. CASE a \in revived' \/ b \in revived'
  BY <1>4
<1>5. CASE /\ D!IsActive(a) /\ assignments'[a].entity = assignments[a].entity
           /\ assignments'[a].assignee = assignments[a].assignee
           /\ D!IsActive(b) /\ assignments'[b].entity = assignments[b].entity
           /\ assignments'[b].assignee = assignments[b].assignee
  <2>1. {a, b} \cap (dCrossed \cup revived) # {}
    BY <1>5 DEF DelegationInv, D!OneActiveUnlessCrossedOrRevived
  <2> QED BY <2>1, CrossedGrows
<1> QED BY <1>2, <1>3, <1>4, <1>5, ActiveBefore

LEMMA OneShareStep ==
    ASSUME DelegationInv, NEW r \in Requests, DelegationStep(r)
    PROVE  D!OneShareUnlessCrossed'
<1> SUFFICES ASSUME NEW s \in Rows, NEW t \in Rows, s # t, shares'[s] # None, shares'[t] # None,
                    shares'[s].entity = shares'[t].entity, shares'[s].with = shares'[t].with
             PROVE  {s, t} \cap dCrossed' # {}
  BY DEF D!OneShareUnlessCrossed
<1>1. ASSUME NEW x \in Rows, NEW y \in Rows, x # y, shares'[y] # None,
             D!CreateShare(r), x = call[r].row,
             shares'[x].entity = shares'[y].entity, shares'[x].with = shares'[y].with
      PROVE  x \in dCrossed'
  <2>1. /\ pc[r] = "insertShare" /\ shares'[y] = shares[y]
        /\ shares'[x].entity = call[r].entity /\ shares'[x].with = call[r].with
    BY <1>1, ShareStored DEF DelegationInv
  <2>2. D!SameShare(y, call[r])
    BY <1>1, <2>1 DEF D!SameShare
  <2> QED BY <1>1, <2>1, <2>2, CrossedGrows DEF DelegationInv, LikeOnesSeen
<1>2. CASE D!CreateShare(r) /\ s = call[r].row
  BY <1>1, <1>2
<1>3. CASE D!CreateShare(r) /\ t = call[r].row
  <2>1. t \in dCrossed'
    BY <1>1, <1>3
  <2> QED BY <2>1
<1>4. CASE /\ shares[s] # None /\ shares'[s] = shares[s]
           /\ shares[t] # None /\ shares'[t] = shares[t]
  <2>1. {s, t} \cap dCrossed # {}
    BY <1>4 DEF DelegationInv, D!OneShareUnlessCrossed
  <2> QED BY <2>1, CrossedGrows
<1> QED BY <1>2, <1>3, <1>4, SharedBefore

LEMMA CompletionStep ==
    ASSUME DelegationInv, NEW r \in Requests, DelegationStep(r)
    PROVE  D!CompletionTimesHold'
<1> SUFFICES ASSUME NEW a \in Rows, assignments'[a] # None
             PROVE  /\ assignments'[a].status = "completed" => assignments'[a].completed
                    /\ assignments'[a].completed /\ assignments'[a].status # "completed" =>
                          a \in revived' /\ assignments'[a].status \notin {"pending", "declined"}
  BY DEF D!CompletionTimesHold
<1>1. CASE assignments'[a] = assignments[a]
  BY <1>1, CrossedGrows DEF DelegationInv, D!CompletionTimesHold
<1>2. CASE D!CreateAssignment(r)
  BY <1>1, <1>2, AssignmentStored DEF DelegationInv
<1>3. CASE D!WriteStatus(r) /\ a = call[r].row /\ assignments[a] # None
  <2> DEFINE status == call[r].status
             back == assignments[a].status \in D!Settled /\ status \notin D!Settled
  <2>1. /\ assignments'[a].status = status
        /\ assignments'[a].completed = D!Completed(assignments[a], status)
        /\ revived' = IF back THEN revived \cup {a} ELSE revived
    BY <1>3, StatusWritten DEF DelegationInv
  <2>2. assignments[a].completed =>
           assignments[a].status = "completed" \/ a \in revived
    BY <1>3 DEF DelegationInv, D!CompletionTimesHold
  <2> QED BY <2>1, <2>2 DEF D!Completed, D!Settled
<1>4. CASE D!WriteStatus(r) /\ ~(a = call[r].row /\ assignments[a] # None)
  <2>1. assignments'[a] = assignments[a]
    BY <1>4, StatusWritten DEF DelegationInv
  <2> QED BY <1>1, <2>1
<1>5. CASE DelegationRead(r)
  BY <1>1, <1>5, DelegationReads
<1>6. CASE D!CreateShare(r)
  BY <1>1, <1>6, ShareStored DEF DelegationInv
<1>7. CASE D!DeleteAssignment(r) \/ D!DeleteShare(r) \/ D!RemoveEntity(r)
  <2>1. assignments'[a] = assignments[a]
    BY <1>7, DelegationDropped DEF DelegationInv
  <2> QED BY <1>1, <2>1
<1> QED BY <1>2, <1>3, <1>4, <1>5, <1>6, <1>7 DEF DelegationStep, DelegationRead

LEMMA DelegationInvStep == DelegationInv /\ [D!Next]_(D!vars) => DelegationInv'
<1> SUFFICES ASSUME DelegationInv, [D!Next]_(D!vars) PROVE DelegationInv'
  OBVIOUS
<1>1. ASSUME NEW r \in Requests, DelegationStep(r) PROVE DelegationInv'
  <2>1. DelegationTyped'
    BY <1>1, DelegationTypedStep DEF DelegationInv
  <2> QED BY <1>1, <2>1, CreationsStep, LikeOnesStep, OneActiveStep, OneShareStep, CompletionStep
          DEF DelegationInv
<1>2. CASE UNCHANGED D!vars
  <2>1. UNCHANGED <<pc, call, held, answer, dEntities, assignments, shares, dCrossed, revived>>
    BY <1>2 DEF D!vars, D!handlers, D!tables, D!history
  <2>2. DelegationTyped'
    BY <2>1 DEF DelegationInv, DelegationTyped, D!TypeOK, D!Handling, Framed, PlacedDelegation
  <2>3. RowsOfCreations' /\ LikeOnesSeen'
    BY <2>1 DEF DelegationInv, RowsOfCreations, LikeOnesSeen, Creates, D!IsActive, D!Same, D!SameShare
  <2>4. /\ D!OneActiveUnlessCrossedOrRevived' /\ D!OneShareUnlessCrossed' /\ D!CompletionTimesHold'
    BY <2>1 DEF DelegationInv, D!OneActiveUnlessCrossedOrRevived, D!OneShareUnlessCrossed,
       D!CompletionTimesHold, D!IsActive
  <2> QED BY <2>2, <2>3, <2>4 DEF DelegationInv
<1> QED BY <1>1, <1>2 DEF D!Next, DelegationStep

LEMMA DelegationsHolds == DelegationInv => D!DelegationsHold
<1> SUFFICES ASSUME DelegationInv PROVE D!RefusedLeavesNothing
  BY DEF DelegationInv, D!DelegationsHold
<1> SUFFICES ASSUME NEW r \in Requests, pc[r] = "done", answer[r] \in {"notFound", "forbidden", "refused"}
             PROVE  /\ call[r].kind = "assign" => assignments[call[r].row] = None
                    /\ call[r].kind = "share" => shares[call[r].row] = None
  BY DEF D!RefusedLeavesNothing, D!Kind
<1>1. Creates(r) => call[r].row \in Rows
  BY DelegationCallFields DEF Creates, CreatingKinds, DelegationInv, DelegationTyped, PlacedDelegation
<1>2. ASSUME NEW q \in Requests, Creates(q), call[q].row = call[r].row, Creates(r) PROVE q = r
  BY <1>2 DEF DelegationInv, RowsOfCreations
<1> QED BY <1>1, <1>2 DEF DelegationInv, RowsOfCreations, Creates, CreatingKinds

LEMMA DelegationsBeside == MCSpec => [](part = "delegations" => DelegationInv)
<1> DEFINE Here == part = "delegations" => DelegationInv
<1>1. MCInit => Here
  BY DelegationInit DEF MCInit
<1>2. Here /\ [MCNext]_<<part, handlers, wVars, gVars, dVars, kVars, cVars, lVars>> => Here'
  <2> SUFFICES ASSUME Here, [MCNext]_<<part, handlers, wVars, gVars, dVars, kVars, cVars, lVars>>,
                      part' = "delegations"
               PROVE  DelegationInv'
    OBVIOUS
  <2>1. part = "delegations" /\ DelegationInv
    BY DEF MCNext
  <2>2. [D!Next]_(D!vars)
    BY <2>1 DEF MCNext, D!vars, D!handlers, D!tables, D!history, handlers, dVars
  <2> QED BY <2>1, <2>2, DelegationInvStep
<1>3. MCSpec => []Here
  <2> HIDE DEF Here
  <2> QED BY <1>1, <1>2, PTL DEF MCSpec
<1> QED BY <1>3

\* Of one entity to one user there are two active assignments, and two shares,
\* only when one was stored or taken up again under the creation of the other;
\* the time of a completion follows the status; and a refused creation leaves
\* no row (assignments.service.ts, shares.service.ts).
THEOREM DelegationsHolding == MCSpec => []DelegationsHold
<1>1. (part = "delegations" => DelegationInv) => DelegationsHold
  BY DelegationsHolds DEF DelegationsHold
<1> QED BY <1>1, DelegationsBeside, PTL

-----------------------------------------------------------------------------
(***************************************************************************)
(* Comments: type correctness                                              *)
(***************************************************************************)

LEMMA CommentContinues ==
    ASSUME Framed, NEW r \in Requests, pc[r] \notin {"idle", "done"},
           NEW label, label # "idle", NEW what, C!Continue(r, label, what)
    PROVE  Moves(r) /\ pc'[r] = label /\ held'[r] = what /\ answer'[r] = answer[r]
BY DEF C!Continue, Framed, Moves

LEMMA CommentGoes ==
    ASSUME Framed, NEW r \in Requests, pc[r] \notin {"idle", "done"},
           NEW label, label # "idle", C!Goto(r, label)
    PROVE  Moves(r) /\ pc'[r] = label /\ held'[r] = held[r] /\ answer'[r] = answer[r]
BY CommentContinues DEF C!Goto

LEMMA CommentReplies ==
    ASSUME Framed, NEW r \in Requests, pc[r] \notin {"idle", "done"}, NEW what, C!Reply(r, what)
    PROVE  Moves(r) /\ pc'[r] = "done" /\ held'[r] = held[r] /\ answer'[r] = what
BY DEF C!Reply, Framed, Moves

LEMMA CommentBegins ==
    ASSUME Framed, NEW r \in Requests, NEW c, NEW label, label # "idle", C!Begin(r, c, label)
    PROVE  /\ Moves(r) /\ pc[r] = "idle" /\ pc'[r] = label /\ call'[r] = c
           /\ held'[r] = held[r] /\ answer'[r] = answer[r]
BY DEF C!Begin, Framed, Moves


CommentLabels == {"entity", "insertComment", "mention", "assignees", "tell", "comment", "commentEntity",
                  "deleteMentions", "writeText", "mentionAgain", "markDeleted", "insertLog", "other"}

\* Labels at which an edit or a deletion has found its comment.
Found == {"commentEntity", "deleteMentions", "writeText", "mentionAgain", "markDeleted"}

\* Where a request is says what it was called with.
PlacedComment(r) ==
    /\ pc[r] = "idle" => call[r] = NoCall
    /\ pc[r] # "idle" => call[r] \in CommentCalls
    /\ pc[r] \in {"entity", "assignees", "tell"} => call[r].kind \in {"comment", "log"}
    /\ pc[r] \in {"insertComment", "mention"} => call[r].kind = "comment"
    /\ pc[r] = "insertLog" => call[r].kind = "log"
    /\ pc[r] \in {"comment", "commentEntity"} => call[r].kind \in {"edit", "delete"}
    /\ pc[r] \in {"deleteMentions", "writeText", "mentionAgain"} => call[r].kind = "edit"
    /\ pc[r] = "markDeleted" => call[r].kind = "delete"
    /\ pc[r] = "other" => call[r].kind \in {"removeEntity", "leave"}

CommentTyped == C!TypeOK /\ Framed /\ \A r \in Requests : PlacedComment(r)

CommentStep(r) ==
    \/ C!Start(r) \/ C!FindEntity(r) \/ C!CreateComment(r) \/ C!CreateMentions(r) \/ C!FindAssignees(r)
    \/ C!Tell(r) \/ C!FindComment(r) \/ C!FindCommentEntity(r) \/ C!DeleteMentions(r) \/ C!WriteText(r)
    \/ C!MarkDeleted(r) \/ C!CreateTimeLog(r) \/ C!Other(r)

LEMMA CommentCallFields ==
    ASSUME NEW c \in CommentCalls
    PROVE  /\ c.kind \in {"comment", "log", "edit", "delete", "removeEntity", "leave"}
           /\ c.kind \in {"comment", "log", "edit", "delete"} => c.row \in Rows
           /\ c.kind \in {"comment", "edit", "delete", "leave"} => c.by \in Users
           /\ c.kind \in {"comment", "log", "removeEntity", "leave"} => c.entity \in Entities
           /\ c.kind \in {"comment", "edit"} => c.text \in C!Texts
           /\ c.kind = "comment" => c.parent \in Rows \cup {None}
BY PartsAssumption
   DEF C!CommentsAssumption, C!CommentCall, C!EditCall, C!DeleteCall, C!LogCall, C!OtherCall

LEMMA CommentsTypedInit == C!Init => CommentTyped
BY PartsAssumption
   DEF C!Init, C!HandlersInit, CommentTyped, C!TypeOK, C!Handling, PlacedComment, Framed,
       C!NoCall, NoCall, C!CommentsAssumption

\* What the handler of a request does next, and what it has seen by then.
CommentGoesOn(r) ==
    LET c == call[r]
    IN  \/ /\ pc[r] = "idle" /\ call'[r] \in CommentCalls /\ C!FreshId(call'[r])
           /\ answer'[r] = answer[r]
           /\ \/ pc'[r] = "entity" /\ call'[r].kind \in {"comment", "log"}
              \/ pc'[r] = "comment" /\ call'[r].kind \in {"edit", "delete"}
              \/ pc'[r] = "other" /\ call'[r].kind \in {"removeEntity", "leave"}
        \/ /\ pc[r] \notin {"idle", "done"} /\ pc'[r] = "done"
           /\ answer'[r] \in {"ok", "error", "notFound", "forbidden", "refused"}
        \/ /\ answer'[r] = answer[r]
           /\ \/ pc[r] = "entity" /\ pc'[r] = "insertLog" /\ c.kind = "log"
              \/ pc[r] = "entity" /\ pc'[r] = "insertComment" /\ c.kind = "comment" /\ C!MayOpen(c.by, c.entity)
              \/ pc[r] = "insertComment" /\ pc'[r] = "mention"
              \/ pc[r] \in {"mention", "insertLog"} /\ pc'[r] = "assignees"
              \/ pc[r] = "assignees" /\ pc'[r] = "tell"
              \/ /\ pc[r] = "comment" /\ pc'[r] = "commentEntity"
                 /\ comments[c.row] # None /\ comments[c.row].by = c.by /\ held'[r] = comments[c.row].entity
                 /\ c.kind = "edit" => ~comments[c.row].deleted
              \/ pc[r] = "commentEntity" /\ pc'[r] = "deleteMentions" /\ c.kind = "edit" /\ C!MayOpen(c.by, held[r])
              \/ pc[r] = "commentEntity" /\ pc'[r] = "markDeleted" /\ c.kind = "delete" /\ C!MayOpen(c.by, held[r])
              \/ pc[r] = "deleteMentions" /\ pc'[r] = "writeText"
              \/ pc[r] = "writeText" /\ pc'[r] = "mentionAgain"

LEMMA CommentMoves ==
    ASSUME CommentTyped, NEW r \in Requests, CommentStep(r)
    PROVE  Moves(r) /\ CommentGoesOn(r)
<1>0. Framed /\ PlacedComment(r)
  BY DEF CommentTyped
<1> USE <1>0, CommentContinues, CommentGoes, CommentReplies DEF C!Fails
<1>1. CASE C!Start(r)
  <2>1. PICK kinds, label : /\ C!StartWith(r, kinds, label)
                            /\ \/ kinds = {"comment", "log"} /\ label = "entity"
                               \/ kinds = {"edit", "delete"} /\ label = "comment"
                               \/ kinds = {"removeEntity", "leave"} /\ label = "other"
    BY <1>1 DEF C!Start
  <2>2. PICK c \in CommentCalls : c.kind \in kinds /\ C!FreshId(c) /\ C!Begin(r, c, label)
    BY <2>1 DEF C!StartWith
  <2>3. /\ Moves(r) /\ pc[r] = "idle" /\ pc'[r] = label /\ call'[r] = c /\ answer'[r] = answer[r]
    BY <2>1, <2>2, CommentBegins
  <2> QED BY <2>1, <2>2, <2>3 DEF CommentGoesOn
<1>2. CASE C!FindEntity(r)
  <2>1. call[r].kind \in {"comment", "log"}
    BY <1>2 DEF C!FindEntity, PlacedComment
  <2> QED BY <1>2, <2>1 DEF C!FindEntity, C!Verify, C!Kind, C!MayOpen, CommentGoesOn
<1>3. CASE C!CreateComment(r)
  BY <1>3 DEF C!CreateComment, CommentGoesOn
<1>4. CASE C!CreateMentions(r)
  BY <1>4 DEF C!CreateMentions, CommentGoesOn
<1>5. CASE C!FindAssignees(r) \/ C!Tell(r)
  BY <1>5 DEF C!FindAssignees, C!Tell, CommentGoesOn
<1>6. CASE C!FindComment(r)
  <2>1. call[r].kind \in {"edit", "delete"} /\ pc[r] = "comment"
    BY <1>6 DEF C!FindComment, PlacedComment
  <2>2. \/ \E what \in {"notFound", "forbidden", "refused"} : C!Reply(r, what)
        \/ /\ C!Continue(r, "commentEntity", comments[call[r].row].entity)
           /\ comments[call[r].row] # None /\ comments[call[r].row].by = call[r].by
           /\ call[r].kind = "edit" => ~comments[call[r].row].deleted
    BY <1>6 DEF C!FindComment, C!Frozen, C!Kind
  <2> QED BY <2>1, <2>2 DEF CommentGoesOn
<1>7. CASE C!FindCommentEntity(r)
  <2>1. call[r].kind \in {"edit", "delete"}
    BY <1>7 DEF C!FindCommentEntity, PlacedComment
  <2> QED BY <1>7, <2>1 DEF C!FindCommentEntity, C!Verify, C!Kind, C!MayOpen, CommentGoesOn
<1>8. CASE C!DeleteMentions(r) \/ C!WriteText(r)
  BY <1>8 DEF C!DeleteMentions, C!WriteText, CommentGoesOn
<1>9. CASE C!MarkDeleted(r) \/ C!CreateTimeLog(r) \/ C!Other(r)
  BY <1>9 DEF C!MarkDeleted, C!CreateTimeLog, C!Other, CommentGoesOn
<1> QED BY <1>1, <1>2, <1>3, <1>4, <1>5, <1>6, <1>7, <1>8, <1>9 DEF CommentStep

LEMMA CommentPlaced ==
    ASSUME CommentTyped, NEW r \in Requests, CommentStep(r)
    PROVE  Framed' /\ \A q \in Requests : PlacedComment(q)'
<1>1. Moves(r) /\ CommentGoesOn(r) /\ PlacedComment(r)
  BY CommentMoves DEF CommentTyped
<1>2. PlacedComment(r)'
  BY <1>1 DEF Moves, CommentGoesOn, PlacedComment
<1>3. ASSUME NEW q \in Requests \ {r} PROVE PlacedComment(q)'
  BY <1>1 DEF Moves, CommentTyped, PlacedComment
<1> QED BY <1>1, <1>2, <1>3 DEF Moves

CommentTable == [Rows -> C!Comment \cup {None}]

\* No row is None.
LEMMA NoneNoComment == None \notin C!Comment
BY PartsAssumption DEF C!CommentsAssumption

\* Steps that leave alone the comments and who may open what.
CommentsRest(r) ==
    \/ C!Start(r) \/ C!FindEntity(r) \/ C!CreateMentions(r) \/ C!FindAssignees(r) \/ C!Tell(r)
    \/ C!FindComment(r) \/ C!FindCommentEntity(r) \/ C!DeleteMentions(r) \/ C!CreateTimeLog(r)

LEMMA CommentStepsAre ==
    ASSUME NEW r \in Requests, CommentStep(r)
    PROVE  CommentsRest(r) \/ C!CreateComment(r) \/ C!WriteText(r) \/ C!MarkDeleted(r) \/ C!Other(r)
BY DEF CommentStep, CommentsRest

LEMMA CommentsResting ==
    ASSUME CommentTyped, NEW r \in Requests, CommentsRest(r)
    PROVE  /\ UNCHANGED <<cEntities, cMembers, comments, overtaken, shutOut>>
           /\ mentions' \subseteq Rows \X Users /\ logs' \in [Rows -> Entities \cup {None}]
<1>0. mentions \subseteq Rows \X Users /\ logs \in [Rows -> Entities \cup {None}]
  BY DEF CommentTyped, C!TypeOK
<1>1. CASE \/ C!Start(r) \/ C!FindEntity(r) \/ C!FindAssignees(r) \/ C!Tell(r)
           \/ C!FindComment(r) \/ C!FindCommentEntity(r)
  <2>1. UNCHANGED <<C!tables, C!history>>
    BY <1>1, Zenon DEF C!Start, C!StartWith, C!FindEntity, C!FindAssignees, C!Tell, C!FindComment,
       C!FindCommentEntity
  <2> QED BY <1>0, <2>1 DEF C!tables, C!history
<1>2. CASE C!CreateMentions(r)
  <2>1. call[r].row \in Rows
    <3>1. call[r] \in CommentCalls /\ call[r].kind \in {"comment", "edit"}
      BY <1>2 DEF C!CreateMentions, CommentTyped, PlacedComment
    <3> QED BY <3>1, CommentCallFields
  <2>2. C!Mentions(call[r].row, call[r].text, call[r].by) \subseteq Rows \X Users
    BY <2>1 DEF C!Mentions, C!Mentioned
  <2> QED BY <1>0, <1>2, <2>2 DEF C!CreateMentions, C!history
<1>3. CASE C!DeleteMentions(r)
  BY <1>0, <1>3 DEF C!DeleteMentions, C!history
<1>4. CASE C!CreateTimeLog(r)
  <2>1. call[r].row \in Rows /\ call[r].entity \in Entities
    <3>1. call[r] \in CommentCalls /\ call[r].kind = "log"
      BY <1>4 DEF C!CreateTimeLog, CommentTyped, PlacedComment
    <3> QED BY <3>1, CommentCallFields
  <2> QED BY <1>0, <1>4, <2>1 DEF C!CreateTimeLog, C!history
<1> QED BY <1>1, <1>2, <1>3, <1>4 DEF CommentsRest

LEMMA CommentStored ==
    ASSUME CommentTyped, NEW r \in Requests, C!CreateComment(r)
    PROVE  LET x == call[r].row
           IN  /\ pc[r] = "insertComment" /\ x \in Rows /\ call[r].kind = "comment"
               /\ UNCHANGED <<cEntities, cMembers, mentions, logs, overtaken, shutOut>>
               /\ \/ UNCHANGED comments /\ pc'[r] = "done"
                  \/ /\ pc'[r] = "mention" /\ comments' \in CommentTable /\ comments'[x] # None
                     /\ comments'[x].by = call[r].by /\ comments'[x].entity = call[r].entity
                     /\ comments'[x].deleted = FALSE
                     /\ \A c \in Rows \ {x} : comments'[c] = comments[c]
<1> DEFINE x == call[r].row
           row == [entity |-> call[r].entity, by |-> call[r].by, text |-> call[r].text,
                   deleted |-> FALSE, parent |-> call[r].parent]
<1>1. pc[r] = "insertComment" /\ call[r] \in CommentCalls /\ call[r].kind = "comment" /\ Framed
  BY DEF C!CreateComment, CommentTyped, PlacedComment
<1>2. x \in Rows /\ row \in C!Comment
  BY <1>1, CommentCallFields DEF C!Comment
<1>3. UNCHANGED <<cEntities, cMembers, mentions, logs, overtaken, shutOut>>
  BY DEF C!CreateComment, C!history
<1>4. \/ UNCHANGED comments /\ C!Reply(r, "error")
      \/ comments' = [comments EXCEPT ![x] = row] /\ C!Goto(r, "mention")
  BY DEF C!CreateComment, C!Fails
<1>5. row.by = call[r].by /\ row.entity = call[r].entity /\ row.deleted = FALSE
  OBVIOUS
<1> HIDE DEF row
<1>6. CASE UNCHANGED comments /\ C!Reply(r, "error")
  BY <1>1, <1>2, <1>3, <1>6, CommentReplies
<1>7. CASE comments' = [comments EXCEPT ![x] = row] /\ C!Goto(r, "mention")
  <2>1. comments' \in CommentTable /\ comments'[x] = row /\ row # None
        /\ \A c \in Rows \ {x} : comments'[c] = comments[c]
    BY <1>2, <1>7, NoneNoComment DEF CommentTyped, C!TypeOK, CommentTable
  <2>2. pc'[r] = "mention"
    BY <1>1, <1>7, CommentGoes
  <2> QED BY <1>1, <1>2, <1>3, <1>5, <2>1, <2>2
<1> QED BY <1>4, <1>6, <1>7

LEMMA CommentWritten ==
    ASSUME CommentTyped, NEW r \in Requests, C!WriteText(r) \/ C!MarkDeleted(r),
           comments[call[r].row] # None
    PROVE  LET x == call[r].row
           IN  /\ x \in Rows /\ UNCHANGED <<cEntities, cMembers, mentions, logs, shutOut>>
               /\ comments' \in CommentTable /\ comments'[x] # None
               /\ comments'[x].by = comments[x].by /\ comments'[x].entity = comments[x].entity
               /\ \A c \in Rows \ {x} : comments'[c] = comments[c]
               /\ \/ /\ pc[r] = "writeText" /\ pc'[r] = "mentionAgain" /\ call[r].kind = "edit"
                     /\ overtaken' = overtaken /\ comments'[x].deleted = comments[x].deleted
                  \/ /\ pc[r] = "markDeleted" /\ pc'[r] = "done" /\ call[r].kind = "delete"
                     /\ overtaken' = overtaken \cup C!Editing(x)
                     /\ comments'[x].deleted = TRUE /\ comments'[x].text = comments[x].text
<1> DEFINE x == call[r].row
           c == comments[x]
<1>1. /\ call[r] \in CommentCalls /\ Framed
      /\ \/ C!WriteText(r) /\ pc[r] = "writeText" /\ call[r].kind = "edit"
         \/ C!MarkDeleted(r) /\ pc[r] = "markDeleted" /\ call[r].kind = "delete"
  BY DEF C!WriteText, C!MarkDeleted, CommentTyped, PlacedComment
<1>2. x \in Rows /\ c \in C!Comment /\ comments \in CommentTable
  BY <1>1, CommentCallFields DEF CommentTyped, C!TypeOK, CommentTable
<1>3. UNCHANGED <<cEntities, cMembers, mentions, logs, shutOut>>
  BY DEF C!WriteText, C!MarkDeleted, C!history
<1>4. CASE C!WriteText(r) /\ pc[r] = "writeText" /\ call[r].kind = "edit"
  <2> DEFINE row == [c EXCEPT !.text = call[r].text]
  <2>1. comments' = [comments EXCEPT ![x] = row] /\ overtaken' = overtaken
    BY <1>2, <1>4 DEF C!WriteText, C!history, CommentTable
  <2>2. /\ row \in C!Comment /\ row.by = c.by /\ row.entity = c.entity /\ row.deleted = c.deleted
    BY <1>1, <1>2, <1>4, CommentCallFields DEF C!Comment
  <2>3. pc'[r] = "mentionAgain"
    BY <1>1, <1>4, CommentGoes DEF C!WriteText
  <2> HIDE DEF row
  <2>4. comments' \in CommentTable /\ comments'[x] = row /\ row # None
        /\ \A b \in Rows \ {x} : comments'[b] = comments[b]
    BY <1>2, <2>1, <2>2, NoneNoComment DEF CommentTable
  <2> QED BY <1>2, <1>3, <1>4, <2>1, <2>2, <2>3, <2>4
<1>5. CASE C!MarkDeleted(r) /\ pc[r] = "markDeleted" /\ call[r].kind = "delete"
  <2> DEFINE row == [c EXCEPT !.deleted = TRUE]
  <2>1. comments' = [comments EXCEPT ![x] = row] /\ overtaken' = overtaken \cup C!Editing(x)
    BY <1>2, <1>5 DEF C!MarkDeleted, CommentTable
  <2>2. /\ row \in C!Comment /\ row.by = c.by /\ row.entity = c.entity /\ row.deleted = TRUE
        /\ row.text = c.text
    BY <1>2 DEF C!Comment
  <2>3. pc'[r] = "done"
    BY <1>1, <1>5, CommentReplies DEF C!MarkDeleted
  <2> HIDE DEF row
  <2>4. comments' \in CommentTable /\ comments'[x] = row /\ row # None
        /\ \A b \in Rows \ {x} : comments'[b] = comments[b]
    BY <1>2, <2>1, <2>2, NoneNoComment DEF CommentTable
  <2> QED BY <1>2, <1>3, <1>5, <2>1, <2>2, <2>3, <2>4
<1> QED BY <1>1, <1>4, <1>5

LEMMA OtherServices ==
    ASSUME CommentTyped, NEW r \in Requests, C!Other(r)
    PROVE  /\ UNCHANGED <<comments, mentions, overtaken>> /\ pc[r] = "other" /\ pc'[r] = "done"
           /\ cEntities' \subseteq cEntities /\ cMembers' \in [Entities -> SUBSET Users]
           /\ logs' \in [Rows -> Entities \cup {None}]
           /\ shutOut' = shutOut \cup C!ShutOut
<1>1. pc[r] = "other" /\ call[r] \in CommentCalls /\ call[r].kind \in {"removeEntity", "leave"} /\ Framed
  BY DEF C!Other, CommentTyped, PlacedComment
<1>2. call[r].entity \in Entities
  BY <1>1, CommentCallFields
<1>3. /\ cMembers \in [Entities -> SUBSET Users] /\ logs \in [Rows -> Entities \cup {None}]
  BY DEF CommentTyped, C!TypeOK
<1>4. pc'[r] = "done"
  BY <1>1, CommentReplies DEF C!Other
<1> QED BY <1>1, <1>2, <1>3, <1>4 DEF C!Other

-----------------------------------------------------------------------------
(***************************************************************************)
(* Comments: what was checked still stands                                 *)
(***************************************************************************)

\* An id names one row; a comment there is was there at first or was stored.
CommentsBorn ==
    /\ \A p, q \in Requests :
          /\ call[p].kind \in {"comment", "log"} /\ call[q].kind \in {"comment", "log"}
          /\ call[p].row = call[q].row
          => p = q
    /\ \A q \in Requests : call[q].kind \in {"comment", "log"} => call[q].row \notin DOMAIN SeedComments
    /\ \A c \in Rows : comments[c] # None =>
          \/ c \in DOMAIN SeedComments
          \/ \E q \in Requests : /\ call[q].kind = "comment" /\ call[q].row = c
                                 /\ pc[q] \notin {"idle", "entity", "insertComment"}

\* An edit or a deletion that went on is its author's, and the comment is there.
FoundStands ==
    \A q \in Requests : pc[q] \in Found =>
        /\ comments[call[q].row] # None /\ comments[call[q].row].by = call[q].by
        /\ pc[q] = "commentEntity" => held[q] = comments[call[q].row].entity

\* Who has passed the check may open the entity, or could until he was shut out.
AccessStands ==
    \A q \in Requests :
        /\ pc[q] = "insertComment" => C!MayOpen(call[q].by, call[q].entity) \/ q \in shutOut
        /\ pc[q] \in {"deleteMentions", "writeText", "markDeleted"} =>
              C!MayOpen(call[q].by, comments[call[q].row].entity) \/ q \in shutOut

\* An edit of a deleted comment had found it before it was deleted.
OvertakenKnown ==
    \A q \in Requests :
        /\ pc[q] \in {"commentEntity", "deleteMentions", "writeText"} /\ call[q].kind = "edit"
        /\ comments[call[q].row].deleted
        => q \in overtaken

CommentInv == CommentTyped /\ CommentsBorn /\ FoundStands /\ AccessStands /\ OvertakenKnown

LEMMA CommentInit == C!Init => CommentInv
<1> SUFFICES ASSUME C!Init PROVE CommentInv
  OBVIOUS
<1>1. CommentTyped
  BY CommentsTypedInit
<1>2. \A q \in Requests : pc[q] = "idle" /\ call[q].kind = "none"
  BY DEF C!Init, C!HandlersInit, C!NoCall
<1>3. \A c \in Rows : comments[c] # None => c \in DOMAIN SeedComments
  BY DEF C!Init
<1> QED BY <1>1, <1>2, <1>3 DEF CommentInv, CommentsBorn, FoundStands, AccessStands, OvertakenKnown, Found

\* The comment a creation is about to store is none yet.
LEMMA CommentFresh ==
    ASSUME CommentInv, NEW r \in Requests, pc[r] = "insertComment"
    PROVE  call[r].row \in Rows /\ call[r].kind = "comment" /\ comments[call[r].row] = None
<1>1. call[r] \in CommentCalls /\ call[r].kind = "comment"
  BY DEF CommentInv, CommentTyped, PlacedComment
<1>2. call[r].row \in Rows
  BY <1>1, CommentCallFields
<1>3. ASSUME NEW q \in Requests, call[q].kind = "comment", call[q].row = call[r].row PROVE q = r
  BY <1>1, <1>3 DEF CommentInv, CommentsBorn
<1> QED BY <1>1, <1>2, <1>3 DEF CommentInv, CommentsBorn

\* A comment stays, with its author and its entity.
LEMMA CommentsStay ==
    ASSUME CommentInv, NEW r \in Requests, CommentStep(r), NEW c \in Rows, comments[c] # None
    PROVE  /\ comments'[c] # None /\ comments'[c].by = comments[c].by
           /\ comments'[c].entity = comments[c].entity
           /\ comments[c].deleted => comments'[c].deleted
<1>1. CASE CommentsRest(r)
  BY <1>1, CommentsResting DEF CommentInv
<1>2. CASE C!CreateComment(r)
  <2>1. comments[call[r].row] = None
    BY <1>2, CommentFresh DEF C!CreateComment
  <2>2. comments'[c] = comments[c]
    BY <1>2, <2>1, CommentStored DEF CommentInv
  <2> QED BY <2>2
<1>3. CASE C!WriteText(r) \/ C!MarkDeleted(r)
  <2>1. comments[call[r].row] # None
    BY <1>3 DEF CommentInv, FoundStands, Found, C!WriteText, C!MarkDeleted
  <2> QED BY <1>3, <2>1, CommentWritten DEF CommentInv
<1>4. CASE C!Other(r)
  BY <1>4, OtherServices DEF CommentInv
<1> QED BY <1>1, <1>2, <1>3, <1>4, CommentStepsAre

LEMMA CommentTypedStep ==
    ASSUME CommentInv, NEW r \in Requests, CommentStep(r)
    PROVE  CommentTyped'
<1>0. CommentTyped
  BY DEF CommentInv
<1>1. Moves(r) /\ CommentGoesOn(r) /\ Framed' /\ \A q \in Requests : PlacedComment(q)'
  BY <1>0, CommentMoves, CommentPlaced
<1>2. /\ cEntities \subseteq Entities /\ cMembers \in [Entities -> SUBSET Users]
      /\ comments \in CommentTable /\ mentions \subseteq Rows \X Users
      /\ logs \in [Rows -> Entities \cup {None}]
      /\ overtaken \subseteq Requests /\ shutOut \subseteq Requests
  BY <1>0 DEF CommentTyped, C!TypeOK, CommentTable
<1>3. /\ cEntities' \subseteq Entities /\ cMembers' \in [Entities -> SUBSET Users]
      /\ comments' \in CommentTable /\ mentions' \subseteq Rows \X Users
      /\ logs' \in [Rows -> Entities \cup {None}]
      /\ overtaken' \subseteq Requests /\ shutOut' \subseteq Requests
  <2>1. CASE CommentsRest(r)
    BY <1>0, <1>2, <2>1, CommentsResting
  <2>2. CASE C!CreateComment(r)
    BY <1>0, <1>2, <2>2, CommentStored
  <2>3. CASE C!WriteText(r) \/ C!MarkDeleted(r)
    <3>1. comments[call[r].row] # None
      BY <2>3 DEF CommentInv, FoundStands, Found, C!WriteText, C!MarkDeleted
    <3>2. C!Editing(call[r].row) \subseteq Requests
      BY DEF C!Editing, C!At
    <3> QED BY <1>0, <1>2, <2>3, <3>1, <3>2, CommentWritten
  <2>4. CASE C!Other(r)
    <3>1. C!ShutOut \subseteq Requests
      BY DEF C!ShutOut, C!At
    <3> QED BY <1>0, <1>2, <2>4, <3>1, OtherServices
  <2> QED BY <2>1, <2>2, <2>3, <2>4, CommentStepsAre
<1>4. C!Handling(CommentLabels, CommentCalls, {"refused"})'
  <2>1. pc'[r] \in {"done"} \cup CommentLabels /\ call'[r] \in CommentCalls
    BY <1>1 DEF CommentGoesOn, PlacedComment, CommentLabels
  <2>2. answer'[r] \in {"none", "ok", "notFound", "forbidden", "error", "refused"}
    BY <1>0, <1>1 DEF CommentGoesOn, CommentTyped, C!TypeOK, C!Handling
  <2>3. \A q \in Requests \ {r} : pc'[q] = pc[q] /\ call'[q] = call[q] /\ answer'[q] = answer[q]
    BY <1>1 DEF Moves
  <2> QED BY <1>0, <1>1, <2>1, <2>2, <2>3 DEF CommentTyped, C!TypeOK, C!Handling, C!NoCall, Framed,
             CommentLabels
<1> QED BY <1>1, <1>3, <1>4 DEF CommentTyped, C!TypeOK, CommentTable, CommentLabels

LEMMA CommentsBornStep ==
    ASSUME CommentInv, NEW r \in Requests, CommentStep(r)
    PROVE  CommentsBorn'
<1>1. Moves(r) /\ CommentGoesOn(r) /\ CommentsBorn /\ PlacedComment(r)
  BY CommentMoves DEF CommentInv, CommentTyped
<1>2. pc[r] # "idle" => \A q \in Requests : call'[q] = call[q]
  BY <1>1 DEF Moves
<1>3. pc[r] = "idle" => C!FreshId(call'[r])
  BY <1>1 DEF CommentGoesOn
<1>4. /\ \A p, q \in Requests :
           /\ call'[p].kind \in {"comment", "log"} /\ call'[q].kind \in {"comment", "log"}
           /\ call'[p].row = call'[q].row
           => p = q
      /\ \A q \in Requests : call'[q].kind \in {"comment", "log"} => call'[q].row \notin DOMAIN SeedComments
  BY <1>1, <1>2, <1>3 DEF CommentsBorn, Moves, C!FreshId, C!Kind
<1>5. ASSUME NEW c \in Rows, comments'[c] # None, c \notin DOMAIN SeedComments
      PROVE  \E q \in Requests : /\ call'[q].kind = "comment" /\ call'[q].row = c
                                 /\ pc'[q] \notin {"idle", "entity", "insertComment"}
  <2>1. CASE comments[c] # None
    <3>1. PICK q \in Requests : /\ call[q].kind = "comment" /\ call[q].row = c
                                /\ pc[q] \notin {"idle", "entity", "insertComment"}
      BY <1>1, <1>5, <2>1 DEF CommentsBorn
    <3>2. call'[q] = call[q]
      BY <1>1, <3>1 DEF Moves
    <3>3. pc'[q] \notin {"idle", "entity", "insertComment"}
      BY <1>1, <3>1 DEF Moves, CommentGoesOn
    <3> QED BY <3>1, <3>2, <3>3
  <2>2. CASE comments[c] = None
    <3>1. C!CreateComment(r) /\ c = call[r].row
      <4>1. CASE CommentsRest(r)
        BY <1>5, <2>2, <4>1, CommentsResting DEF CommentInv
      <4>2. CASE C!CreateComment(r)
        BY <1>5, <2>2, <4>2, CommentStored DEF CommentInv
      <4>3. CASE C!WriteText(r) \/ C!MarkDeleted(r)
        <5>1. comments[call[r].row] # None
          BY <4>3 DEF CommentInv, FoundStands, Found, C!WriteText, C!MarkDeleted
        <5> QED BY <1>5, <2>2, <4>3, <5>1, CommentWritten DEF CommentInv
      <4>4. CASE C!Other(r)
        BY <1>5, <2>2, <4>4, OtherServices DEF CommentInv
      <4> QED BY <4>1, <4>2, <4>3, <4>4, CommentStepsAre
    <3>2. pc'[r] = "mention" /\ call[r].kind = "comment" /\ pc[r] = "insertComment"
      BY <1>5, <2>2, <3>1, CommentStored DEF CommentInv
    <3>3. call'[r] = call[r]
      BY <1>1, <3>2 DEF Moves
    <3> QED BY <3>1, <3>2, <3>3
  <2> QED BY <2>1, <2>2
<1> QED BY <1>4, <1>5 DEF CommentsBorn

LEMMA FoundStandsStep ==
    ASSUME CommentInv, NEW r \in Requests, CommentStep(r)
    PROVE  FoundStands'
<1>1. Moves(r) /\ CommentGoesOn(r) /\ CommentTyped /\ PlacedComment(r)
  BY CommentMoves DEF CommentInv, CommentTyped
<1> SUFFICES ASSUME NEW q \in Requests, pc'[q] \in Found
             PROVE  /\ comments'[call'[q].row] # None /\ comments'[call'[q].row].by = call'[q].by
                    /\ pc'[q] = "commentEntity" => held'[q] = comments'[call'[q].row].entity
  BY DEF FoundStands
<1>2. call'[q] = call[q]
  BY <1>1 DEF Moves, CommentGoesOn, Found
<1>3. /\ comments[call[q].row] # None /\ comments[call[q].row].by = call[q].by
      /\ pc'[q] = "commentEntity" => held'[q] = comments[call[q].row].entity
  <2>1. CASE q # r
    BY <2>1, <1>1 DEF Moves, CommentInv, FoundStands
  <2>2. CASE q = r
    BY <2>2, <1>1 DEF CommentGoesOn, Found, CommentInv, FoundStands
  <2> QED BY <2>1, <2>2
<1>4. call[q].row \in Rows
  <2>1. call'[q] \in CommentCalls /\ call'[q].kind \in {"edit", "delete"}
    BY <1>1, CommentPlaced DEF PlacedComment, Found
  <2> QED BY <2>1, <1>2, CommentCallFields
<1> QED BY <1>2, <1>3, <1>4, CommentsStay

LEMMA AccessStep ==
    ASSUME CommentInv, NEW r \in Requests, CommentStep(r)
    PROVE  AccessStands'
<1>1. Moves(r) /\ CommentGoesOn(r) /\ CommentTyped /\ PlacedComment(r)
  BY CommentMoves DEF CommentInv, CommentTyped
<1>2. \A u, e : C!MayOpen(u, e) => \/ cEntities' = cEntities /\ cMembers' = cMembers
                                   \/ C!Other(r)
  <2>1. CASE CommentsRest(r)
    BY <1>1, <2>1, CommentsResting
  <2>2. CASE C!CreateComment(r)
    BY <1>1, <2>2, CommentStored
  <2>3. CASE C!WriteText(r) \/ C!MarkDeleted(r)
    BY <2>3 DEF C!WriteText, C!MarkDeleted
  <2> QED BY <2>1, <2>2, <2>3, CommentStepsAre
<1>3. shutOut \subseteq shutOut'
  <2>1. CASE CommentsRest(r)
    BY <1>1, <2>1, CommentsResting
  <2>2. CASE C!CreateComment(r)
    BY <1>1, <2>2, CommentStored
  <2>3. CASE C!WriteText(r) \/ C!MarkDeleted(r)
    BY <2>3 DEF C!WriteText, C!MarkDeleted, C!history
  <2>4. CASE C!Other(r)
    BY <1>1, <2>4, OtherServices
  <2> QED BY <2>1, <2>2, <2>3, <2>4, CommentStepsAre
<1> SUFFICES ASSUME NEW q \in Requests,
                    pc'[q] \in {"insertComment", "deleteMentions", "writeText", "markDeleted"}
             PROVE  LET e == IF pc'[q] = "insertComment" THEN call'[q].entity
                             ELSE comments'[call'[q].row].entity
                    IN  (e \in cEntities' /\ call'[q].by \in cMembers'[e]) \/ q \in shutOut'
  BY DEF AccessStands, C!MayOpen
<1> DEFINE e == IF pc'[q] = "insertComment" THEN call[q].entity ELSE comments[call[q].row].entity
<1>4. call'[q] = call[q] /\ call[q] \in CommentCalls
  BY <1>1 DEF Moves, CommentGoesOn, CommentTyped, PlacedComment
<1>5. pc'[q] # "insertComment" => comments'[call'[q].row].entity = comments[call[q].row].entity
  <2>1. pc'[q] # "insertComment" => pc[q] \in Found
    BY <1>1 DEF Moves, CommentGoesOn, Found
  <2>2. pc'[q] # "insertComment" => comments[call[q].row] # None /\ call[q].row \in Rows
    BY <2>1, <1>4, CommentCallFields DEF CommentInv, CommentTyped, PlacedComment, FoundStands, Found
  <2> QED BY <1>4, <2>2, CommentsStay
<1>6. C!MayOpen(call[q].by, e) \/ q \in shutOut
  <2>1. CASE q # r \/ pc[q] \in {"deleteMentions"}
    BY <2>1, <1>1 DEF Moves, CommentInv, AccessStands, CommentGoesOn
  <2>2. CASE q = r /\ pc[r] = "entity"
    BY <2>2, <1>1 DEF CommentGoesOn
  <2>3. CASE q = r /\ pc[r] = "commentEntity"
    <3>1. held[r] = comments[call[r].row].entity
      BY <2>3 DEF CommentInv, FoundStands, Found
    <3> QED BY <2>3, <3>1, <1>1 DEF CommentGoesOn
  <2> QED BY <2>1, <2>2, <2>3, <1>1 DEF CommentGoesOn
<1>7. CASE ~C!Other(r)
  BY <1>2, <1>3, <1>4, <1>5, <1>6, <1>7 DEF C!MayOpen
<1>8. CASE C!Other(r)
  <2>1. q # r /\ pc'[q] = pc[q]
    BY <1>1, <1>8, OtherServices DEF Moves
  <2>2. (call[q].kind = "comment") <=> (pc'[q] = "insertComment")
    BY <2>1 DEF CommentInv, CommentTyped, PlacedComment
  <2>3. (e \in cEntities' /\ call[q].by \in cMembers'[e]) \/ q \in C!ShutOut
    BY <2>1, <2>2 DEF C!ShutOut, C!At, C!Kind
  <2>4. C!ShutOut \subseteq shutOut'
    BY <1>1, <1>8, OtherServices
  <2> QED BY <1>4, <1>5, <2>3, <2>4
<1> QED BY <1>7, <1>8

LEMMA OvertakenStep ==
    ASSUME CommentInv, NEW r \in Requests, CommentStep(r)
    PROVE  OvertakenKnown'
<1>1. Moves(r) /\ CommentGoesOn(r) /\ CommentTyped /\ PlacedComment(r)
  BY CommentMoves DEF CommentInv, CommentTyped
<1> SUFFICES ASSUME NEW q \in Requests, call'[q].kind = "edit", comments'[call'[q].row].deleted,
                    pc'[q] \in {"commentEntity", "deleteMentions", "writeText"}
             PROVE  q \in overtaken'
  BY DEF OvertakenKnown
<1>2. call'[q] = call[q] /\ call[q] \in CommentCalls /\ call[q].row \in Rows
  <2>1. call'[q] = call[q]
    BY <1>1 DEF Moves, CommentGoesOn
  <2>2. call'[q] \in CommentCalls
    BY <1>1, CommentPlaced DEF PlacedComment
  <2> QED BY <2>1, <2>2, CommentCallFields
<1> DEFINE x == call[q].row
<1>3. CASE comments[x].deleted
  <2>1. pc[q] \in {"commentEntity", "deleteMentions", "writeText"}
    BY <1>1, <1>2, <1>3 DEF Moves, CommentGoesOn
  <2>2. q \in overtaken
    BY <1>2, <1>3, <2>1 DEF CommentInv, OvertakenKnown
  <2>3. overtaken \subseteq overtaken'
    <3>1. CASE CommentsRest(r)
      BY <1>1, <3>1, CommentsResting
    <3>2. CASE C!CreateComment(r)
      BY <1>1, <3>2, CommentStored
    <3>3. CASE C!WriteText(r) \/ C!MarkDeleted(r)
      BY <3>3 DEF C!WriteText, C!MarkDeleted, C!history
    <3>4. CASE C!Other(r)
      BY <1>1, <3>4, OtherServices
    <3> QED BY <3>1, <3>2, <3>3, <3>4, CommentStepsAre
  <2> QED BY <2>2, <2>3
<1>4. CASE ~comments[x].deleted
  <2>1. comments'[x] # comments[x]
    BY <1>2, <1>4
  <2>2. C!MarkDeleted(r) /\ call[r].row = x /\ overtaken' = overtaken \cup C!Editing(x) /\ pc'[r] = "done"
    <3>1. CASE CommentsRest(r) \/ C!Other(r)
      <4>1. UNCHANGED comments
        BY <1>1, <3>1, CommentsResting, OtherServices
      <4> QED BY <2>1, <4>1
    <3>2. CASE C!CreateComment(r)
      <4>1. x # call[r].row => comments'[x] = comments[x]
        BY <1>1, <1>2, <3>2, CommentStored
      <4>2. x = call[r].row => comments'[x] = comments[x] \/ ~comments'[x].deleted
        BY <1>1, <3>2, CommentStored
      <4>3. comments'[x].deleted
        BY <1>2
      <4> QED BY <2>1, <4>1, <4>2, <4>3
    <3>3. CASE C!WriteText(r) \/ C!MarkDeleted(r)
      <4>1. comments[call[r].row] # None
        BY <3>3 DEF CommentInv, FoundStands, Found, C!WriteText, C!MarkDeleted
      <4>2. x = call[r].row
        <5>1. \A c \in Rows \ {call[r].row} : comments'[c] = comments[c]
          BY <1>1, <3>3, <4>1, CommentWritten
        <5> QED BY <1>2, <2>1, <5>1
      <4>3. C!MarkDeleted(r)
        <5>1. CASE C!WriteText(r)
          <6>1. pc[r] = "writeText"
            BY <5>1 DEF C!WriteText
          <6>2. comments'[x].deleted = comments[x].deleted
            BY <1>1, <3>3, <4>1, <4>2, <6>1, CommentWritten
          <6> QED BY <1>2, <1>4, <6>2
        <5> QED BY <3>3, <5>1
      <4>4. pc[r] = "markDeleted"
        BY <4>3 DEF C!MarkDeleted
      <4> QED BY <1>1, <4>1, <4>2, <4>3, <4>4, CommentWritten
    <3> QED BY <3>1, <3>2, <3>3, CommentStepsAre
  <2>3. q # r
    BY <2>2
  <2>4. q \in C!Editing(x)
    BY <1>1, <1>2, <2>3 DEF Moves, C!Editing, C!At, C!Kind
  <2> QED BY <2>2, <2>4
<1> QED BY <1>3, <1>4

LEMMA CommentInvStep == CommentInv /\ [C!Next]_(C!vars) => CommentInv'
<1> SUFFICES ASSUME CommentInv, [C!Next]_(C!vars) PROVE CommentInv'
  OBVIOUS
<1>1. ASSUME NEW r \in Requests, CommentStep(r) PROVE CommentInv'
  BY <1>1, CommentTypedStep, CommentsBornStep, FoundStandsStep, AccessStep, OvertakenStep
     DEF CommentInv
<1>2. CASE UNCHANGED C!vars
  <2>1. UNCHANGED <<pc, call, held, answer, cEntities, cMembers, comments, mentions, logs, overtaken, shutOut>>
    BY <1>2 DEF C!vars, C!handlers, C!tables, C!history
  <2>2. CommentTyped'
    BY <2>1 DEF CommentInv, CommentTyped, C!TypeOK, C!Handling, Framed, PlacedComment
  <2>3. CommentsBorn' /\ FoundStands' /\ AccessStands' /\ OvertakenKnown'
    BY <2>1 DEF CommentInv, CommentsBorn, FoundStands, AccessStands, OvertakenKnown, C!MayOpen
  <2> QED BY <2>2, <2>3 DEF CommentInv
<1> QED BY <1>1, <1>2 DEF C!Next, CommentStep

\* The text of a deleted comment changes only by an edit that was overtaken.
LEMMA DeletedStep ==
    ASSUME CommentInv, NEW r \in Requests, CommentStep(r), NEW c \in Rows,
           comments[c] # None, comments[c].deleted
    PROVE  /\ comments'[c] # None /\ comments'[c].deleted
           /\ comments'[c].text # comments[c].text =>
                 \E q \in overtaken : pc[q] = "writeText" /\ pc'[q] # pc[q] /\ call[q].row = c
<1>1. comments'[c] # None /\ comments'[c].deleted
  BY CommentsStay
<1>2. ASSUME comments'[c].text # comments[c].text
      PROVE  r \in overtaken /\ pc[r] = "writeText" /\ pc'[r] # pc[r] /\ call[r].row = c
  <2>1. comments'[c] # comments[c]
    BY <1>2
  <2>2. CASE CommentsRest(r) \/ C!Other(r)
    <3>1. UNCHANGED comments
      BY <2>2, CommentsResting, OtherServices DEF CommentInv
    <3> QED BY <2>1, <3>1
  <2>3. CASE C!CreateComment(r)
    <3>1. comments[call[r].row] = None
      BY <2>3, CommentFresh DEF C!CreateComment
    <3>2. c # call[r].row => comments'[c] = comments[c]
      BY <2>3, CommentStored DEF CommentInv
    <3> QED BY <2>1, <3>1, <3>2
  <2>4. CASE C!WriteText(r) \/ C!MarkDeleted(r)
    <3>1. comments[call[r].row] # None
      BY <2>4 DEF CommentInv, FoundStands, Found, C!WriteText, C!MarkDeleted
    <3>2. call[r].row = c /\ pc[r] = "writeText" /\ pc'[r] = "mentionAgain" /\ call[r].kind = "edit"
      BY <1>2, <2>1, <2>4, <3>1, CommentWritten DEF CommentInv
    <3> QED BY <3>2 DEF CommentInv, OvertakenKnown
  <2> QED BY <2>2, <2>3, <2>4, CommentStepsAre
<1> QED BY <1>1, <1>2

\* A comment changes by its author, who may open its entity or was shut out.
LEMMA WrittenStep ==
    ASSUME CommentInv, NEW r \in Requests, CommentStep(r), NEW c \in Rows, comments'[c] # comments[c]
    PROVE  \E q \in Requests :
              /\ pc'[q] # pc[q] /\ call[q].row = c /\ call[q].by = comments'[c].by
              /\ C!MayOpen(call[q].by, comments'[c].entity) \/ q \in shutOut
<1>1. CASE CommentsRest(r) \/ C!Other(r)
  BY <1>1, CommentsResting, OtherServices DEF CommentInv
<1>2. CASE C!CreateComment(r)
  <2>1. /\ pc[r] = "insertComment" /\ pc'[r] = "mention" /\ call[r].row = c
        /\ comments'[c].by = call[r].by /\ comments'[c].entity = call[r].entity
    BY <1>2, CommentStored DEF CommentInv
  <2> QED BY <2>1 DEF CommentInv, AccessStands
<1>3. CASE C!WriteText(r) \/ C!MarkDeleted(r)
  <2>1. comments[call[r].row] # None /\ comments[call[r].row].by = call[r].by
    BY <1>3 DEF CommentInv, FoundStands, Found, C!WriteText, C!MarkDeleted
  <2>2. /\ call[r].row = c /\ pc'[r] # pc[r] /\ pc[r] \in {"writeText", "markDeleted"}
        /\ comments'[c].by = comments[c].by /\ comments'[c].entity = comments[c].entity
    BY <1>3, <2>1, CommentWritten DEF CommentInv
  <2>3. C!MayOpen(call[r].by, comments'[c].entity) \/ r \in shutOut
    BY <2>2 DEF CommentInv, AccessStands
  <2> QED BY <2>1, <2>2, <2>3
<1> QED BY <1>1, <1>2, <1>3, CommentStepsAre

LEMMA CommentsBeside == MCSpec => [](part = "comments" => CommentInv)
<1> DEFINE Here == part = "comments" => CommentInv
<1>1. MCInit => Here
  BY CommentInit DEF MCInit
<1>2. Here /\ [MCNext]_<<part, handlers, wVars, gVars, dVars, kVars, cVars, lVars>> => Here'
  <2> SUFFICES ASSUME Here, [MCNext]_<<part, handlers, wVars, gVars, dVars, kVars, cVars, lVars>>,
                      part' = "comments"
               PROVE  CommentInv'
    OBVIOUS
  <2>1. part = "comments" /\ CommentInv
    BY DEF MCNext
  <2>2. [C!Next]_(C!vars)
    BY <2>1 DEF MCNext, C!vars, C!handlers, C!tables, C!history, handlers, cVars
  <2> QED BY <2>1, <2>2, CommentInvStep
<1>3. MCSpec => []Here
  <2> HIDE DEF Here
  <2> QED BY <1>1, <1>2, PTL DEF MCSpec
<1> QED BY <1>3

\* A step of another part leaves the comments alone.
LEMMA CommentsChange ==
    ASSUME part = "comments" => CommentInv,
           [MCNext]_<<part, handlers, wVars, gVars, dVars, kVars, cVars, lVars>>
    PROVE  UNCHANGED comments \/ (CommentInv /\ \E r \in Requests : CommentStep(r))
<1>1. CASE part = "comments" /\ C!Next
  BY <1>1 DEF C!Next, CommentStep
<1>2. CASE ~(part = "comments" /\ C!Next)
  BY <1>2 DEF MCNext, cVars
<1> QED BY <1>1, <1>2

\* A deletion is not taken back, and the text of a deleted comment changes only
\* by an edit that had found it before; a comment is written, edited or deleted
\* by its author while he may open its entity, or could when the call checked
\* (collaboration.service.ts).
THEOREM CommentsHolding == MCSpec => CommentsHold
<1> DEFINE mcVars == <<part, handlers, wVars, gVars, dVars, kVars, cVars, lVars>>
           Here == part = "comments" => CommentInv
           Kept == \A c \in Rows :
                      comments[c] # None /\ comments[c].deleted =>
                          /\ comments'[c] # None /\ comments'[c].deleted
                          /\ comments'[c].text # comments[c].text =>
                                \E r \in overtaken : pc[r] = "writeText" /\ pc'[r] # pc[r] /\ call[r].row = c
           Written == \A c \in Rows :
                         comments'[c] # comments[c] =>
                            \E r \in Requests :
                               /\ pc'[r] # pc[r] /\ call[r].row = c /\ call[r].by = comments'[c].by
                               /\ C!MayOpen(call[r].by, comments'[c].entity) \/ r \in shutOut
<1>1. Here /\ [MCNext]_mcVars => [Kept]_(C!vars)
  <2> SUFFICES ASSUME Here, [MCNext]_mcVars PROVE Kept
    OBVIOUS
  <2> QED BY CommentsChange, DeletedStep
<1>2. Here /\ [MCNext]_mcVars => [Written]_(C!vars)
  <2> SUFFICES ASSUME Here, [MCNext]_mcVars PROVE Written
    OBVIOUS
  <2> QED BY CommentsChange, WrittenStep
<1>3. MCSpec => []Here
  BY CommentsBeside
<1> HIDE DEF Here, Kept, Written
<1>4. MCSpec => [][Kept]_(C!vars) /\ [][Written]_(C!vars)
  BY <1>1, <1>2, <1>3, PTL DEF MCSpec, mcVars
<1> QED BY <1>4 DEF CommentsHold, C!DeletedKeepTheirText, C!WrittenWithAccess, Kept, Written

-----------------------------------------------------------------------------
(***************************************************************************)
(* Workplace: type correctness                                             *)
(***************************************************************************)

LEMMA WorkContinues ==
    ASSUME Framed, NEW r \in Requests, pc[r] \notin {"idle", "done"},
           NEW label, label # "idle", NEW what, W!Continue(r, label, what)
    PROVE  Moves(r) /\ pc'[r] = label /\ held'[r] = what /\ answer'[r] = answer[r]
BY DEF W!Continue, Framed, Moves

LEMMA WorkGoes ==
    ASSUME Framed, NEW r \in Requests, pc[r] \notin {"idle", "done"},
           NEW label, label # "idle", W!Goto(r, label)
    PROVE  Moves(r) /\ pc'[r] = label /\ held'[r] = held[r] /\ answer'[r] = answer[r]
BY WorkContinues DEF W!Goto

LEMMA WorkReplies ==
    ASSUME Framed, NEW r \in Requests, pc[r] \notin {"idle", "done"}, NEW what, W!Reply(r, what)
    PROVE  Moves(r) /\ pc'[r] = "done" /\ held'[r] = held[r] /\ answer'[r] = what
BY DEF W!Reply, Framed, Moves

LEMMA WorkBegins ==
    ASSUME Framed, NEW r \in Requests, NEW c, NEW label, label # "idle", W!Begin(r, c, label)
    PROVE  /\ Moves(r) /\ pc[r] = "idle" /\ pc'[r] = label /\ call'[r] = c
           /\ held'[r] = held[r] /\ answer'[r] = answer[r]
BY DEF W!Begin, Framed, Moves


TeamKinds == {"addToTeam", "removeFromTeam"}
RoleKinds == {"assignRole", "removeRole"}
WorkLabels == {"workspace", "insertWorkspace", "writeWorkspace", "deleteWorkspace", "insertProject",
               "insertMember", "project", "writeProject", "deleteProject", "team", "owner", "manages",
               "user", "existing", "insertTeamMember", "deleteTeamMember",
               "role", "upsertRole", "deleteRole", "roles", "userRole", "permissions"}

\* Where a request is says what it was called with.
PlacedWork(r) ==
    /\ pc[r] = "idle" => call[r] = NoCall
    /\ pc[r] # "idle" => call[r] \in WorkplaceCalls
    /\ pc[r] # "done" => answer[r] = "none"
    /\ pc[r] = "insertWorkspace" => call[r].kind = "createWorkspace"
    /\ pc[r] = "workspace" => call[r].kind \in {"updateWorkspace", "removeWorkspace", "createProject"}
    /\ pc[r] = "writeWorkspace" => call[r].kind = "updateWorkspace"
    /\ pc[r] = "deleteWorkspace" => call[r].kind = "removeWorkspace"
    /\ pc[r] \in {"insertProject", "insertMember"} => call[r].kind = "createProject"
    /\ pc[r] \in {"project", "writeProject", "deleteProject"} => call[r].kind \in {"updateProject", "removeProject"}
    /\ pc[r] \in {"team", "owner", "manages"} => call[r].kind \in TeamKinds
    /\ pc[r] \in {"user", "existing", "insertTeamMember"} => call[r].kind = "addToTeam"
    /\ pc[r] = "deleteTeamMember" => call[r].kind = "removeFromTeam"
    /\ pc[r] \in {"role", "upsertRole", "deleteRole"} => call[r].kind \in RoleKinds
    /\ pc[r] \in {"upsertRole", "deleteRole"} => call[r].role # None
    /\ pc[r] \in {"roles", "userRole"} => call[r].kind = "rolesGuard"
    /\ pc[r] = "permissions" => call[r].kind = "permissionsGuard"

WorkTyped == W!TypeOK /\ Framed /\ \A r \in Requests : PlacedWork(r)

WorkStep(r) ==
    \/ W!Start(r) \/ W!InsertWorkspace(r) \/ W!FindWorkspace(r) \/ W!WriteWorkspace(r) \/ W!DeleteWorkspace(r)
    \/ W!InsertProject(r) \/ W!InsertMember(r) \/ W!FindProject(r) \/ W!WriteProject(r) \/ W!DeleteProject(r)
    \/ W!FindTeam(r) \/ W!CheckOwner(r) \/ W!CheckManager(r) \/ W!FindUser(r) \/ W!FindExisting(r)
    \/ W!InsertTeamMember(r) \/ W!DeleteTeamMember(r)
    \/ W!FindRole(r) \/ W!WriteRole(r) \/ W!FindRoles(r) \/ W!FindUserRole(r) \/ W!CheckPermissions(r)

LEMMA WorkCallFields ==
    ASSUME NEW c \in WorkplaceCalls
    PROVE  /\ c.kind \in {"createWorkspace", "updateWorkspace", "removeWorkspace", "createProject",
                          "updateProject", "removeProject", "rolesGuard", "permissionsGuard"}
                            \cup TeamKinds \cup RoleKinds
           /\ c.kind \in {"createWorkspace", "updateWorkspace", "removeWorkspace", "createProject"} =>
                 c.workspace \in Workspaces /\ c.by \in Users
           /\ c.kind \in {"createProject", "updateProject", "removeProject"} => c.project \in Projects
           /\ c.kind \in TeamKinds => c.team \in Teams /\ c.user \in Users
           /\ c.kind \in RoleKinds => c.user \in Users /\ c.role \in DOMAIN Grants \cup {None}
BY PartsAssumption
   DEF W!WorkplaceAssumption, W!CreateWorkspaceCall, W!WorkspaceCall, W!CreateProjectCall, W!ProjectCall,
       W!TeamCall, W!RoleCall, W!GuardCall, TeamKinds, RoleKinds

LEMMA WorkTypedInit == W!Init => WorkTyped
<1> SUFFICES ASSUME W!Init PROVE WorkTyped
  OBVIOUS
<1>1. /\ \A p \in DOMAIN SeedProjects : SeedProjects[p] \in W!Project /\ SeedProjects[p].manager \in Users
      /\ DOMAIN SeedProjects \subseteq Projects
  BY PartsAssumption DEF W!WorkplaceAssumption, W!Project
<1>2. /\ owners \in [Workspaces -> Users \cup {None}]
      /\ projects \in [Projects -> W!Project \cup {None}]
  BY <1>1, PartsAssumption DEF W!Init, W!WorkplaceAssumption
<1>3. members \subseteq Projects \X Users
  BY <1>1 DEF W!Init
<1>4. teams \subseteq Teams /\ teamMembers = {} /\ userRoles = {} /\ joins \in [Teams \X Users -> Nat]
  BY DEF W!Init
<1>5. W!Handling(WorkLabels, WorkplaceCalls, {"refused"}) /\ Framed /\ \A r \in Requests : PlacedWork(r)
  BY DEF W!Init, W!HandlersInit, W!Handling, Framed, PlacedWork, W!NoCall, NoCall
<1> QED BY <1>2, <1>3, <1>4, <1>5 DEF WorkTyped, W!TypeOK, WorkLabels

\* What the handler of a request does next.
WorkGoesOn(r) ==
    LET c == call[r]
    IN  \/ /\ pc[r] = "idle" /\ call'[r] \in WorkplaceCalls /\ W!FreshId(call'[r])
           /\ answer'[r] = answer[r]
           /\ \/ pc'[r] = "insertWorkspace" /\ call'[r].kind = "createWorkspace"
              \/ pc'[r] = "workspace" /\ call'[r].kind \in {"updateWorkspace", "removeWorkspace", "createProject"}
              \/ pc'[r] = "project" /\ call'[r].kind \in {"updateProject", "removeProject"}
              \/ pc'[r] = "team" /\ call'[r].kind \in TeamKinds
              \/ pc'[r] = "role" /\ call'[r].kind \in RoleKinds
              \/ pc'[r] = "roles" /\ call'[r].kind = "rolesGuard"
              \/ pc'[r] = "permissions" /\ call'[r].kind = "permissionsGuard"
        \/ /\ pc[r] \notin {"idle", "done"} /\ pc'[r] = "done"
           /\ answer'[r] \in {"ok", "error", "notFound", "forbidden", "refused"}
        \/ /\ answer'[r] = answer[r]
           /\ \/ pc[r] = "workspace" /\ pc'[r] = "insertProject" /\ c.kind = "createProject"
                   /\ owners[c.workspace] = c.by /\ c.by # None
              \/ pc[r] = "workspace" /\ pc'[r] = "writeWorkspace" /\ c.kind = "updateWorkspace"
              \/ pc[r] = "workspace" /\ pc'[r] = "deleteWorkspace" /\ c.kind = "removeWorkspace"
              \/ pc[r] = "insertProject" /\ pc'[r] = "insertMember"
              \/ pc[r] = "project" /\ pc'[r] \in {"writeProject", "deleteProject"}
              \/ pc[r] = "team" /\ pc'[r] = "owner"
              \/ pc[r] = "owner" /\ pc'[r] = "manages"
              \/ pc[r] \in {"owner", "manages"} /\ pc'[r] = "user" /\ c.kind = "addToTeam"
              \/ pc[r] \in {"owner", "manages"} /\ pc'[r] = "deleteTeamMember" /\ c.kind = "removeFromTeam"
              \/ pc[r] = "user" /\ pc'[r] = "existing"
              \/ pc[r] = "existing" /\ pc'[r] = "insertTeamMember"
              \/ pc[r] = "role" /\ pc'[r] \in {"upsertRole", "deleteRole"} /\ c.role # None
              \/ pc[r] = "roles" /\ pc'[r] = "userRole"

LEMMA WorkMoves ==
    ASSUME WorkTyped, NEW r \in Requests, WorkStep(r)
    PROVE  Moves(r) /\ WorkGoesOn(r)
<1>0. Framed /\ PlacedWork(r)
  BY DEF WorkTyped
<1> USE <1>0, WorkContinues, WorkGoes, WorkReplies DEF W!Fails
<1>1. CASE W!Start(r)
  <2>1. PICK kinds, label : /\ W!StartWith(r, kinds, label)
                            /\ \/ kinds = {"createWorkspace"} /\ label = "insertWorkspace"
                               \/ /\ kinds = {"updateWorkspace", "removeWorkspace", "createProject"}
                                  /\ label = "workspace"
                               \/ kinds = {"updateProject", "removeProject"} /\ label = "project"
                               \/ kinds = TeamKinds /\ label = "team"
                               \/ kinds = RoleKinds /\ label = "role"
                               \/ kinds = {"rolesGuard"} /\ label = "roles"
                               \/ kinds = {"permissionsGuard"} /\ label = "permissions"
    BY <1>1 DEF W!Start, TeamKinds, RoleKinds
  <2>2. PICK c \in WorkplaceCalls : c.kind \in kinds /\ W!FreshId(c) /\ W!Begin(r, c, label)
    BY <2>1 DEF W!StartWith
  <2>3. /\ Moves(r) /\ pc[r] = "idle" /\ pc'[r] = label /\ call'[r] = c /\ answer'[r] = answer[r]
    BY <2>1, <2>2, WorkBegins
  <2> QED BY <2>1, <2>2, <2>3 DEF WorkGoesOn
<1>2. CASE W!FindWorkspace(r)
  <2>1. /\ pc[r] = "workspace"
        /\ call[r].kind \in {"updateWorkspace", "removeWorkspace", "createProject"}
    BY <1>2 DEF W!FindWorkspace, PlacedWork
  <2>2. \/ \E what \in {"notFound", "forbidden"} : W!Reply(r, what)
        \/ /\ owners[call[r].workspace] = call[r].by /\ call[r].by # None
           /\ \/ call[r].kind = "createProject" /\ W!Goto(r, "insertProject")
              \/ call[r].kind = "updateWorkspace" /\ W!Goto(r, "writeWorkspace")
              \/ call[r].kind = "removeWorkspace" /\ W!Goto(r, "deleteWorkspace")
    BY <1>2, <2>1 DEF W!FindWorkspace, W!Kind
  <2> QED BY <2>1, <2>2 DEF WorkGoesOn
<1>3. CASE W!InsertWorkspace(r) \/ W!WriteWorkspace(r) \/ W!DeleteWorkspace(r)
  BY <1>3 DEF W!InsertWorkspace, W!WriteWorkspace, W!DeleteWorkspace, WorkGoesOn
<1>4. CASE W!InsertProject(r) \/ W!InsertMember(r)
  BY <1>4 DEF W!InsertProject, W!InsertMember, WorkGoesOn
<1>5. CASE W!FindProject(r)
  BY <1>5 DEF W!FindProject, WorkGoesOn
<1>6. CASE W!WriteProject(r) \/ W!DeleteProject(r)
  BY <1>6 DEF W!WriteProject, W!DeleteProject, WorkGoesOn
<1>7. CASE W!FindTeam(r) \/ W!FindUser(r) \/ W!FindExisting(r)
  BY <1>7 DEF W!FindTeam, W!FindUser, W!FindExisting, WorkGoesOn
<1>8. CASE W!CheckOwner(r) \/ W!CheckManager(r)
  <2>1. /\ pc[r] \in {"owner", "manages"} /\ call[r].kind \in TeamKinds
        /\ \/ W!Reply(r, "forbidden") \/ W!Permitted(r)
           \/ pc[r] = "owner" /\ W!Goto(r, "manages")
    BY <1>8 DEF W!CheckOwner, W!CheckManager, PlacedWork
  <2> QED BY <2>1 DEF W!Permitted, W!Kind, WorkGoesOn, TeamKinds
<1>9. CASE W!InsertTeamMember(r) \/ W!DeleteTeamMember(r)
  BY <1>9 DEF W!InsertTeamMember, W!DeleteTeamMember, WorkGoesOn
<1>10. CASE W!FindRole(r)
  BY <1>10 DEF W!FindRole, WorkGoesOn
<1>11. CASE W!WriteRole(r)
  BY <1>11 DEF W!WriteRole, WorkGoesOn
<1>12. CASE W!FindRoles(r) \/ W!FindUserRole(r)
  BY <1>12 DEF W!FindRoles, W!FindUserRole, WorkGoesOn
<1>13. CASE W!CheckPermissions(r)
  <2>1. pc[r] = "permissions" /\ \E what \in {"ok", "forbidden"} : W!Reply(r, what)
    BY <1>13, Zenon DEF W!CheckPermissions
  <2> QED BY <2>1 DEF WorkGoesOn
<1> QED BY <1>1, <1>2, <1>3, <1>4, <1>5, <1>6, <1>7, <1>8, <1>9, <1>10, <1>11, <1>12, <1>13
        DEF WorkStep

LEMMA WorkPlaced ==
    ASSUME WorkTyped, NEW r \in Requests, WorkStep(r)
    PROVE  Framed' /\ \A q \in Requests : PlacedWork(q)'
<1>1. Moves(r) /\ WorkGoesOn(r) /\ PlacedWork(r)
  BY WorkMoves DEF WorkTyped
<1>2. PlacedWork(r)'
  BY <1>1 DEF Moves, WorkGoesOn, PlacedWork, TeamKinds, RoleKinds
<1>3. ASSUME NEW q \in Requests \ {r} PROVE PlacedWork(q)'
  BY <1>1 DEF Moves, WorkTyped, PlacedWork
<1> QED BY <1>1, <1>2, <1>3 DEF Moves

-----------------------------------------------------------------------------
(***************************************************************************)
(* Workplace: what a step does to the tables                               *)
(***************************************************************************)

ProjectTable == [Projects -> W!Project \cup {None}]
OwnerTable == [Workspaces -> Users \cup {None}]

\* No row and no user is None.
LEMMA NoneNoWork == None \notin W!Project /\ None \notin Users
BY PartsAssumption DEF W!WorkplaceAssumption

WorkReads(r) ==
    \/ W!Start(r) \/ W!FindWorkspace(r) \/ W!WriteWorkspace(r) \/ W!FindProject(r) \/ W!WriteProject(r)
    \/ W!FindTeam(r) \/ W!CheckOwner(r) \/ W!CheckManager(r) \/ W!FindUser(r) \/ W!FindExisting(r)
    \/ W!FindRole(r) \/ W!FindRoles(r) \/ W!FindUserRole(r) \/ W!CheckPermissions(r)

LEMMA WorkReading ==
    ASSUME NEW r \in Requests, WorkReads(r)
    PROVE  UNCHANGED <<owners, projects, members, teams, teamMembers, userRoles, joins>>
<1>1. UNCHANGED <<W!tables, joins>>
  BY Zenon DEF WorkReads, W!Start, W!StartWith, W!FindWorkspace, W!WriteWorkspace, W!FindProject,
     W!WriteProject, W!FindTeam, W!CheckOwner, W!CheckManager, W!FindUser, W!FindExisting,
     W!FindRole, W!FindRoles, W!FindUserRole, W!CheckPermissions
<1> QED BY <1>1 DEF W!tables

LEMMA WorkspaceStored ==
    ASSUME WorkTyped, NEW r \in Requests, W!InsertWorkspace(r)
    PROVE  LET w == call[r].workspace
           IN  /\ pc[r] = "insertWorkspace" /\ pc'[r] = "done" /\ call[r].kind = "createWorkspace"
               /\ w \in Workspaces /\ owners' \in OwnerTable
               /\ \A v \in Workspaces \ {w} : owners'[v] = owners[v]
               /\ UNCHANGED <<projects, members, teams, teamMembers, userRoles, joins>>
<1>1. pc[r] = "insertWorkspace" /\ call[r] \in WorkplaceCalls /\ call[r].kind = "createWorkspace" /\ Framed
  BY DEF W!InsertWorkspace, WorkTyped, PlacedWork
<1>2. call[r].workspace \in Workspaces /\ call[r].by \in Users
  BY <1>1, WorkCallFields
<1>3. pc'[r] = "done"
  BY <1>1, WorkReplies DEF W!InsertWorkspace
<1> QED BY <1>1, <1>2, <1>3 DEF W!InsertWorkspace, WorkTyped, W!TypeOK, OwnerTable

LEMMA WorkspaceDropped ==
    ASSUME WorkTyped, NEW r \in Requests, W!DeleteWorkspace(r)
    PROVE  \/ UNCHANGED <<owners, projects, members, teams, teamMembers, userRoles, joins>>
           \/ LET w == call[r].workspace
              IN  /\ w \in Workspaces /\ owners' \in OwnerTable /\ owners'[w] = None
                  /\ \A v \in Workspaces \ {w} : owners'[v] = owners[v]
                  /\ projects' \in ProjectTable
                  /\ \A p \in Projects :
                        projects'[p] = IF projects[p] # None /\ projects[p].workspace = w THEN None
                                       ELSE projects[p]
                  /\ \A m \in members : projects'[m[1]] = projects[m[1]] => m \in members'
                  /\ members' \subseteq members
                  /\ teams' = {t \in teams : TeamWorkspace[t] # w}
                  /\ teamMembers' = {m \in teamMembers : TeamWorkspace[m[1]] # w}
                  /\ UNCHANGED <<userRoles, joins>>
<1> DEFINE w == call[r].workspace
           gone == {p \in W!Live : projects[p].workspace = w}
<1>1. pc[r] = "deleteWorkspace" /\ call[r] \in WorkplaceCalls /\ call[r].kind = "removeWorkspace"
  BY DEF W!DeleteWorkspace, WorkTyped, PlacedWork
<1>2. w \in Workspaces
  BY <1>1, WorkCallFields
<1>3. CASE owners[w] = None
  BY <1>3 DEF W!DeleteWorkspace, W!tables
<1>4. CASE owners[w] # None
  <2>1. /\ owners' = [owners EXCEPT ![w] = None]
        /\ projects' = [p \in Projects |-> IF p \in gone THEN None ELSE projects[p]]
        /\ members' = {m \in members : m[1] \notin gone}
        /\ teams' = {t \in teams : TeamWorkspace[t] # w}
        /\ teamMembers' = {m \in teamMembers : TeamWorkspace[m[1]] # w}
        /\ UNCHANGED <<userRoles, joins>>
    BY <1>4 DEF W!DeleteWorkspace
  <2>2. owners \in OwnerTable /\ projects \in ProjectTable /\ members \subseteq Projects \X Users
    BY DEF WorkTyped, W!TypeOK, OwnerTable, ProjectTable
  <2>3. \A p \in Projects : p \in gone <=> projects[p] # None /\ projects[p].workspace = w
    BY DEF W!Live
  <2> HIDE DEF gone
  <2>4. /\ owners' \in OwnerTable /\ owners'[w] = None
        /\ \A v \in Workspaces \ {w} : owners'[v] = owners[v]
    BY <1>2, <2>1, <2>2 DEF OwnerTable
  <2>5. /\ projects' \in ProjectTable
        /\ \A p \in Projects :
              projects'[p] = IF projects[p] # None /\ projects[p].workspace = w THEN None ELSE projects[p]
    BY <2>1, <2>2, <2>3 DEF ProjectTable
  <2>6. \A m \in members : projects'[m[1]] = projects[m[1]] => m \in members'
    BY <2>1, <2>2, <2>3, <2>5
  <2> QED BY <1>2, <2>1, <2>4, <2>5, <2>6
<1> QED BY <1>3, <1>4

LEMMA ProjectStored ==
    ASSUME WorkTyped, NEW r \in Requests, W!InsertProject(r)
    PROVE  LET x == call[r].project
           IN  /\ pc[r] = "insertProject" /\ call[r].kind = "createProject" /\ x \in Projects
               /\ UNCHANGED <<owners, members, teams, teamMembers, userRoles, joins>>
               /\ \/ UNCHANGED projects /\ pc'[r] = "done"
                  \/ /\ owners[call[r].workspace] # None /\ pc'[r] = "insertMember"
                     /\ projects' \in ProjectTable /\ projects'[x] # None
                     /\ projects'[x].workspace = call[r].workspace /\ projects'[x].manager = call[r].by
                     /\ \A p \in Projects \ {x} : projects'[p] = projects[p]
<1> DEFINE x == call[r].project
           row == [workspace |-> call[r].workspace, manager |-> call[r].by]
<1>1. pc[r] = "insertProject" /\ call[r] \in WorkplaceCalls /\ call[r].kind = "createProject" /\ Framed
  BY DEF W!InsertProject, WorkTyped, PlacedWork
<1>2. x \in Projects /\ row \in W!Project
  BY <1>1, WorkCallFields DEF W!Project
<1>3. UNCHANGED <<owners, members, teams, teamMembers, userRoles, joins>>
  BY DEF W!InsertProject
<1>4. \/ UNCHANGED projects /\ W!Reply(r, "error")
      \/ /\ owners[call[r].workspace] # None
         /\ projects' = [projects EXCEPT ![x] = row] /\ W!Goto(r, "insertMember")
  BY DEF W!InsertProject, W!Fails
<1>5. row.workspace = call[r].workspace /\ row.manager = call[r].by
  OBVIOUS
<1> HIDE DEF row
<1>6. CASE UNCHANGED projects /\ W!Reply(r, "error")
  BY <1>1, <1>2, <1>3, <1>6, WorkReplies
<1>7. CASE /\ owners[call[r].workspace] # None
           /\ projects' = [projects EXCEPT ![x] = row] /\ W!Goto(r, "insertMember")
  <2>1. projects' \in ProjectTable /\ projects'[x] = row /\ row # None
        /\ \A p \in Projects \ {x} : projects'[p] = projects[p]
    BY <1>2, <1>7, NoneNoWork DEF WorkTyped, W!TypeOK, ProjectTable
  <2>2. pc'[r] = "insertMember"
    BY <1>1, <1>7, WorkGoes
  <2> QED BY <1>1, <1>2, <1>3, <1>5, <1>7, <2>1, <2>2
<1> QED BY <1>4, <1>6, <1>7

LEMMA MemberStored ==
    ASSUME WorkTyped, NEW r \in Requests, W!InsertMember(r)
    PROVE  LET x == call[r].project
           IN  /\ pc[r] = "insertMember" /\ pc'[r] = "done" /\ call[r].kind = "createProject"
               /\ x \in Projects /\ call[r].by \in Users
               /\ UNCHANGED <<owners, projects, teams, teamMembers, userRoles, joins>>
               /\ \/ answer'[r] = "error" /\ UNCHANGED members
                  \/ members' = members \cup {<<x, call[r].by>>}
<1>1. pc[r] = "insertMember" /\ call[r] \in WorkplaceCalls /\ call[r].kind = "createProject" /\ Framed
  BY DEF W!InsertMember, WorkTyped, PlacedWork
<1>2. call[r].project \in Projects /\ call[r].by \in Users
  BY <1>1, WorkCallFields
<1>3. \/ W!Reply(r, "error") /\ UNCHANGED members
      \/ W!Reply(r, "ok") /\ members' = members \cup {<<call[r].project, call[r].by>>}
  BY DEF W!InsertMember, W!Fails
<1> QED BY <1>1, <1>2, <1>3, WorkReplies DEF W!InsertMember

LEMMA ProjectDropped ==
    ASSUME WorkTyped, NEW r \in Requests, W!DeleteProject(r)
    PROVE  /\ UNCHANGED <<owners, teams, teamMembers, userRoles, joins>>
           /\ projects' \in ProjectTable /\ members' \subseteq members
           /\ \A p \in Projects : projects'[p] \in {projects[p], None}
           /\ \A m \in members : projects'[m[1]] # None => m \in members'
<1>1. pc[r] = "deleteProject" /\ call[r] \in WorkplaceCalls
      /\ call[r].kind \in {"updateProject", "removeProject"}
  BY DEF W!DeleteProject, WorkTyped, PlacedWork
<1>2. call[r].project \in Projects
  BY <1>1, WorkCallFields
<1>3. UNCHANGED <<owners, teams, teamMembers, userRoles, joins>>
  BY DEF W!DeleteProject
<1>4. \/ UNCHANGED <<projects, members>>
      \/ /\ projects' = [projects EXCEPT ![call[r].project] = None]
         /\ members' = {m \in members : m[1] # call[r].project}
  BY DEF W!DeleteProject
<1>5. projects \in ProjectTable /\ members \subseteq Projects \X Users
  BY DEF WorkTyped, W!TypeOK, ProjectTable
<1> QED BY <1>2, <1>3, <1>4, <1>5 DEF ProjectTable

LEMMA TeamChanged ==
    ASSUME WorkTyped, NEW r \in Requests, W!InsertTeamMember(r) \/ W!DeleteTeamMember(r)
    PROVE  LET m == <<call[r].team, call[r].user>>
           IN  /\ m \in Teams \X Users
               /\ UNCHANGED <<owners, projects, members, teams, userRoles>>
               /\ \/ UNCHANGED <<teamMembers, joins>>
                  \/ /\ m \notin teamMembers /\ call[r].team \in teams
                     /\ teamMembers' = teamMembers \cup {m} /\ joins' = [joins EXCEPT ![m] = joins[m] + 1]
                  \/ /\ m \in teamMembers
                     /\ teamMembers' = teamMembers \ {m} /\ joins' = [joins EXCEPT ![m] = joins[m] - 1]
<1>1. call[r] \in WorkplaceCalls /\ call[r].kind \in TeamKinds
  BY DEF W!InsertTeamMember, W!DeleteTeamMember, WorkTyped, PlacedWork, TeamKinds
<1>2. call[r].team \in Teams /\ call[r].user \in Users
  BY <1>1, WorkCallFields
<1>3. joins \in [Teams \X Users -> Nat]
  BY DEF WorkTyped, W!TypeOK
<1>4. CASE W!InsertTeamMember(r)
  BY <1>2, <1>3, <1>4 DEF W!InsertTeamMember, W!Collides, W!Membership
<1>5. CASE W!DeleteTeamMember(r)
  BY <1>2, <1>3, <1>5 DEF W!DeleteTeamMember, W!Membership
<1> QED BY <1>4, <1>5

LEMMA RoleWritten ==
    ASSUME WorkTyped, NEW r \in Requests, W!WriteRole(r)
    PROVE  userRoles' \subseteq Users \X W!Roles
           /\ UNCHANGED <<owners, projects, members, teams, teamMembers, joins>>
<1>1. call[r] \in WorkplaceCalls /\ call[r].kind \in RoleKinds /\ call[r].role # None
  BY DEF W!WriteRole, WorkTyped, PlacedWork
<1>2. call[r].user \in Users /\ call[r].role \in W!Roles
  BY <1>1, WorkCallFields DEF W!Roles
<1> QED BY <1>2 DEF W!WriteRole, WorkTyped, W!TypeOK

-----------------------------------------------------------------------------
(***************************************************************************)
(* Workplace: ids, owners and managers                                     *)
(***************************************************************************)

WorkspaceBorn(w) ==
    \/ w \in DOMAIN Owners
    \/ \E q \in Requests : call[q].kind = "createWorkspace" /\ call[q].workspace = w /\ pc[q] = "done"

\* An id names one row; what there is was there at first or was stored.
WorkBorn ==
    /\ \A p, q \in Requests :
          call[p].kind = "createWorkspace" /\ call[q].kind = "createWorkspace"
          /\ call[p].workspace = call[q].workspace => p = q
    /\ \A p, q \in Requests :
          call[p].kind = "createProject" /\ call[q].kind = "createProject"
          /\ call[p].project = call[q].project => p = q
    /\ \A q \in Requests : call[q].kind = "createWorkspace" => call[q].workspace \notin DOMAIN Owners
    /\ \A q \in Requests : call[q].kind = "createProject" => call[q].project \notin DOMAIN SeedProjects
    /\ \A w \in Workspaces : owners[w] # None => WorkspaceBorn(w)
    /\ \A p \in Projects : projects[p] # None =>
          \/ p \in DOMAIN SeedProjects
          \/ \E q \in Requests : /\ call[q].kind = "createProject" /\ call[q].project = p
                                 /\ pc[q] \in {"insertMember", "done"}

\* Who is about to create a project owns the workspace, or it is gone.
OwnersStand ==
    \A q \in Requests : pc[q] = "insertProject" =>
        /\ WorkspaceBorn(call[q].workspace)
        /\ owners[call[q].workspace] \in {None, call[q].by}

\* The member about to be stored is the manager.
MemberDue ==
    \A q \in Requests :
        pc[q] = "insertMember" /\ projects[call[q].project] # None =>
            projects[call[q].project].manager = call[q].by

WorkInv ==
    /\ WorkTyped /\ WorkBorn /\ OwnersStand /\ MemberDue
    /\ W!ManagersAreMembers /\ W!ManagersOwn /\ W!MembershipFollowsAnswers

LEMMA WorkInit == W!Init => WorkInv
<1> SUFFICES ASSUME W!Init PROVE WorkInv
  OBVIOUS
<1>1. WorkTyped
  BY WorkTypedInit
<1>2. \A q \in Requests : pc[q] = "idle" /\ call[q].kind = "none"
  BY DEF W!Init, W!HandlersInit, W!NoCall
<1>3. /\ \A w \in Workspaces : owners[w] # None => w \in DOMAIN Owners /\ owners[w] = Owners[w]
      /\ \A w \in DOMAIN Owners : w \in Workspaces /\ owners[w] = Owners[w]
      /\ \A p \in Projects : projects[p] # None => p \in DOMAIN SeedProjects /\ projects[p] = SeedProjects[p]
  BY PartsAssumption DEF W!Init, W!WorkplaceAssumption
<1>4. WorkBorn /\ OwnersStand /\ MemberDue
  BY <1>2, <1>3 DEF WorkBorn, OwnersStand, MemberDue, WorkspaceBorn
<1>5. W!ManagersAreMembers
  BY <1>3 DEF W!ManagersAreMembers, W!Live, W!Init
<1>6. W!ManagersOwn
  <2> SUFFICES ASSUME NEW p \in Projects, projects[p] # None
               PROVE  projects[p].manager = owners[projects[p].workspace]
    BY DEF W!ManagersOwn, W!Live
  <2>1. /\ SeedProjects[p].workspace \in DOMAIN Owners
        /\ SeedProjects[p].manager = Owners[SeedProjects[p].workspace]
    BY <1>3, PartsAssumption DEF W!WorkplaceAssumption
  <2> QED BY <1>3, <2>1
<1>7. W!MembershipFollowsAnswers
  BY DEF W!MembershipFollowsAnswers, W!Init
<1> QED BY <1>1, <1>4, <1>5, <1>6, <1>7 DEF WorkInv

LEMMA WorkspaceFresh ==
    ASSUME WorkInv, NEW r \in Requests, pc[r] = "insertWorkspace"
    PROVE  /\ call[r].workspace \in Workspaces /\ call[r].kind = "createWorkspace"
           /\ owners[call[r].workspace] = None /\ ~WorkspaceBorn(call[r].workspace)
<1>1. call[r] \in WorkplaceCalls /\ call[r].kind = "createWorkspace"
  BY DEF WorkInv, WorkTyped, PlacedWork
<1>2. call[r].workspace \in Workspaces
  BY <1>1, WorkCallFields
<1>3. ASSUME NEW q \in Requests, call[q].kind = "createWorkspace", call[q].workspace = call[r].workspace
      PROVE  q = r
  BY <1>1, <1>3 DEF WorkInv, WorkBorn
<1>4. ~WorkspaceBorn(call[r].workspace)
  BY <1>1, <1>3 DEF WorkspaceBorn, WorkInv, WorkBorn
<1> QED BY <1>1, <1>2, <1>4 DEF WorkInv, WorkBorn

LEMMA ProjectFresh ==
    ASSUME WorkInv, NEW r \in Requests, pc[r] = "insertProject"
    PROVE  /\ call[r].project \in Projects /\ call[r].kind = "createProject"
           /\ projects[call[r].project] = None
<1>1. call[r] \in WorkplaceCalls /\ call[r].kind = "createProject"
  BY DEF WorkInv, WorkTyped, PlacedWork
<1>2. call[r].project \in Projects
  BY <1>1, WorkCallFields
<1>3. ASSUME NEW q \in Requests, call[q].kind = "createProject", call[q].project = call[r].project
      PROVE  q = r
  BY <1>1, <1>3 DEF WorkInv, WorkBorn
<1> QED BY <1>1, <1>2, <1>3 DEF WorkInv, WorkBorn

\* Steps that leave workspaces, projects and their members alone.
LEMMA WorkRests ==
    ASSUME WorkTyped, NEW r \in Requests,
           WorkReads(r) \/ W!InsertTeamMember(r) \/ W!DeleteTeamMember(r) \/ W!WriteRole(r)
    PROVE  UNCHANGED <<owners, projects, members>>
BY WorkReading, TeamChanged, RoleWritten

LEMMA WorkTypedStep ==
    ASSUME WorkInv, NEW r \in Requests, WorkStep(r)
    PROVE  WorkTyped'
<1>0. WorkTyped /\ W!MembershipFollowsAnswers
  BY DEF WorkInv
<1>1. Moves(r) /\ WorkGoesOn(r) /\ Framed' /\ \A q \in Requests : PlacedWork(q)'
  BY <1>0, WorkMoves, WorkPlaced
<1> DEFINE Tables == /\ owners \in OwnerTable /\ projects \in ProjectTable
                     /\ members \subseteq Projects \X Users
                     /\ teams \subseteq Teams /\ teamMembers \subseteq teams \X Users
                     /\ userRoles \subseteq Users \X W!Roles /\ joins \in [Teams \X Users -> Nat]
<1>2. Tables
  BY <1>0 DEF WorkTyped, W!TypeOK, OwnerTable, ProjectTable
<1>3. Tables'
  <2>1. CASE WorkReads(r)
    BY <1>2, <2>1, WorkReading
  <2>2. CASE W!InsertWorkspace(r)
    BY <1>0, <1>2, <2>2, WorkspaceStored
  <2>3. CASE W!DeleteWorkspace(r)
    <3>1. CASE UNCHANGED <<owners, projects, members, teams, teamMembers, userRoles, joins>>
      BY <1>2, <3>1
    <3>2. CASE ~UNCHANGED <<owners, projects, members, teams, teamMembers, userRoles, joins>>
      <4>1. /\ owners' \in OwnerTable /\ projects' \in ProjectTable /\ members' \subseteq members
            /\ teams' = {t \in teams : TeamWorkspace[t] # call[r].workspace}
            /\ teamMembers' = {m \in teamMembers : TeamWorkspace[m[1]] # call[r].workspace}
            /\ UNCHANGED <<userRoles, joins>>
        BY <1>0, <2>3, <3>2, WorkspaceDropped
      <4>2. teamMembers' \subseteq teams' \X Users
        BY <1>2, <4>1
      <4> QED BY <1>2, <4>1, <4>2
    <3> QED BY <3>1, <3>2
  <2>4. CASE W!InsertProject(r)
    BY <1>0, <1>2, <2>4, ProjectStored
  <2>5. CASE W!InsertMember(r)
    BY <1>0, <1>2, <2>5, MemberStored
  <2>6. CASE W!DeleteProject(r)
    BY <1>0, <1>2, <2>6, ProjectDropped
  <2>7. CASE W!InsertTeamMember(r) \/ W!DeleteTeamMember(r)
    <3> DEFINE m == <<call[r].team, call[r].user>>
    <3>1. m \in Teams \X Users /\ m \in teamMembers => joins[m] = 1
      BY <1>0, <1>2, <2>7, TeamChanged DEF W!MembershipFollowsAnswers
    <3>2. /\ UNCHANGED <<owners, projects, members, teams, userRoles>>
          /\ \/ UNCHANGED <<teamMembers, joins>>
             \/ /\ m \notin teamMembers /\ call[r].team \in teams
                /\ teamMembers' = teamMembers \cup {m} /\ joins' = [joins EXCEPT ![m] = joins[m] + 1]
             \/ /\ m \in teamMembers
                /\ teamMembers' = teamMembers \ {m} /\ joins' = [joins EXCEPT ![m] = joins[m] - 1]
          /\ call[r].team \in Teams /\ call[r].user \in Users
      BY <1>0, <2>7, TeamChanged
    <3>3. joins' \in [Teams \X Users -> Nat]
      <4> HIDE DEF m
      <4>1. m \in Teams \X Users => joins[m] \in Nat /\ (m \in teamMembers => joins[m] - 1 \in Nat)
        BY <1>2, <3>1
      <4>2. m \in Teams \X Users
        BY <3>2 DEF m
      <4> QED BY <1>2, <3>2, <4>1, <4>2
    <3>4. teamMembers' \subseteq teams' \X Users
      BY <1>2, <3>2
    <3> QED BY <1>2, <3>2, <3>3, <3>4
  <2>8. CASE W!WriteRole(r)
    BY <1>0, <1>2, <2>8, RoleWritten
  <2> QED BY <2>1, <2>2, <2>3, <2>4, <2>5, <2>6, <2>7, <2>8 DEF WorkStep, WorkReads
<1>4. W!Handling(WorkLabels, WorkplaceCalls, {"refused"})'
  <2>1. pc'[r] \in {"done"} \cup WorkLabels /\ call'[r] \in WorkplaceCalls
    BY <1>1 DEF WorkGoesOn, PlacedWork, WorkLabels
  <2>2. answer'[r] \in {"none", "ok", "notFound", "forbidden", "error", "refused"}
    BY <1>0, <1>1 DEF WorkGoesOn, WorkTyped, W!TypeOK, W!Handling
  <2>3. \A q \in Requests \ {r} : pc'[q] = pc[q] /\ call'[q] = call[q] /\ answer'[q] = answer[q]
    BY <1>1 DEF Moves
  <2> QED BY <1>0, <1>1, <2>1, <2>2, <2>3 DEF WorkTyped, W!TypeOK, W!Handling, W!NoCall, Framed,
             WorkLabels
<1> QED BY <1>1, <1>3, <1>4 DEF WorkTyped, W!TypeOK, OwnerTable, ProjectTable, WorkLabels

LEMMA WorkspaceBornStays ==
    ASSUME WorkInv, NEW r \in Requests, WorkStep(r), NEW w, WorkspaceBorn(w)
    PROVE  WorkspaceBorn(w)'
<1>1. Moves(r) /\ WorkGoesOn(r)
  BY WorkMoves DEF WorkInv
<1>2. CASE w \in DOMAIN Owners
  BY <1>2 DEF WorkspaceBorn
<1>3. ASSUME NEW q \in Requests, call[q].kind = "createWorkspace", call[q].workspace = w, pc[q] = "done"
      PROVE  WorkspaceBorn(w)'
  <2>1. call'[q] = call[q] /\ pc'[q] = "done"
    BY <1>1, <1>3 DEF Moves
  <2> QED BY <1>3, <2>1 DEF WorkspaceBorn
<1> QED BY <1>2, <1>3 DEF WorkspaceBorn

\* A workspace that is there keeps its owner until it is gone for good.
LEMMA OwnersKeep ==
    ASSUME WorkInv, NEW r \in Requests, WorkStep(r), NEW w \in Workspaces, WorkspaceBorn(w)
    PROVE  owners'[w] \in {owners[w], None}
<1>1. CASE W!InsertWorkspace(r)
  <2>1. w # call[r].workspace
    BY <1>1, WorkspaceFresh DEF W!InsertWorkspace
  <2> QED BY <1>1, <2>1, WorkspaceStored DEF WorkInv
<1>2. CASE W!DeleteWorkspace(r)
  BY <1>2, WorkspaceDropped DEF WorkInv
<1>3. CASE W!InsertProject(r) \/ W!InsertMember(r) \/ W!DeleteProject(r)
  BY <1>3, ProjectStored, MemberStored, ProjectDropped DEF WorkInv
<1>4. CASE WorkReads(r) \/ W!InsertTeamMember(r) \/ W!DeleteTeamMember(r) \/ W!WriteRole(r)
  BY <1>4, WorkRests DEF WorkInv
<1> QED BY <1>1, <1>2, <1>3, <1>4 DEF WorkStep, WorkReads

\* A project there is stays as it is until it is gone.
LEMMA ProjectsKeep ==
    ASSUME WorkInv, NEW r \in Requests, WorkStep(r), NEW p \in Projects
    PROVE  \/ projects'[p] \in {projects[p], None}
           \/ /\ projects[p] = None /\ p = call[r].project /\ pc[r] = "insertProject"
              /\ pc'[r] = "insertMember" /\ call[r].kind = "createProject"
              /\ projects'[p].workspace = call[r].workspace /\ projects'[p].manager = call[r].by
              /\ owners[call[r].workspace] # None /\ UNCHANGED owners
<1>1. CASE W!InsertProject(r)
  <2>1. projects[call[r].project] = None
    BY <1>1, ProjectFresh DEF W!InsertProject
  <2> QED BY <1>1, <2>1, ProjectStored DEF WorkInv
<1>2. CASE W!DeleteWorkspace(r)
  BY <1>2, WorkspaceDropped DEF WorkInv
<1>3. CASE W!InsertWorkspace(r) \/ W!InsertMember(r) \/ W!DeleteProject(r)
  BY <1>3, WorkspaceStored, MemberStored, ProjectDropped DEF WorkInv
<1>4. CASE WorkReads(r) \/ W!InsertTeamMember(r) \/ W!DeleteTeamMember(r) \/ W!WriteRole(r)
  BY <1>4, WorkRests DEF WorkInv
<1> QED BY <1>1, <1>2, <1>3, <1>4 DEF WorkStep, WorkReads

LEMMA WorkBornStep ==
    ASSUME WorkInv, NEW r \in Requests, WorkStep(r)
    PROVE  WorkBorn'
<1>1. Moves(r) /\ WorkGoesOn(r) /\ WorkBorn /\ PlacedWork(r)
  BY WorkMoves DEF WorkInv, WorkTyped
<1>2. pc[r] # "idle" => \A q \in Requests : call'[q] = call[q]
  BY <1>1 DEF Moves
<1>3. pc[r] = "idle" => W!FreshId(call'[r])
  BY <1>1 DEF WorkGoesOn
<1>4. /\ \A p, q \in Requests :
            call'[p].kind = "createWorkspace" /\ call'[q].kind = "createWorkspace"
            /\ call'[p].workspace = call'[q].workspace => p = q
      /\ \A q \in Requests : call'[q].kind = "createWorkspace" => call'[q].workspace \notin DOMAIN Owners
  BY <1>1, <1>2, <1>3 DEF WorkBorn, Moves, W!FreshId, W!Kind
<1>5. /\ \A p, q \in Requests :
            call'[p].kind = "createProject" /\ call'[q].kind = "createProject"
            /\ call'[p].project = call'[q].project => p = q
      /\ \A q \in Requests : call'[q].kind = "createProject" => call'[q].project \notin DOMAIN SeedProjects
  BY <1>1, <1>2, <1>3 DEF WorkBorn, Moves, W!FreshId, W!Kind
<1>6. ASSUME NEW w \in Workspaces, owners'[w] # None PROVE WorkspaceBorn(w)'
  <2>1. CASE WorkspaceBorn(w)
    BY <2>1, WorkspaceBornStays
  <2>2. CASE ~WorkspaceBorn(w)
    <3>1. owners[w] = None
      BY <2>2, <1>1 DEF WorkBorn
    <3>2. W!InsertWorkspace(r)
      <4>1. CASE W!DeleteWorkspace(r)
        BY <1>6, <3>1, <4>1, WorkspaceDropped DEF WorkInv
      <4>2. CASE W!InsertProject(r) \/ W!InsertMember(r) \/ W!DeleteProject(r)
        BY <1>6, <3>1, <4>2, ProjectStored, MemberStored, ProjectDropped DEF WorkInv
      <4>3. CASE WorkReads(r) \/ W!InsertTeamMember(r) \/ W!DeleteTeamMember(r) \/ W!WriteRole(r)
        BY <1>6, <3>1, <4>3, WorkRests DEF WorkInv
      <4> QED BY <4>1, <4>2, <4>3 DEF WorkStep, WorkReads
    <3>3. w = call[r].workspace /\ call[r].kind = "createWorkspace" /\ pc'[r] = "done"
          /\ pc[r] = "insertWorkspace"
      BY <1>6, <3>1, <3>2, WorkspaceStored DEF WorkInv
    <3>4. call'[r] = call[r]
      BY <1>1, <3>3 DEF Moves
    <3> QED BY <3>3, <3>4 DEF WorkspaceBorn
  <2> QED BY <2>1, <2>2
<1>7. ASSUME NEW p \in Projects, projects'[p] # None, p \notin DOMAIN SeedProjects
      PROVE  \E q \in Requests : /\ call'[q].kind = "createProject" /\ call'[q].project = p
                                 /\ pc'[q] \in {"insertMember", "done"}
  <2>1. PICK q \in Requests : /\ call[q].kind = "createProject" /\ call[q].project = p
                              /\ \/ pc[q] \in {"insertMember", "done"}
                                 \/ q = r /\ pc[r] = "insertProject" /\ pc'[r] = "insertMember"
    BY <1>1, <1>7, ProjectsKeep DEF WorkBorn
  <2>2. call'[q] = call[q] /\ pc'[q] \in {"insertMember", "done"}
    BY <1>1, <2>1 DEF Moves, WorkGoesOn
  <2> QED BY <2>1, <2>2
<1> QED BY <1>4, <1>5, <1>6, <1>7 DEF WorkBorn

LEMMA OwnersStandStep ==
    ASSUME WorkInv, NEW r \in Requests, WorkStep(r)
    PROVE  OwnersStand'
<1>1. Moves(r) /\ WorkGoesOn(r)
  BY WorkMoves DEF WorkInv
<1> SUFFICES ASSUME NEW q \in Requests, pc'[q] = "insertProject", NEW w, w = call'[q].workspace
             PROVE  WorkspaceBorn(w)' /\ owners'[w] \in {None, call'[q].by}
  BY DEF OwnersStand, WorkspaceBorn
<1>2. call'[q] = call[q]
  BY <1>1 DEF Moves, WorkGoesOn
<1>3. w \in Workspaces /\ w = call[q].workspace
  <2>1. call'[q] \in WorkplaceCalls /\ call'[q].kind = "createProject"
    BY WorkPlaced DEF WorkInv, PlacedWork
  <2> QED BY <1>2, <2>1, WorkCallFields
<1>4. WorkspaceBorn(w) /\ owners[w] \in {None, call[q].by}
  <2>1. CASE q # r
    BY <1>1, <1>3, <2>1 DEF Moves, WorkInv, OwnersStand
  <2>2. CASE q = r
    BY <1>1, <1>3, <2>2 DEF WorkGoesOn, WorkInv, WorkBorn, OwnersStand
  <2> QED BY <2>1, <2>2
<1> QED BY <1>2, <1>3, <1>4, WorkspaceBornStays, OwnersKeep

LEMMA MemberDueStep ==
    ASSUME WorkInv, NEW r \in Requests, WorkStep(r)
    PROVE  MemberDue'
<1>1. Moves(r) /\ WorkGoesOn(r)
  BY WorkMoves DEF WorkInv
<1> SUFFICES ASSUME NEW q \in Requests, pc'[q] = "insertMember", projects'[call'[q].project] # None
             PROVE  projects'[call'[q].project].manager = call'[q].by
  BY DEF MemberDue
<1>2. call'[q] = call[q] /\ call[q].kind = "createProject" /\ call[q].project \in Projects
  <2>1. call'[q] \in WorkplaceCalls /\ call'[q].kind = "createProject"
    BY WorkPlaced DEF WorkInv, PlacedWork
  <2>2. call'[q] = call[q]
    BY <1>1 DEF Moves, WorkGoesOn
  <2> QED BY <2>1, <2>2, WorkCallFields
<1> DEFINE p == call[q].project
<1>3. CASE projects'[p] = projects[p]
  <2>1. CASE pc[q] = "insertMember"
    BY <1>2, <1>3, <2>1 DEF WorkInv, MemberDue
  <2>2. CASE pc[q] # "insertMember"
    <3>1. q = r /\ pc[r] = "insertProject"
      BY <1>1, <2>2 DEF Moves, WorkGoesOn
    <3>2. projects[p] = None
      BY <3>1, ProjectFresh
    <3> QED BY <1>2, <1>3, <3>2
  <2> QED BY <2>1, <2>2
<1>4. CASE projects'[p] # projects[p]
  <2>1. /\ p = call[r].project /\ call[r].kind = "createProject" /\ projects'[p].manager = call[r].by
    BY <1>2, <1>4, ProjectsKeep
  <2>2. q = r
    BY <1>2, <2>1 DEF WorkInv, WorkBorn
  <2> QED BY <1>2, <2>1, <2>2
<1> QED BY <1>3, <1>4

LEMMA ManagersOwnStep ==
    ASSUME WorkInv, NEW r \in Requests, WorkStep(r)
    PROVE  W!ManagersOwn'
<1> SUFFICES ASSUME NEW p \in Projects, projects'[p] # None
             PROVE  projects'[p].manager = owners'[projects'[p].workspace]
  BY DEF W!ManagersOwn, W!Live
<1>1. CASE projects'[p] # projects[p]
  <2>1. /\ pc[r] = "insertProject" /\ call[r].kind = "createProject"
        /\ projects'[p].workspace = call[r].workspace /\ projects'[p].manager = call[r].by
        /\ owners[call[r].workspace] # None /\ UNCHANGED owners
    BY <1>1, ProjectsKeep
  <2> QED BY <2>1 DEF WorkInv, OwnersStand
<1>2. CASE projects'[p] = projects[p]
  <2> DEFINE w == projects[p].workspace
  <2>1. projects[p] \in W!Project
    BY <1>2 DEF WorkInv, WorkTyped, W!TypeOK
  <2>2. w \in Workspaces /\ projects[p].manager \in Users /\ projects[p].manager = owners[w]
    BY <1>2, <2>1 DEF WorkInv, W!ManagersOwn, W!Live, W!Project
  <2>3. WorkspaceBorn(w)
    BY <2>2, NoneNoWork DEF WorkInv, WorkBorn
  <2>4. owners'[w] # None
    <3>1. CASE W!DeleteWorkspace(r)
      BY <1>2, <2>2, <3>1, NoneNoWork, WorkspaceDropped DEF WorkInv
    <3>2. CASE W!InsertWorkspace(r)
      <4>1. w # call[r].workspace
        BY <2>3, <3>2, WorkspaceFresh DEF W!InsertWorkspace
      <4> QED BY <2>2, <3>2, <4>1, NoneNoWork, WorkspaceStored DEF WorkInv
    <3>3. CASE W!InsertProject(r) \/ W!InsertMember(r) \/ W!DeleteProject(r)
      BY <2>2, <3>3, NoneNoWork, ProjectStored, MemberStored, ProjectDropped DEF WorkInv
    <3>4. CASE WorkReads(r) \/ W!InsertTeamMember(r) \/ W!DeleteTeamMember(r) \/ W!WriteRole(r)
      BY <2>2, <3>4, NoneNoWork, WorkRests DEF WorkInv
    <3> QED BY <3>1, <3>2, <3>3, <3>4 DEF WorkStep, WorkReads
  <2>5. owners'[w] = owners[w]
    BY <2>2, <2>3, <2>4, OwnersKeep
  <2> QED BY <1>2, <2>2, <2>5
<1> QED BY <1>1, <1>2

LEMMA ManagersAreMembersStep ==
    ASSUME WorkInv, NEW r \in Requests, WorkStep(r)
    PROVE  W!ManagersAreMembers'
<1>1. Moves(r) /\ WorkGoesOn(r) /\ PlacedWork(r)
  BY WorkMoves DEF WorkInv, WorkTyped
<1> SUFFICES ASSUME NEW p \in Projects, projects'[p] # None
             PROVE  \/ <<p, projects'[p].manager>> \in members'
                    \/ \E q \in Requests : /\ call'[q].kind = "createProject" /\ call'[q].project = p
                                           /\ pc'[q] = "insertMember" \/ answer'[q] = "error"
  BY DEF W!ManagersAreMembers, W!Live, W!Kind
<1>2. CASE projects'[p] # projects[p]
  <2>1. /\ p = call[r].project /\ pc[r] = "insertProject"
        /\ pc'[r] = "insertMember" /\ call[r].kind = "createProject"
    BY <1>2, ProjectsKeep
  <2>2. call'[r] = call[r]
    BY <1>1, <2>1 DEF Moves
  <2> QED BY <2>1, <2>2
<1>3. CASE projects'[p] = projects[p]
  <2> DEFINE m == <<p, projects[p].manager>>
  <2>1. CASE m \in members
    <3>1. m[1] = p
      OBVIOUS
    <3>2. m \in members'
      <4> HIDE DEF m
      <4>1. CASE W!DeleteWorkspace(r)
        BY <1>3, <2>1, <3>1, <4>1, WorkspaceDropped DEF WorkInv
      <4>2. CASE W!DeleteProject(r)
        BY <1>3, <2>1, <3>1, <4>2, ProjectDropped DEF WorkInv
      <4>3. CASE W!InsertWorkspace(r) \/ W!InsertProject(r) \/ W!InsertMember(r)
        BY <2>1, <4>3, WorkspaceStored, ProjectStored, MemberStored DEF WorkInv
      <4>4. CASE WorkReads(r) \/ W!InsertTeamMember(r) \/ W!DeleteTeamMember(r) \/ W!WriteRole(r)
        BY <2>1, <4>4, WorkRests DEF WorkInv
      <4> QED BY <4>1, <4>2, <4>3, <4>4 DEF WorkStep, WorkReads
    <3> QED BY <1>3, <3>2
  <2>2. CASE m \notin members
    <3>1. PICK q \in Requests : /\ call[q].kind = "createProject" /\ call[q].project = p
                                /\ pc[q] = "insertMember" \/ answer[q] = "error"
      BY <1>3, <2>2 DEF WorkInv, W!ManagersAreMembers, W!Live, W!Kind
    <3>2. pc[q] # "idle"
      BY <3>1 DEF WorkInv, WorkTyped, PlacedWork, NoCall
    <3>3. call'[q] = call[q]
      BY <1>1, <3>2 DEF Moves
    <3>4. CASE q # r
      BY <1>1, <3>1, <3>3, <3>4 DEF Moves
    <3>5. CASE q = r
      <4>1. pc[r] = "insertMember"
        BY <1>1, <3>1, <3>5 DEF Moves, PlacedWork
      <4>2. W!InsertMember(r)
        BY <1>1, <4>1 DEF WorkStep, WorkReads, W!Start, W!StartWith, W!Begin, W!FindWorkspace,
           W!WriteWorkspace, W!FindProject, W!WriteProject, W!FindTeam, W!CheckOwner, W!CheckManager,
           W!FindUser, W!FindExisting, W!FindRole, W!FindRoles, W!FindUserRole, W!CheckPermissions,
           W!InsertWorkspace, W!DeleteWorkspace, W!InsertProject, W!DeleteProject, W!InsertTeamMember,
           W!DeleteTeamMember, W!WriteRole
      <4>3. projects[p].manager = call[r].by
        BY <1>3, <3>1, <3>5, <4>1 DEF WorkInv, MemberDue
      <4> QED BY <1>3, <3>1, <3>3, <3>5, <4>2, <4>3, MemberStored DEF WorkInv
    <3> QED BY <3>4, <3>5
  <2> QED BY <2>1, <2>2
<1> QED BY <1>2, <1>3

LEMMA MembershipStep ==
    ASSUME WorkInv, NEW r \in Requests, WorkStep(r)
    PROVE  W!MembershipFollowsAnswers'
<1>0. WorkTyped /\ W!MembershipFollowsAnswers /\ teams \subseteq Teams /\ teamMembers \subseteq teams \X Users
      /\ joins \in [Teams \X Users -> Nat]
  BY DEF WorkInv, WorkTyped, W!TypeOK
<1>1. CASE UNCHANGED <<teams, teamMembers, joins>>
  BY <1>0, <1>1 DEF W!MembershipFollowsAnswers
<1>2. CASE W!DeleteWorkspace(r)
  <2>1. CASE ~UNCHANGED <<teams, teamMembers, joins>>
    <3>1. /\ teams' = {t \in teams : TeamWorkspace[t] # call[r].workspace}
          /\ teamMembers' = {m \in teamMembers : TeamWorkspace[m[1]] # call[r].workspace}
          /\ joins' = joins
      BY <1>0, <1>2, <2>1, WorkspaceDropped
    <3> SUFFICES ASSUME NEW m \in teams' \X Users
                 PROVE  joins'[m] = IF m \in teamMembers' THEN 1 ELSE 0
      BY DEF W!MembershipFollowsAnswers
    <3>2. m \in teams \X Users /\ (m \in teamMembers' <=> m \in teamMembers)
      BY <3>1
    <3> QED BY <1>0, <3>1, <3>2 DEF W!MembershipFollowsAnswers
  <2> QED BY <1>1, <2>1
<1>3. CASE W!InsertTeamMember(r) \/ W!DeleteTeamMember(r)
  <2> DEFINE m == <<call[r].team, call[r].user>>
  <2>1. /\ m \in Teams \X Users /\ teams' = teams
        /\ \/ UNCHANGED <<teamMembers, joins>>
           \/ /\ m \notin teamMembers /\ call[r].team \in teams
              /\ teamMembers' = teamMembers \cup {m} /\ joins' = [joins EXCEPT ![m] = joins[m] + 1]
           \/ /\ m \in teamMembers
              /\ teamMembers' = teamMembers \ {m} /\ joins' = [joins EXCEPT ![m] = joins[m] - 1]
    BY <1>0, <1>3, TeamChanged
  <2>2. call[r].team \in teams => m \in teams \X Users
    BY <2>1
  <2>3. m \in teamMembers => m \in teams \X Users
    BY <1>0
  <2> HIDE DEF m
  <2> SUFFICES ASSUME NEW n \in teams \X Users
               PROVE  joins'[n] = IF n \in teamMembers' THEN 1 ELSE 0
    BY <2>1 DEF W!MembershipFollowsAnswers
  <2>4. n \in Teams \X Users /\ joins[n] = IF n \in teamMembers THEN 1 ELSE 0
    BY <1>0 DEF W!MembershipFollowsAnswers
  <2>5. m \in teams \X Users => joins[m] = IF m \in teamMembers THEN 1 ELSE 0
    BY <1>0 DEF W!MembershipFollowsAnswers
  <2> QED BY <1>0, <2>1, <2>2, <2>3, <2>4, <2>5
<1>4. CASE W!InsertWorkspace(r) \/ W!InsertProject(r) \/ W!InsertMember(r) \/ W!DeleteProject(r) \/ W!WriteRole(r)
           \/ WorkReads(r)
  BY <1>0, <1>1, <1>4, WorkspaceStored, ProjectStored, MemberStored, ProjectDropped, RoleWritten, WorkReading
<1> QED BY <1>2, <1>3, <1>4 DEF WorkStep, WorkReads

LEMMA WorkInvStep == WorkInv /\ [W!Next]_(W!vars) => WorkInv'
<1> SUFFICES ASSUME WorkInv, [W!Next]_(W!vars) PROVE WorkInv'
  OBVIOUS
<1>1. ASSUME NEW r \in Requests, WorkStep(r) PROVE WorkInv'
  BY <1>1, WorkTypedStep, WorkBornStep, OwnersStandStep, MemberDueStep, ManagersAreMembersStep,
     ManagersOwnStep, MembershipStep DEF WorkInv
<1>2. CASE UNCHANGED W!vars
  <2>1. UNCHANGED <<pc, call, held, answer, owners, projects, members, teams, teamMembers, userRoles, joins>>
    BY <1>2 DEF W!vars, W!handlers, W!tables
  <2>2. WorkTyped'
    BY <2>1 DEF WorkInv, WorkTyped, W!TypeOK, W!Handling, Framed, PlacedWork
  <2>3. WorkBorn' /\ OwnersStand' /\ MemberDue'
    BY <2>1 DEF WorkInv, WorkBorn, OwnersStand, MemberDue, WorkspaceBorn
  <2>4. W!ManagersAreMembers' /\ W!ManagersOwn' /\ W!MembershipFollowsAnswers'
    BY <2>1 DEF WorkInv, W!ManagersAreMembers, W!ManagersOwn, W!MembershipFollowsAnswers, W!Live, W!Kind
  <2> QED BY <2>2, <2>3, <2>4 DEF WorkInv
<1> QED BY <1>1, <1>2 DEF W!Next, WorkStep

LEMMA WorkplaceBeside == MCSpec => [](part = "workplace" => WorkInv)
<1> DEFINE Here == part = "workplace" => WorkInv
<1>1. MCInit => Here
  BY WorkInit DEF MCInit
<1>2. Here /\ [MCNext]_<<part, handlers, wVars, gVars, dVars, kVars, cVars, lVars>> => Here'
  <2> SUFFICES ASSUME Here, [MCNext]_<<part, handlers, wVars, gVars, dVars, kVars, cVars, lVars>>,
                      part' = "workplace"
               PROVE  WorkInv'
    OBVIOUS
  <2>1. part = "workplace" /\ WorkInv
    BY DEF MCNext
  <2>2. [W!Next]_(W!vars)
    BY <2>1 DEF MCNext, W!vars, W!handlers, W!tables, handlers, wVars
  <2> QED BY <2>1, <2>2, WorkInvStep
<1>3. MCSpec => []Here
  <2> HIDE DEF Here
  <2> QED BY <1>1, <1>2, PTL DEF MCSpec
<1> QED BY <1>3

\* A user may do what one of his roles grants, and nothing else.
LEMMA PermissionsMerge == W!PermissionsComeFromRoles
<1> SUFFICES ASSUME NEW u \in Users, NEW x \in W!Resources, NEW a \in {"read", "write", "all"}
             PROVE  W!HasPermission(u, x, a) <=>
                       \E g \in W!RolesOf(u) : x \in DOMAIN Grants[g] /\ {a, "all"} \cap Grants[g][x] # {}
  BY DEF W!PermissionsComeFromRoles
<1> DEFINE Listed == UNION {DOMAIN Grants[g] : g \in W!RolesOf(u)}
           Granted(y) == UNION {Grants[g][y] : g \in {g \in W!RolesOf(u) : y \in DOMAIN Grants[g]}}
<1>1. W!Permissions(u) = [y \in Listed |-> Granted(y)]
  BY DEF W!Permissions
<1>2. x \in Listed <=> \E g \in W!RolesOf(u) : x \in DOMAIN Grants[g]
  OBVIOUS
<1>3. \A b : b \in Granted(x) <=> \E g \in W!RolesOf(u) : x \in DOMAIN Grants[g] /\ b \in Grants[g][x]
  OBVIOUS
<1> HIDE DEF Listed, Granted
<1>4. W!HasPermission(u, x, a) <=> x \in Listed /\ {a, "all"} \cap Granted(x) # {}
  BY <1>1 DEF W!HasPermission
<1>5. {a, "all"} \cap Granted(x) # {} <=>
         \E g \in W!RolesOf(u) : x \in DOMAIN Grants[g] /\ {a, "all"} \cap Grants[g][x] # {}
  BY <1>3
<1> QED BY <1>2, <1>4, <1>5

\* The creator of a project becomes its member, unless the second insert is
\* still to come or failed; managers own the workspace; a membership is what
\* the answers say; permissions are those of the roles (workspaces.service.ts,
\* projects.service.ts, teams.service.ts, rbac.service.ts).
THEOREM WorkplaceHolding == MCSpec => []WorkplaceHolds
<1>1. (part = "workplace" => WorkInv) => WorkplaceHolds
  BY PermissionsMerge DEF WorkplaceHolds, W!WorkplaceHolds, WorkInv
<1> QED BY <1>1, WorkplaceBeside, PTL

-----------------------------------------------------------------------------
(***************************************************************************)
(* Checklists: type correctness                                            *)
(***************************************************************************)

LEMMA ChecklistContinues ==
    ASSUME Framed, NEW r \in Requests, pc[r] \notin {"idle", "done"},
           NEW label, label # "idle", NEW what, K!Continue(r, label, what)
    PROVE  Moves(r) /\ pc'[r] = label /\ held'[r] = what /\ answer'[r] = answer[r]
BY DEF K!Continue, Framed, Moves

LEMMA ChecklistGoes ==
    ASSUME Framed, NEW r \in Requests, pc[r] \notin {"idle", "done"},
           NEW label, label # "idle", K!Goto(r, label)
    PROVE  Moves(r) /\ pc'[r] = label /\ held'[r] = held[r] /\ answer'[r] = answer[r]
BY ChecklistContinues DEF K!Goto

LEMMA ChecklistReplies ==
    ASSUME Framed, NEW r \in Requests, pc[r] \notin {"idle", "done"}, NEW what, K!Reply(r, what)
    PROVE  Moves(r) /\ pc'[r] = "done" /\ held'[r] = held[r] /\ answer'[r] = what
BY DEF K!Reply, Framed, Moves

LEMMA ChecklistBegins ==
    ASSUME Framed, NEW r \in Requests, NEW c, NEW label, label # "idle", K!Begin(r, c, label)
    PROVE  /\ Moves(r) /\ pc[r] = "idle" /\ pc'[r] = label /\ call'[r] = c
           /\ held'[r] = held[r] /\ answer'[r] = answer[r]
BY DEF K!Begin, Framed, Moves


ItemLabels == {"task", "highest", "insertItem", "item", "writeItem", "deleteItem", "itemsOf", "placing",
               "removeTask"}

\* Where a request is says what it was called with and what it holds.
PlacedChecklist(r) ==
    /\ pc[r] = "idle" => call[r] = NoCall
    /\ pc[r] # "idle" => call[r] \in ChecklistCalls
    /\ pc[r] # "done" => answer[r] = "none"
    /\ pc[r] = "task" => call[r].kind \in {"add", "update", "delete", "reorder"}
    /\ pc[r] \in {"highest", "insertItem"} => call[r].kind = "add"
    /\ pc[r] = "highest" => call[r].index = None
    /\ pc[r] = "insertItem" => call[r].index # None \/ held[r] \in Nat
    /\ pc[r] \in {"item", "writeItem", "deleteItem"} => call[r].kind \in {"update", "delete"}
    /\ pc[r] \in {"itemsOf", "placing"} => call[r].kind = "reorder"
    /\ pc[r] = "placing" =>
          held[r] \in [left: SUBSET DOMAIN call[r].items, failed: BOOLEAN, all: BOOLEAN]
    /\ pc[r] = "removeTask" => call[r].kind = "removeTask"

ItemTable == [Items -> K!Item \cup {None}]

\* The positions there are have a bound.
Bounded == \E b \in Nat : \A i \in Items : items[i] # None => items[i].index < b

ChecklistTyped == K!TypeOK /\ Bounded /\ Framed /\ \A r \in Requests : PlacedChecklist(r)

ChecklistStep(r) ==
    \/ K!Start(r) \/ K!FindTask(r) \/ K!FindHighest(r) \/ K!InsertItem(r) \/ K!FindItem(r)
    \/ K!WriteItem(r) \/ K!DeleteItem(r) \/ K!FindItems(r) \/ K!Place(r) \/ K!RemoveTask(r)

LEMMA ChecklistCallFields ==
    ASSUME NEW c \in ChecklistCalls
    PROVE  /\ c.kind \in {"add", "update", "delete", "reorder", "removeTask"} /\ c.task \in Entities
           /\ c.kind \in {"add", "update", "delete"} => c.item \in Items
           /\ c.kind = "add" => c.index \in Nat \cup {None}
           /\ c.kind = "reorder" => /\ K!Len(c.items) \in Nat /\ K!Len(c.items) > 0
                                    /\ DOMAIN c.items = 1 .. K!Len(c.items)
                                    /\ c.items \in [1 .. K!Len(c.items) -> Items]
BY PartsAssumption
   DEF K!ChecklistsAssumption, K!AddCall, K!ItemCall, K!ReorderCall, K!RemoveTaskCall, K!Position

\* A finite set of numbers has a bound.
LEMMA FiniteNumbersBounded ==
    ASSUME NEW S \in SUBSET Nat, IsFiniteSet(S)
    PROVE  \E b \in Nat : \A n \in S : n < b
<1> DEFINE Below(T) == \E b \in Nat : \A n \in T : n < b
           High == {T \in FiniteSubsetsOf(Nat) : ~Below(T)}
<1> SUFFICES ASSUME ~Below(S) PROVE FALSE
  OBVIOUS
<1>1. S \in High
  BY DEF FiniteSubsetsOf
<1>2. PICK T \in High : \A U \in High : <<U, T>> \notin StrictSubsetOrdering(Nat)
  <2>1. High \subseteq FiniteSubsetsOf(Nat) /\ High # {}
    BY <1>1
  <2> HIDE DEF High
  <2> QED BY <2>1, FS_StrictSubsetOrderingWellFounded, WFMin
<1>3. T \subseteq Nat /\ IsFiniteSet(T) /\ ~Below(T)
  BY DEF FiniteSubsetsOf
<1>4. PICK x \in T : TRUE
  <2>1. CASE T = {}
    BY <2>1, <1>3
  <2> QED BY <2>1
<1> DEFINE U == T \ {x}
<1>5. U \subseteq Nat /\ IsFiniteSet(U)
  BY <1>3, FS_RemoveElement
<1>6. <<U, T>> \in StrictSubsetOrdering(Nat)
  BY <1>3, <1>4, <1>5 DEF StrictSubsetOrdering
<1>7. Below(U)
  <2>1. U \notin High
    BY <1>2, <1>6
  <2> QED BY <1>5, <2>1 DEF FiniteSubsetsOf
<1>8. PICK b \in Nat : \A n \in U : n < b
  BY <1>7
<1>9. \E c \in Nat : c > x /\ c >= b
  BY <1>3, <1>4
<1>10. PICK c \in Nat : c > x /\ c >= b
  BY <1>9
<1>11. \A n \in T : n < c
  BY <1>3, <1>8, <1>10
<1> QED BY <1>3, <1>11

\* Of numbers with a bound one is the greatest.
LEMMA GreatestNumber ==
    ASSUME NEW Ns \in SUBSET Nat, Ns # {}, NEW n \in Nat, \A x \in Ns : x < n
    PROVE  \E x \in Ns : \A y \in Ns : y <= x
<1> DEFINE Lower == OpToRel(<, Nat)
           Gaps == {n - x : x \in Ns}
<1>1. IsWellFoundedOn(Lower, Nat)
  BY NatLessThanWellFounded
<1>2. Gaps \subseteq Nat /\ Gaps # {}
  <2>1. \A x \in Ns : n - x \in Nat
    OBVIOUS
  <2> QED BY <2>1
<1>3. PICK d \in Gaps : \A e \in Gaps : <<e, d>> \notin Lower
  <2> HIDE DEF Lower, Gaps
  <2> QED BY <1>1, <1>2, WFMin
<1>4. PICK x \in Ns : d = n - x
  BY <1>3
<1>5. ASSUME NEW y \in Ns, y > x PROVE FALSE
  <2>1. n - y \in Gaps
    OBVIOUS
  <2>2. n - y \in Nat /\ d \in Nat /\ n - y < d
    BY <1>4, <1>5
  <2> QED BY <1>3, <2>1, <2>2 DEF OpToRel
<1> QED BY <1>4, <1>5

LEMMA ChecklistsTypedInit == K!Init => ChecklistTyped
<1> SUFFICES ASSUME K!Init PROVE ChecklistTyped
  OBVIOUS
<1>1. /\ DOMAIN SeedItems \subseteq Items /\ IsFiniteSet(DOMAIN SeedItems)
      /\ \A i \in DOMAIN SeedItems : SeedItems[i] \in K!Item /\ SeedItems[i].index \in Nat
  BY PartsAssumption DEF K!ChecklistsAssumption, K!Item, K!Position, K!IsFiniteSet, IsFiniteSet
<1>2. items \in ItemTable
  BY <1>1 DEF K!Init, ItemTable
<1>3. Bounded
  <2> DEFINE f == [i \in DOMAIN SeedItems |-> SeedItems[i].index]
             S == {SeedItems[i].index : i \in DOMAIN SeedItems}
  <2>1. f \in Surjection(DOMAIN SeedItems, S)
    BY DEF Surjection
  <2>2. IsFiniteSet(S) /\ S \subseteq Nat
    BY <1>1, <2>1, FS_Surjection
  <2>3. PICK b \in Nat : \A n \in S : n < b
    BY <2>2, FiniteNumbersBounded
  <2> QED BY <2>3 DEF K!Init, Bounded
<1>4. K!Handling(ItemLabels, ChecklistCalls, {}) /\ Framed /\ \A r \in Requests : PlacedChecklist(r)
  BY DEF K!Init, K!HandlersInit, K!Handling, Framed, PlacedChecklist, K!NoCall, NoCall
<1> QED BY <1>2, <1>3, <1>4 DEF ChecklistTyped, K!TypeOK, ItemLabels, ItemTable, K!Init

LEMMA NoneNoItem == None \notin K!Item
BY PartsAssumption DEF K!ChecklistsAssumption

\* The position a new item gets is a number above all in the list.
LEMMA NextIsAbove ==
    ASSUME ChecklistTyped, NEW t
    PROVE  /\ K!NextIndex(t) \in Nat
           /\ \A i \in K!ItemsOf(t) : items[i].index < K!NextIndex(t)
<1>1. \A i \in K!ItemsOf(t) : items[i].index \in Nat
  BY DEF ChecklistTyped, K!TypeOK, K!ItemsOf, K!Item, K!Position
<1>2. CASE K!ItemsOf(t) = {}
  BY <1>2 DEF K!NextIndex
<1>3. CASE K!ItemsOf(t) # {}
  <2> DEFINE Ns == {items[i].index : i \in K!ItemsOf(t)}
             Top(n) == \A i \in K!ItemsOf(t) : items[i].index <= n
  <2>1. PICK b \in Nat : \A n \in Ns : n < b
    BY DEF ChecklistTyped, Bounded, K!ItemsOf
  <2>2. Ns \subseteq Nat /\ Ns # {}
    BY <1>1, <1>3
  <2>3. \E n \in Ns : \A m \in Ns : m <= n
    <3> HIDE DEF Ns
    <3> QED BY <2>1, <2>2, GreatestNumber
  <2>4. \E n \in Ns : Top(n)
    BY <2>3
  <2>5. K!NextIndex(t) = 1 + CHOOSE n \in Ns : Top(n)
    BY <1>3 DEF K!NextIndex
  <2> DEFINE top == CHOOSE n \in Ns : Top(n)
  <2>6. top \in Ns /\ Top(top)
    <3> HIDE DEF Ns, Top
    <3> QED BY <2>4
  <2>7. K!NextIndex(t) = 1 + top
    BY <2>5
  <2> HIDE DEF top
  <2> QED BY <1>1, <2>2, <2>6, <2>7
<1> QED BY <1>2, <1>3

\* What the handler of a request does next, and what it has read by then.
ChecklistGoesOn(r) ==
    LET c == call[r]
        found == K!Named(r) \cap K!ItemsOf(c.task)
    IN  \/ /\ pc[r] = "idle" /\ call'[r] \in ChecklistCalls /\ K!FreshId(call'[r])
           /\ answer'[r] = answer[r]
           /\ \/ pc'[r] = "task" /\ call'[r].kind # "removeTask"
              \/ pc'[r] = "removeTask" /\ call'[r].kind = "removeTask"
        \/ /\ pc[r] \notin {"idle", "done"} /\ pc'[r] = "done"
           /\ answer'[r] \in {"ok", "error", "notFound", "forbidden"}
           /\ pc[r] = "placing" => K!Place(r)
        \/ /\ answer'[r] = answer[r]
           /\ \/ pc[r] = "task" /\ pc'[r] = "highest" /\ c.kind = "add" /\ c.index = None
              \/ pc[r] = "task" /\ pc'[r] = "insertItem" /\ c.kind = "add" /\ c.index # None
              \/ pc[r] = "task" /\ pc'[r] = "item" /\ c.kind \in {"update", "delete"}
              \/ pc[r] = "task" /\ pc'[r] = "itemsOf" /\ c.kind = "reorder"
              \/ pc[r] = "highest" /\ pc'[r] = "insertItem" /\ held'[r] = K!NextIndex(c.task)
              \/ pc[r] = "item" /\ pc'[r] \in {"writeItem", "deleteItem"}
              \/ /\ pc[r] = "itemsOf" /\ pc'[r] = "placing" /\ K!Cardinality(found) = K!Len(c.items)
                 /\ held'[r] = [left |-> DOMAIN c.items, failed |-> FALSE, all |-> found = K!ItemsOf(c.task)]
              \/ pc[r] = "placing" /\ pc'[r] = "placing" /\ K!Place(r)

LEMMA ItemPlaced ==
    ASSUME ChecklistTyped, NEW r \in Requests, K!Place(r)
    PROVE  /\ Moves(r) /\ pc[r] = "placing" /\ UNCHANGED tasks
           /\ \E n \in held[r].left :
                 LET i == call[r].items[n]
                     left == held[r].left \ {n}
                 IN  /\ n \in DOMAIN call[r].items /\ i \in Items /\ items' \in ItemTable /\ n - 1 \in Nat
                     /\ items[i] = None => items' = items
                     /\ items[i] # None => /\ items'[i] # None /\ items'[i].task = items[i].task
                                           /\ items'[i].index = n - 1
                     /\ \A j \in Items \ {i} : items'[j] = items[j]
                     /\ kAged' = kAged \cup (K!Deciding(call[r].task) \ {r})
                     /\ forced' = IF r \in kAged \/ ~held[r].all THEN forced \cup {i} ELSE forced \ {i}
                     /\ held'[r] \in [left: SUBSET DOMAIN call[r].items, failed: BOOLEAN, all: BOOLEAN]
                     /\ held'[r].left = left /\ (held'[r].all <=> held[r].all)
                     /\ \/ left = {} /\ pc'[r] = "done" /\ answer'[r] \in {"ok", "error"}
                        \/ left # {} /\ pc'[r] = "placing" /\ answer'[r] = answer[r]
<1>0. /\ Framed /\ pc[r] = "placing" /\ call[r] \in ChecklistCalls /\ call[r].kind = "reorder"
      /\ held[r] \in [left: SUBSET DOMAIN call[r].items, failed: BOOLEAN, all: BOOLEAN]
      /\ items \in ItemTable
  BY DEF K!Place, ChecklistTyped, PlacedChecklist, K!TypeOK, ItemTable
<1>1. PICK n \in held[r].left :
          LET i == call[r].items[n]
              left == held[r].left \ {n}
              failed == held[r].failed \/ items[i] = None
          IN  /\ items' = IF items[i] = None THEN items ELSE [items EXCEPT ![i].index = K!IndexOf(n)]
              /\ kAged' = kAged \cup (K!Deciding(call[r].task) \ {r})
              /\ forced' = IF r \in kAged \/ ~held[r].all THEN forced \cup {i} ELSE forced \ {i}
              /\ held' = [held EXCEPT ![r] = [@ EXCEPT !.left = left, !.failed = failed]]
              /\ pc' = IF left = {} THEN [pc EXCEPT ![r] = "done"] ELSE pc
              /\ answer' = IF left # {} THEN answer
                           ELSE [answer EXCEPT ![r] = IF failed THEN "error" ELSE "ok"]
  BY DEF K!Place
<1>2. call' = call /\ tasks' = tasks
  BY DEF K!Place
<1> DEFINE i == call[r].items[n]
           left == held[r].left \ {n}
           failed == held[r].failed \/ items[i] = None
<1>3. n \in DOMAIN call[r].items /\ n \in Nat /\ n - 1 \in Nat /\ i \in Items
  BY <1>0, ChecklistCallFields
<1>4. failed \in BOOLEAN /\ left \in SUBSET DOMAIN call[r].items
  BY <1>0
<1>5. /\ items' \in ItemTable
      /\ items[i] = None => items' = items
      /\ items[i] # None => /\ items'[i] # None /\ items'[i].task = items[i].task /\ items'[i].index = n - 1
      /\ \A j \in Items \ {i} : items'[j] = items[j]
  <2> DEFINE row == [items[i] EXCEPT !.index = n - 1]
  <2>1. CASE items[i] = None
    BY <1>0, <1>1, <2>1
  <2>2. CASE items[i] # None
    <3>1. items[i] \in K!Item
      BY <1>0, <1>3, <2>2 DEF ItemTable
    <3>2. row \in K!Item /\ row.task = items[i].task /\ row.index = n - 1
      BY <1>3, <3>1 DEF K!Item, K!Position
    <3>3. items' = [items EXCEPT ![i] = row]
      BY <1>0, <1>1, <1>3, <2>2 DEF ItemTable, K!IndexOf
    <3> HIDE DEF row, i
    <3>4. items' \in ItemTable /\ items'[i] = row /\ \A j \in Items \ {i} : items'[j] = items[j]
      BY <1>0, <1>3, <3>2, <3>3 DEF ItemTable
    <3> QED BY <2>2, <3>2, <3>4, NoneNoItem
  <2> QED BY <2>1, <2>2
<1>6. /\ held'[r] = [held[r] EXCEPT !.left = left, !.failed = failed]
      /\ held' = [q \in Requests |-> held'[q]] /\ \A q \in Requests \ {r} : held'[q] = held[q]
  BY <1>0, <1>1 DEF Framed
<1>7. /\ held'[r] \in [left: SUBSET DOMAIN call[r].items, failed: BOOLEAN, all: BOOLEAN]
      /\ held'[r].left = left /\ held'[r].all = held[r].all
  <2> HIDE DEF left, failed
  <2> QED BY <1>0, <1>4, <1>6
<1>8. \/ left = {} /\ pc'[r] = "done" /\ answer'[r] \in {"ok", "error"}
      \/ left # {} /\ pc'[r] = "placing" /\ answer'[r] = answer[r]
  BY <1>0, <1>1 DEF Framed
<1>9. Moves(r)
  BY <1>0, <1>1, <1>2, <1>6 DEF Framed, Moves
<1>10. /\ kAged' = kAged \cup (K!Deciding(call[r].task) \ {r})
       /\ forced' = IF r \in kAged \/ ~held[r].all THEN forced \cup {i} ELSE forced \ {i}
  BY <1>1
<1> HIDE DEF i, left, failed
<1>11. held'[r].all <=> held[r].all
  BY <1>7
<1> QED BY <1>0, <1>2, <1>3, <1>5, <1>7, <1>8, <1>9, <1>10, <1>11 DEF i, left

LEMMA ChecklistMoves ==
    ASSUME ChecklistTyped, NEW r \in Requests, ChecklistStep(r)
    PROVE  Moves(r) /\ ChecklistGoesOn(r)
<1>0. Framed /\ PlacedChecklist(r)
  BY DEF ChecklistTyped
<1> USE <1>0, ChecklistContinues, ChecklistGoes, ChecklistReplies DEF K!Fails
<1>1. CASE K!Start(r)
  <2>1. PICK c \in ChecklistCalls :
           K!FreshId(c) /\ K!Begin(r, c, IF c.kind = "removeTask" THEN "removeTask" ELSE "task")
    BY <1>1 DEF K!Start
  <2>2. /\ Moves(r) /\ pc[r] = "idle" /\ call'[r] = c /\ answer'[r] = answer[r]
        /\ pc'[r] = IF c.kind = "removeTask" THEN "removeTask" ELSE "task"
    BY <2>1, ChecklistBegins
  <2> QED BY <2>1, <2>2 DEF ChecklistGoesOn
<1>2. CASE K!FindTask(r)
  <2>1. pc[r] = "task" /\ call[r].kind \in {"add", "update", "delete", "reorder"}
    BY <1>2 DEF K!FindTask, PlacedChecklist
  <2>2. \/ \E what \in {"notFound", "forbidden"} : K!Reply(r, what)
        \/ call[r].kind = "add" /\ call[r].index = None /\ K!Goto(r, "highest")
        \/ call[r].kind = "add" /\ call[r].index # None /\ K!Goto(r, "insertItem")
        \/ call[r].kind \in {"update", "delete"} /\ K!Goto(r, "item")
        \/ call[r].kind = "reorder" /\ K!Goto(r, "itemsOf")
    BY <1>2, <2>1 DEF K!FindTask, K!Kind
  <2> QED BY <2>1, <2>2 DEF ChecklistGoesOn
<1>3. CASE K!FindHighest(r)
  BY <1>3 DEF K!FindHighest, ChecklistGoesOn
<1>4. CASE K!InsertItem(r)
  BY <1>4 DEF K!InsertItem, ChecklistGoesOn
<1>5. CASE K!FindItem(r) \/ K!WriteItem(r) \/ K!DeleteItem(r)
  BY <1>5 DEF K!FindItem, K!WriteItem, K!DeleteItem, ChecklistGoesOn
<1>6. CASE K!FindItems(r)
  <2> DEFINE found == K!Named(r) \cap K!ItemsOf(call[r].task)
             row == [left |-> DOMAIN call[r].items, failed |-> FALSE, all |-> found = K!ItemsOf(call[r].task)]
  <2>1. pc[r] = "itemsOf" /\ \/ K!Reply(r, "forbidden")
                             \/ /\ K!Cardinality(found) = K!Len(call[r].items)
                                /\ K!Continue(r, "placing", row)
    BY <1>6 DEF K!FindItems
  <2>2. CASE K!Reply(r, "forbidden")
    BY <2>1, <2>2 DEF ChecklistGoesOn
  <2>3. CASE K!Cardinality(found) = K!Len(call[r].items) /\ K!Continue(r, "placing", row)
    <3> HIDE DEF row
    <3>1. Moves(r) /\ pc'[r] = "placing" /\ held'[r] = row /\ answer'[r] = answer[r]
      BY <2>1, <2>3
    <3> QED BY <2>1, <2>3, <3>1 DEF ChecklistGoesOn, row
  <2> QED BY <2>1, <2>2, <2>3
<1>7. CASE K!Place(r)
  BY <1>7, ItemPlaced DEF ChecklistGoesOn
<1>8. CASE K!RemoveTask(r)
  BY <1>8 DEF K!RemoveTask, ChecklistGoesOn
<1> QED BY <1>1, <1>2, <1>3, <1>4, <1>5, <1>6, <1>7, <1>8 DEF ChecklistStep

LEMMA ChecklistPlaced ==
    ASSUME ChecklistTyped, NEW r \in Requests, ChecklistStep(r)
    PROVE  Framed' /\ \A q \in Requests : PlacedChecklist(q)'
<1>1. Moves(r) /\ ChecklistGoesOn(r) /\ PlacedChecklist(r)
  BY ChecklistMoves DEF ChecklistTyped
<1>2. PlacedChecklist(r)'
  <2>1. CASE K!Place(r)
    BY <1>1, <2>1, ItemPlaced DEF Moves, PlacedChecklist
  <2>2. CASE pc[r] = "idle"
    BY <1>1, <2>2, ChecklistCallFields DEF Moves, ChecklistGoesOn, PlacedChecklist
  <2>3. CASE pc[r] = "highest"
    BY <1>1, <2>3, NextIsAbove DEF Moves, ChecklistGoesOn, PlacedChecklist
  <2>4. CASE pc[r] = "itemsOf"
    <3> DEFINE all == K!Named(r) \cap K!ItemsOf(call[r].task) = K!ItemsOf(call[r].task)
    <3>1. \/ pc'[r] = "done"
          \/ /\ pc'[r] = "placing"
             /\ held'[r] = [left |-> DOMAIN call[r].items, failed |-> FALSE, all |-> all]
      BY <1>1, <2>4 DEF ChecklistGoesOn
    <3>2. all \in BOOLEAN
      OBVIOUS
    <3> HIDE DEF all
    <3>3. pc'[r] = "placing" =>
             held'[r] \in [left: SUBSET DOMAIN call[r].items, failed: BOOLEAN, all: BOOLEAN]
      <4> DEFINE row == [left |-> DOMAIN call[r].items, failed |-> FALSE, all |-> all]
      <4>1. pc'[r] = "placing" => held'[r] = row
        BY <3>1
      <4>2. ASSUME NEW dom, NEW b \in BOOLEAN
            PROVE  [left |-> dom, failed |-> FALSE, all |-> b] \in [left: SUBSET dom, failed: BOOLEAN, all: BOOLEAN]
        OBVIOUS
      <4>3. row \in [left: SUBSET DOMAIN call[r].items, failed: BOOLEAN, all: BOOLEAN]
        BY <3>2, <4>2
      <4> HIDE DEF row
      <4> QED BY <4>1, <4>3
    <3>4. call'[r] = call[r] /\ call[r].kind = "reorder" /\ call[r] \in ChecklistCalls
      BY <1>1, <2>4 DEF Moves, PlacedChecklist
    <3>5. CASE pc'[r] = "done"
      BY <3>4, <3>5 DEF PlacedChecklist
    <3>6. CASE pc'[r] = "placing"
      <4>1. answer'[r] = "none"
        BY <1>1, <2>4, <3>6 DEF ChecklistGoesOn, PlacedChecklist
      <4> QED BY <3>3, <3>4, <3>6, <4>1 DEF PlacedChecklist
    <3> QED BY <3>1, <3>5, <3>6
  <2>5. CASE pc[r] \notin {"idle", "highest", "itemsOf"} /\ ~K!Place(r)
    BY <1>1, <2>5 DEF Moves, ChecklistGoesOn, PlacedChecklist
  <2> QED BY <2>1, <2>2, <2>3, <2>4, <2>5
<1>3. ASSUME NEW q \in Requests \ {r} PROVE PlacedChecklist(q)'
  BY <1>1 DEF Moves, ChecklistTyped, PlacedChecklist
<1> QED BY <1>1, <1>2, <1>3 DEF Moves


\* Steps that leave the tables alone.
ChecklistReads(r) ==
    K!Start(r) \/ K!FindTask(r) \/ K!FindHighest(r) \/ K!FindItem(r) \/ K!WriteItem(r) \/ K!FindItems(r)

LEMMA ChecklistReading ==
    ASSUME NEW r \in Requests, ChecklistReads(r)
    PROVE  UNCHANGED <<tasks, items, kAged, forced>>
<1>1. UNCHANGED <<K!tables, K!history>>
  BY Zenon DEF ChecklistReads, K!Start, K!FindTask, K!FindHighest, K!FindItem, K!WriteItem, K!FindItems
<1> QED BY <1>1 DEF K!tables, K!history

LEMMA DecidingAreRequests == ASSUME NEW t PROVE K!Deciding(t) \subseteq Requests
BY DEF K!Deciding, K!At

LEMMA ItemStored ==
    ASSUME ChecklistTyped, NEW r \in Requests, K!InsertItem(r)
    PROVE  LET c == call[r]
               index == IF c.index = None THEN held[r] ELSE c.index
           IN  /\ pc[r] = "insertItem" /\ pc'[r] = "done" /\ c.kind = "add" /\ c.item \in Items /\ UNCHANGED tasks
               /\ \/ UNCHANGED <<items, kAged, forced>>
                  \/ /\ items' \in ItemTable /\ index \in Nat
                     /\ items'[c.item] # None /\ items'[c.item].task = c.task
                     /\ items'[c.item].index = index
                     /\ \A j \in Items \ {c.item} : items'[j] = items[j]
                     /\ kAged' = kAged \cup (K!Deciding(c.task) \ {r})
                     /\ forced' = IF c.index # None \/ r \in kAged THEN forced \cup {c.item} ELSE forced
<1> DEFINE c == call[r]
           index == IF c.index = None THEN held[r] ELSE c.index
           row == [task |-> c.task, index |-> index]
<1>1. /\ pc[r] = "insertItem" /\ c \in ChecklistCalls /\ c.kind = "add" /\ Framed /\ items \in ItemTable
      /\ c.index # None \/ held[r] \in Nat
  BY DEF K!InsertItem, ChecklistTyped, PlacedChecklist, K!TypeOK, ItemTable
<1>2. c.item \in Items /\ c.task \in Entities /\ index \in Nat
  BY <1>1, ChecklistCallFields
<1>3. row \in K!Item /\ row.task = c.task /\ row.index = index
  BY <1>2 DEF K!Item, K!Position
<1>4. /\ UNCHANGED tasks
      /\ \/ K!Reply(r, "error") /\ UNCHANGED <<items, K!history>>
         \/ /\ items' = [items EXCEPT ![c.item] = row] /\ K!Reply(r, "ok")
            /\ kAged' = kAged \cup (K!Deciding(c.task) \ {r})
            /\ forced' = IF c.index # None \/ r \in kAged THEN forced \cup {c.item} ELSE forced
  BY DEF K!InsertItem, K!Fails
<1>5. pc'[r] = "done"
  BY <1>1, <1>4, ChecklistReplies
<1> HIDE DEF row, index
<1>6. items' = [items EXCEPT ![c.item] = row] =>
         /\ items' \in ItemTable /\ items'[c.item] = row /\ row # None
         /\ \A j \in Items \ {c.item} : items'[j] = items[j]
  BY <1>1, <1>2, <1>3, NoneNoItem DEF ItemTable
<1>7. CASE UNCHANGED <<items, K!history>>
  BY <1>1, <1>2, <1>4, <1>5, <1>7 DEF K!history
<1>8. CASE ~UNCHANGED <<items, K!history>>
  <2>1. /\ items' = [items EXCEPT ![c.item] = row]
        /\ kAged' = kAged \cup (K!Deciding(c.task) \ {r})
        /\ forced' = IF c.index # None \/ r \in kAged THEN forced \cup {c.item} ELSE forced
    BY <1>4, <1>8
  <2>2. items'[c.item].task = c.task /\ items'[c.item].index = index
    BY <1>3, <1>6, <2>1
  <2> QED BY <1>1, <1>2, <1>4, <1>5, <1>6, <2>1, <2>2 DEF index
<1> QED BY <1>7, <1>8

LEMMA ItemsDropped ==
    ASSUME ChecklistTyped, NEW r \in Requests, K!DeleteItem(r) \/ K!RemoveTask(r)
    PROVE  /\ pc[r] \in {"deleteItem", "removeTask"} /\ pc'[r] = "done"
           /\ tasks' \subseteq tasks /\ UNCHANGED <<kAged, forced>>
           /\ items' \in ItemTable /\ \A i \in Items : items'[i] = items[i] \/ items'[i] = None
<1>1. call[r] \in ChecklistCalls /\ Framed /\ items \in ItemTable
  BY DEF K!DeleteItem, K!RemoveTask, ChecklistTyped, PlacedChecklist, K!TypeOK, ItemTable
<1>2. CASE K!DeleteItem(r)
  <2>1. pc[r] = "deleteItem" /\ call[r].item \in Items
    <3>1. call[r].kind \in {"update", "delete"} /\ pc[r] = "deleteItem"
      BY <1>2 DEF K!DeleteItem, ChecklistTyped, PlacedChecklist
    <3> QED BY <1>1, <3>1, ChecklistCallFields
  <2>2. /\ UNCHANGED <<tasks, kAged, forced>>
        /\ \/ K!Reply(r, "error") /\ UNCHANGED items
           \/ K!Reply(r, "ok") /\ items' = [items EXCEPT ![call[r].item] = None]
    BY <1>2 DEF K!DeleteItem, K!Fails, K!history
  <2>3. pc'[r] = "done"
    BY <1>1, <2>1, <2>2, ChecklistReplies
  <2> QED BY <1>1, <2>1, <2>2, <2>3 DEF ItemTable
<1>3. CASE K!RemoveTask(r)
  <2>1. /\ pc[r] = "removeTask" /\ UNCHANGED <<kAged, forced>>
        /\ \/ K!Reply(r, "notFound") /\ UNCHANGED <<tasks, items>>
           \/ /\ tasks' = tasks \ {call[r].task}
              /\ items' = [i \in Items |-> IF i \in K!ItemsOf(call[r].task) THEN None ELSE items[i]]
              /\ K!Reply(r, "ok")
    BY <1>3 DEF K!RemoveTask, K!history, K!tables
  <2>2. pc'[r] = "done"
    BY <1>1, <2>1, ChecklistReplies
  <2> QED BY <1>1, <2>1, <2>2 DEF ItemTable
<1> QED BY <1>2, <1>3

LEMMA ChecklistTypedStep ==
    ASSUME ChecklistTyped, NEW r \in Requests, ChecklistStep(r)
    PROVE  ChecklistTyped'
<1>1. Moves(r) /\ ChecklistGoesOn(r) /\ Framed' /\ \A q \in Requests : PlacedChecklist(q)'
  BY ChecklistMoves, ChecklistPlaced
<1> DEFINE Tables == /\ tasks \subseteq Entities /\ items \in ItemTable
                     /\ kAged \subseteq Requests /\ forced \subseteq Items
<1>2. Tables /\ Bounded
  BY DEF ChecklistTyped, K!TypeOK, ItemTable
<1>3. (Tables /\ Bounded)'
  <2>1. CASE ChecklistReads(r)
    BY <1>2, <2>1, ChecklistReading DEF Bounded
  <2>2. CASE K!InsertItem(r)
    <3> DEFINE index == IF call[r].index = None THEN held[r] ELSE call[r].index
    <3>1. CASE UNCHANGED <<items, kAged, forced>>
      BY <1>2, <2>2, <3>1, ItemStored DEF Bounded
    <3>2. CASE ~UNCHANGED <<items, kAged, forced>>
      <4>1. /\ items' \in ItemTable /\ index \in Nat /\ call[r].item \in Items /\ UNCHANGED tasks
            /\ items'[call[r].item].index = index
            /\ \A j \in Items \ {call[r].item} : items'[j] = items[j]
            /\ kAged' = kAged \cup (K!Deciding(call[r].task) \ {r})
            /\ forced' = forced \/ forced' = forced \cup {call[r].item}
        BY <2>2, <3>2, ItemStored
      <4>2. PICK b \in Nat : \A i \in Items : items[i] # None => items[i].index < b
        BY <1>2 DEF Bounded
      <4>3. \A i \in Items : items[i] # None => items[i].index \in Nat
        BY <1>2 DEF ItemTable, K!Item, K!Position
      <4>4. \E n \in Nat : index < n /\ b <= n
        <5> HIDE DEF index
        <5>1. index + b + 1 \in Nat /\ index < index + b + 1 /\ b <= index + b + 1
          BY <4>1
        <5> QED BY <5>1
      <4>5. PICK n \in Nat : index < n /\ b <= n
        BY <4>4
      <4>6. \A i \in Items : items'[i] # None => items'[i].index < n
        <5> HIDE DEF index
        <5> QED BY <4>1, <4>2, <4>3, <4>5
      <4>7. Bounded'
        BY <4>6 DEF Bounded
      <4> QED BY <1>2, <4>1, <4>7, DecidingAreRequests
    <3> QED BY <3>1, <3>2
  <2>3. CASE K!DeleteItem(r) \/ K!RemoveTask(r)
    <3>1. Bounded'
      BY <1>2, <2>3, ItemsDropped DEF Bounded
    <3> QED BY <1>2, <2>3, <3>1, ItemsDropped
  <2>4. CASE K!Place(r)
    <3>1. PICK n \in held[r].left :
             LET i == call[r].items[n]
             IN  /\ i \in Items /\ items' \in ItemTable /\ n - 1 \in Nat
                 /\ items[i] = None => items' = items
                 /\ items[i] # None => items'[i].index = n - 1
                 /\ \A j \in Items \ {i} : items'[j] = items[j]
                 /\ kAged' = kAged \cup (K!Deciding(call[r].task) \ {r})
                 /\ forced' \subseteq forced \cup {i}
      BY <2>4, ItemPlaced
    <3>2. PICK b \in Nat : \A i \in Items : items[i] # None => items[i].index < b
      BY <1>2 DEF Bounded
    <3>3. \A i \in Items : items[i] # None => items[i].index \in Nat
      BY <1>2 DEF ItemTable, K!Item, K!Position
    <3>4. PICK k \in Nat : k = n - 1
      BY <3>1
    <3>5. \E a \in Nat : k < a /\ b <= a
      <4>1. k + b + 1 \in Nat /\ k < k + b + 1 /\ b <= k + b + 1
        OBVIOUS
      <4> QED BY <4>1
    <3>6. PICK a \in Nat : k < a /\ b <= a
      BY <3>5
    <3>7. \A i \in Items : items'[i] # None => items'[i].index < a
      BY <3>1, <3>2, <3>3, <3>4, <3>6
    <3>8. Bounded'
      BY <3>7 DEF Bounded
    <3> QED BY <1>2, <2>4, <3>1, <3>8, DecidingAreRequests, ItemPlaced
  <2> QED BY <2>1, <2>2, <2>3, <2>4 DEF ChecklistStep, ChecklistReads
<1>4. K!Handling(ItemLabels, ChecklistCalls, {})'
  <2>1. pc'[r] \in {"done"} \cup ItemLabels /\ call'[r] \in ChecklistCalls
    BY <1>1, ItemPlaced DEF ChecklistGoesOn, PlacedChecklist, ItemLabels
  <2>2. answer'[r] \in {"none", "ok", "notFound", "forbidden", "error"}
    <3>1. answer[r] \in {"none", "ok", "notFound", "forbidden", "error"}
      BY DEF ChecklistTyped, K!TypeOK, K!Handling
    <3> QED BY <1>1, <3>1, ItemPlaced DEF ChecklistGoesOn
  <2>3. \A q \in Requests \ {r} : pc'[q] = pc[q] /\ call'[q] = call[q] /\ answer'[q] = answer[q]
    BY <1>1 DEF Moves
  <2> QED BY <1>1, <2>1, <2>2, <2>3 DEF ChecklistTyped, K!TypeOK, K!Handling, K!NoCall, Framed, ItemLabels
<1> QED BY <1>1, <1>3, <1>4 DEF ChecklistTyped, K!TypeOK, ItemTable, ItemLabels


-----------------------------------------------------------------------------
(***************************************************************************)
(* Checklists: the positions of the items                                  *)
(***************************************************************************)

\* An item comes from the seeds or from an addition that is over.
ItemBorn(i) ==
    \/ i \in DOMAIN SeedItems
    \/ \E q \in Requests : call[q].kind = "add" /\ call[q].item = i /\ pc[q] = "done"

ItemsBorn ==
    /\ \A q \in Requests :
          call[q].kind = "add" =>
              /\ call[q].item \notin DOMAIN SeedItems
              /\ \A p \in Requests : call[p].kind = "add" /\ call[p].item = call[q].item => p = q
    /\ \A i \in Items : items[i] # None => ItemBorn(i)

\* A reorder names each item once, and only items that there were in the task
\* of the reorder.  One that no other placement crossed has put those it is
\* through with where they were asked for, and if it named all there were it
\* still does.
ReorderStands(q) ==
    /\ \A n \in DOMAIN call[q].items :
          LET i == call[q].items[n]
          IN  /\ ItemBorn(i)
              /\ items[i] # None => items[i].task = call[q].task
              /\ q \notin kAged /\ n \notin held[q].left /\ items[i] # None => items[i].index = n - 1
    /\ \A n, m \in DOMAIN call[q].items : call[q].items[n] = call[q].items[m] => n = m
    /\ q \notin kAged /\ held[q].all => K!ItemsOf(call[q].task) \subseteq K!Named(q)

PlacingStands == \A q \in Requests : pc[q] = "placing" => ReorderStands(q)

\* The position read for an addition is above all in the list until another
\* placement crosses it.
AdditionsAhead ==
    \A q \in Requests :
        pc[q] = "insertItem" /\ call[q].index = None /\ q \notin kAged =>
            \A i \in K!ItemsOf(call[q].task) : items[i].index < held[q]

\* The items a reorder is still to place.
ToPlace(q) == {call[q].items[n] : n \in held[q].left}

\* Two items in one place, neither of them forced there: a reorder that is
\* under way is about to move one of them.
Clash(i, j) ==
    /\ i # j /\ items[i] # None /\ items[j] # None
    /\ items[i].task = items[j].task /\ items[i].index = items[j].index
    /\ i \notin forced /\ j \notin forced

ClashesPass ==
    \A i, j \in Items :
        Clash(i, j) => \E q \in Requests :
                          pc[q] = "placing" /\ call[q].task = items[i].task /\ {i, j} \cap ToPlace(q) # {}

ChecklistInv == ChecklistTyped /\ ItemsBorn /\ PlacingStands /\ AdditionsAhead /\ ClashesPass


LEMMA ChecklistInit == K!Init => ChecklistInv
<1> SUFFICES ASSUME K!Init PROVE ChecklistInv
  OBVIOUS
<1>1. ChecklistTyped
  BY ChecklistsTypedInit
<1>2. /\ \A q \in Requests : pc[q] = "idle" /\ call[q].kind = "none"
      /\ \A i \in Items : items[i] # None => i \in DOMAIN SeedItems /\ items[i] = SeedItems[i]
  BY DEF K!Init, K!HandlersInit, K!NoCall
<1>3. ItemsBorn
  BY <1>2 DEF ItemsBorn, ItemBorn
<1>4. PlacingStands /\ AdditionsAhead
  BY <1>2 DEF PlacingStands, AdditionsAhead
<1>5. ASSUME NEW i \in Items, NEW j \in Items, Clash(i, j) PROVE FALSE
  <2>1. /\ i \in DOMAIN SeedItems /\ j \in DOMAIN SeedItems /\ i # j
        /\ SeedItems[i].task = SeedItems[j].task /\ SeedItems[i].index = SeedItems[j].index
    BY <1>2, <1>5 DEF Clash
  <2>2. SeedItems[i] \in K!Item /\ SeedItems[j] \in K!Item /\ SeedItems[i] # SeedItems[j]
    BY <2>1, PartsAssumption DEF K!ChecklistsAssumption
  <2> QED BY <2>1, <2>2 DEF K!Item
<1> QED BY <1>1, <1>3, <1>4, <1>5 DEF ChecklistInv, ClashesPass

LEMMA ItemBornStays ==
    ASSUME ChecklistTyped, NEW r \in Requests, ChecklistStep(r), NEW i, ItemBorn(i)
    PROVE  ItemBorn(i)'
<1>1. Moves(r)
  BY ChecklistMoves
<1>2. CASE i \in DOMAIN SeedItems
  BY <1>2 DEF ItemBorn
<1>3. ASSUME NEW q \in Requests, call[q].kind = "add", call[q].item = i, pc[q] = "done"
      PROVE  ItemBorn(i)'
  <2>1. call'[q] = call[q] /\ pc'[q] = "done"
    BY <1>1, <1>3 DEF Moves
  <2> QED BY <1>3, <2>1 DEF ItemBorn
<1> QED BY <1>2, <1>3 DEF ItemBorn

\* Nobody else adds the item of an addition.
LEMMA ItemFresh ==
    ASSUME ChecklistTyped, ItemsBorn, NEW r \in Requests, K!InsertItem(r)
    PROVE  ~ItemBorn(call[r].item) /\ items[call[r].item] = None
<1>1. call[r].kind = "add" /\ pc[r] = "insertItem" /\ call[r].item \in Items
  BY ItemStored
<1>2. ASSUME NEW q \in Requests, call[q].kind = "add", call[q].item = call[r].item
      PROVE  q = r
  BY <1>1, <1>2 DEF ItemsBorn
<1>3. ~ItemBorn(call[r].item)
  BY <1>1, <1>2 DEF ItemBorn, ItemsBorn
<1> QED BY <1>1, <1>3 DEF ItemsBorn

\* An item that is born is not put there a second time, and keeps its task;
\* only a reorder that names it moves it.
LEMMA ItemsStay ==
    ASSUME ChecklistTyped, ItemsBorn, NEW r \in Requests, ChecklistStep(r),
           NEW i \in Items, ItemBorn(i), items'[i] # None
    PROVE  items[i] # None /\ items'[i].task = items[i].task /\ (items'[i] = items[i] \/ K!Place(r))
<1>1. CASE ChecklistReads(r)
  BY <1>1, ChecklistReading
<1>2. CASE K!InsertItem(r)
  <2>1. i # call[r].item
    BY <1>2, ItemFresh
  <2> QED BY <1>2, <2>1, ItemStored
<1>3. CASE K!DeleteItem(r) \/ K!RemoveTask(r)
  BY <1>3, ItemsDropped
<1>4. CASE K!Place(r)
  BY <1>4, ItemPlaced
<1> QED BY <1>1, <1>2, <1>3, <1>4 DEF ChecklistStep, ChecklistReads

\* The list of a call that decided on positions only loses items, unless a
\* placement of another call crosses it.
LEMMA UncrossedList ==
    ASSUME ChecklistTyped, PlacingStands, NEW r \in Requests, ChecklistStep(r),
           NEW q \in Requests \ {r}, pc[q] \in {"insertItem", "placing"}, q \notin kAged'
    PROVE  /\ q \notin kAged
           /\ \A i \in Items : items'[i] # None /\ items'[i].task = call[q].task => items'[i] = items[i]
<1>1. CASE ChecklistReads(r)
  BY <1>1, ChecklistReading
<1>2. CASE K!InsertItem(r)
  <2>1. CASE UNCHANGED <<items, kAged, forced>>
    BY <2>1
  <2>2. CASE ~UNCHANGED <<items, kAged, forced>>
    <3>1. /\ call[r].item \in Items /\ items'[call[r].item].task = call[r].task
          /\ \A j \in Items \ {call[r].item} : items'[j] = items[j]
          /\ kAged' = kAged \cup (K!Deciding(call[r].task) \ {r})
      BY <1>2, <2>2, ItemStored
    <3>2. call[q].task # call[r].task
      BY <3>1 DEF K!Deciding, K!At
    <3> QED BY <3>1, <3>2
  <2> QED BY <2>1, <2>2
<1>3. CASE K!DeleteItem(r) \/ K!RemoveTask(r)
  BY <1>3, ItemsDropped
<1>4. CASE K!Place(r)
  <2>1. PICK n \in held[r].left :
           LET i == call[r].items[n]
           IN  /\ n \in DOMAIN call[r].items /\ i \in Items
               /\ items[i] = None => items' = items
               /\ items[i] # None => items'[i].task = items[i].task
               /\ \A j \in Items \ {i} : items'[j] = items[j]
               /\ kAged' = kAged \cup (K!Deciding(call[r].task) \ {r})
    BY <1>4, ItemPlaced
  <2>2. call[q].task # call[r].task
    BY <2>1 DEF K!Deciding, K!At
  <2>3. items[call[r].items[n]] # None => items[call[r].items[n]].task = call[r].task
    <3>1. pc[r] = "placing"
      BY <1>4, ItemPlaced
    <3> QED BY <2>1, <3>1 DEF PlacingStands, ReorderStands
  <2> QED BY <2>1, <2>2, <2>3
<1> QED BY <1>1, <1>2, <1>3, <1>4 DEF ChecklistStep, ChecklistReads

LEMMA ItemsBornStep ==
    ASSUME ChecklistTyped, ItemsBorn, NEW r \in Requests, ChecklistStep(r)
    PROVE  ItemsBorn'
<1>1. Moves(r) /\ ChecklistGoesOn(r)
  BY ChecklistMoves
<1>2. ASSUME NEW q \in Requests, call'[q].kind = "add"
      PROVE  /\ call'[q].item \notin DOMAIN SeedItems
             /\ \A p \in Requests : call'[p].kind = "add" /\ call'[p].item = call'[q].item => p = q
  <2>1. CASE pc[r] = "idle"
    <3>1. /\ call'[r].kind = "add" =>
                /\ call'[r].item \notin DOMAIN SeedItems
                /\ \A p \in Requests : call[p].kind = "add" => call[p].item # call'[r].item
          /\ \A p \in Requests \ {r} : call'[p] = call[p]
      BY <1>1, <2>1 DEF Moves, ChecklistGoesOn, K!FreshId, K!Kind
    <3> QED BY <1>2, <3>1 DEF ItemsBorn
  <2>2. CASE pc[r] # "idle"
    <3>1. \A p \in Requests : call'[p] = call[p]
      BY <1>1, <2>2 DEF Moves
    <3> QED BY <1>2, <3>1 DEF ItemsBorn
  <2> QED BY <2>1, <2>2
<1>3. ASSUME NEW i \in Items, items'[i] # None PROVE ItemBorn(i)'
  <2>1. CASE items[i] # None
    BY <2>1, ItemBornStays DEF ItemsBorn
  <2>2. CASE items[i] = None
    <3>1. K!InsertItem(r) /\ i = call[r].item
      BY <1>3, <2>2, ChecklistReading, ItemStored, ItemsDropped, ItemPlaced
         DEF ChecklistStep, ChecklistReads
    <3>2. call'[r] = call[r] /\ call[r].kind = "add" /\ pc'[r] = "done"
      BY <1>1, <3>1, ItemStored DEF Moves
    <3> QED BY <3>1, <3>2 DEF ItemBorn
  <2> QED BY <2>1, <2>2
<1> QED BY <1>2, <1>3 DEF ItemsBorn

LEMMA AdditionsAheadStep ==
    ASSUME ChecklistInv, NEW r \in Requests, ChecklistStep(r)
    PROVE  AdditionsAhead'
<1>0. ChecklistTyped /\ PlacingStands /\ AdditionsAhead
  BY DEF ChecklistInv
<1>1. Moves(r) /\ ChecklistGoesOn(r) /\ PlacedChecklist(r)
  BY <1>0, ChecklistMoves DEF ChecklistTyped
<1>2. SUFFICES ASSUME NEW q \in Requests, pc'[q] = "insertItem", call'[q].index = None, q \notin kAged',
                      NEW i \in Items, items'[i] # None, items'[i].task = call'[q].task
               PROVE  items'[i].index < held'[q]
  BY DEF AdditionsAhead, K!ItemsOf
<1>3. CASE q = r
  <2>1. /\ pc[r] = "highest" /\ held'[r] = K!NextIndex(call[r].task) /\ call'[r] = call[r]
    BY <1>1, <1>2, <1>3 DEF Moves, ChecklistGoesOn
  <2>2. UNCHANGED items
    <3>1. ~K!InsertItem(r) /\ ~K!DeleteItem(r) /\ ~K!RemoveTask(r) /\ ~K!Place(r)
      BY <1>0, <2>1, ItemStored, ItemsDropped, ItemPlaced
    <3> QED BY <3>1, ChecklistReading DEF ChecklistStep, ChecklistReads
  <2> QED BY <1>0, <1>2, <1>3, <2>1, <2>2, NextIsAbove DEF K!ItemsOf
<1>4. CASE q # r
  <2>1. pc[q] = "insertItem" /\ call[q] = call'[q] /\ held'[q] = held[q]
    BY <1>1, <1>2, <1>4 DEF Moves
  <2>2. q \notin kAged /\ items'[i] = items[i]
    BY <1>0, <1>2, <1>4, <2>1, UncrossedList
  <2> QED BY <1>0, <1>2, <2>1, <2>2 DEF AdditionsAhead, K!ItemsOf
<1> QED BY <1>3, <1>4


LEMMA ItemCount == ASSUME NEW S PROVE K!Cardinality(S) = Cardinality(S)
BY DEF K!Cardinality, Cardinality

\* A reorder that finds as many items as its list is long names each of them
\* once, and all it names are there.
LEMMA NamedOnce ==
    ASSUME NEW r \in Requests, call[r] \in ChecklistCalls, call[r].kind = "reorder",
           K!Cardinality(K!Named(r) \cap K!ItemsOf(call[r].task)) = K!Len(call[r].items)
    PROVE  /\ K!Named(r) \subseteq K!ItemsOf(call[r].task)
           /\ \A n, m \in DOMAIN call[r].items : call[r].items[n] = call[r].items[m] => n = m
<1> DEFINE f == call[r].items
           size == K!Len(f)
           range == {f[n] : n \in 1 .. size}
           found == range \cap K!ItemsOf(call[r].task)
<1>1. size \in Nat /\ size > 0 /\ DOMAIN f = 1 .. size /\ f \in [1 .. size -> Items]
  BY ChecklistCallFields
<1>2. K!Named(r) = range
  BY <1>1 DEF K!Named
<1>3. Cardinality(found) = size
  BY <1>2, ItemCount
<1> HIDE DEF f, size
<1>4. f \in Surjection(1 .. size, range)
  BY <1>1 DEF Surjection
<1>5. IsFiniteSet(1 .. size) /\ Cardinality(1 .. size) = size
  <2>1. 1 \in Int /\ size \in Int
    BY <1>1
  <2>2. /\ IsFiniteSet(1 .. size)
        /\ Cardinality(1 .. size) = IF 1 > size THEN 0 ELSE size - 1 + 1
    BY <2>1, FS_Interval
  <2> QED BY <1>1, <2>2
<1> HIDE DEF range
<1>6. /\ IsFiniteSet(range) /\ Cardinality(range) <= size
      /\ Cardinality(range) = size <=> f \in Injection(1 .. size, range)
  BY <1>4, <1>5, FS_Surjection
<1>7. /\ Cardinality(found) <= Cardinality(range)
      /\ Cardinality(range) = Cardinality(found) => range = found
  BY <1>6, FS_Subset
<1>8. Cardinality(range) \in Nat
  BY <1>6, FS_CardinalityType
<1>9. Cardinality(range) = size
  BY <1>1, <1>3, <1>6, <1>7, <1>8
<1>10. range = found /\ f \in Injection(1 .. size, range)
  BY <1>3, <1>6, <1>7, <1>9
<1>11. \A n, m \in 1 .. size : f[n] = f[m] => n = m
  BY <1>10 DEF Injection, IsInjective
<1>12. range \subseteq K!ItemsOf(call[r].task)
  BY <1>10
<1> QED BY <1>1, <1>2, <1>11, <1>12 DEF f

\* A reorder starts with a list that stands.
LEMMA ReorderStarts ==
    ASSUME ChecklistInv, NEW r \in Requests, ChecklistStep(r), pc[r] = "itemsOf", pc'[r] = "placing"
    PROVE  ReorderStands(r)'
<1>1. ChecklistTyped /\ ItemsBorn /\ Moves(r) /\ ChecklistGoesOn(r) /\ PlacedChecklist(r)
  BY ChecklistMoves DEF ChecklistInv, ChecklistTyped
<1> DEFINE found == K!Named(r) \cap K!ItemsOf(call[r].task)
<1>2. /\ call[r] \in ChecklistCalls /\ call[r].kind = "reorder" /\ call'[r] = call[r]
      /\ K!Cardinality(found) = K!Len(call[r].items)
      /\ held'[r] = [left |-> DOMAIN call[r].items, failed |-> FALSE, all |-> found = K!ItemsOf(call[r].task)]
  BY <1>1 DEF PlacedChecklist, ChecklistGoesOn, Moves
<1>3. /\ K!Named(r) \subseteq K!ItemsOf(call[r].task)
      /\ \A n, m \in DOMAIN call[r].items : call[r].items[n] = call[r].items[m] => n = m
  BY <1>2, NamedOnce
<1>4. UNCHANGED items
  <2>1. ~K!InsertItem(r) /\ ~K!DeleteItem(r) /\ ~K!RemoveTask(r) /\ ~K!Place(r)
    BY <1>1, ItemStored, ItemsDropped, ItemPlaced
  <2> QED BY <2>1, ChecklistReading DEF ChecklistStep, ChecklistReads
<1>5. held'[r].left = DOMAIN call[r].items /\ (held'[r].all => found = K!ItemsOf(call[r].task))
  <2> DEFINE all == found = K!ItemsOf(call[r].task)
             row == [left |-> DOMAIN call[r].items, failed |-> FALSE, all |-> all]
  <2>1. row.left = DOMAIN call[r].items /\ row.all = all
    <3> HIDE DEF all
    <3> QED OBVIOUS
  <2>2. held'[r] = row
    BY <1>2
  <2> HIDE DEF row
  <2> QED BY <2>1, <2>2
<1>6. ASSUME NEW n \in DOMAIN call[r].items
      PROVE  ItemBorn(call[r].items[n])' /\ items[call[r].items[n]].task = call[r].task
  <2>1. PICK i : i = call[r].items[n]
    OBVIOUS
  <2>2. i \in Items /\ items[i] # None /\ items[i].task = call[r].task
    BY <1>3, <2>1 DEF K!Named, K!ItemsOf
  <2>3. ItemBorn(i)'
    BY <1>1, <2>2, ItemBornStays DEF ItemsBorn
  <2> QED BY <1>2, <2>1, <2>2, <2>3 DEF ItemBorn
<1>7. K!ItemsOf(call[r].task)' = K!ItemsOf(call[r].task) /\ K!Named(r)' = K!Named(r)
  BY <1>2, <1>4 DEF K!ItemsOf, K!Named
<1>8. (held[r].all => K!ItemsOf(call[r].task) \subseteq K!Named(r))'
  BY <1>2, <1>5, <1>7
<1> QED BY <1>2, <1>3, <1>4, <1>5, <1>6, <1>8 DEF ReorderStands

\* And keeps it as it places one item.
LEMMA ReorderGoesOn ==
    ASSUME ChecklistInv, NEW r \in Requests, K!Place(r)
    PROVE  /\ ReorderStands(r)'
           /\ \A n \in DOMAIN call[r].items :
                 r \notin kAged /\ n \notin held'[r].left /\ items'[call[r].items[n]] # None
                     => items'[call[r].items[n]].index = n - 1
<1>1. ChecklistTyped /\ Moves(r) /\ pc[r] = "placing" /\ ReorderStands(r)
  BY ItemPlaced DEF ChecklistInv, PlacingStands
<1>2. PICK n \in held[r].left :
         LET i == call[r].items[n]
         IN  /\ n \in DOMAIN call[r].items /\ i \in Items
             /\ items[i] = None => items' = items
             /\ items[i] # None => /\ items'[i] # None /\ items'[i].task = items[i].task
                                   /\ items'[i].index = n - 1
             /\ \A j \in Items \ {i} : items'[j] = items[j]
             /\ kAged' = kAged \cup (K!Deciding(call[r].task) \ {r})
             /\ held'[r].left = held[r].left \ {n} /\ (held'[r].all <=> held[r].all)
  BY <1>1, ItemPlaced
<1>3. call'[r] = call[r] /\ (r \in kAged' <=> r \in kAged)
  BY <1>1, <1>2 DEF Moves
<1>4. ASSUME NEW m \in DOMAIN call[r].items
      PROVE  LET i == call[r].items[m]
             IN  /\ i \in Items /\ ItemBorn(i)'
                 /\ items'[i] # None => items'[i].task = call[r].task
                 /\ r \notin kAged /\ m \notin held'[r].left /\ items'[i] # None => items'[i].index = m - 1
  <2>1. call[r].items[m] \in Items
    BY <1>1, ChecklistCallFields DEF ChecklistTyped, PlacedChecklist
  <2>2. ItemBorn(call[r].items[m])'
    <3>1. PICK i : i = call[r].items[m]
      OBVIOUS
    <3>2. ItemBorn(i)'
      BY <1>1, <3>1, ItemBornStays DEF ReorderStands, ChecklistStep
    <3> QED BY <1>3, <3>1, <3>2 DEF ItemBorn
  <2>3. CASE m = n
    BY <1>1, <1>2, <2>1, <2>2, <2>3 DEF ReorderStands
  <2>4. CASE m # n
    <3>1. call[r].items[m] # call[r].items[n]
      BY <1>1, <1>2, <2>4 DEF ReorderStands
    <3> QED BY <1>1, <1>2, <2>1, <2>2, <2>4, <3>1 DEF ReorderStands
  <2> QED BY <2>3, <2>4
<1>5. K!ItemsOf(call[r].task)' \subseteq K!ItemsOf(call[r].task)
  BY <1>2, <1>3 DEF K!ItemsOf
<1>6. K!Named(r)' = K!Named(r)
  BY <1>3 DEF K!Named
<1>7. (r \notin kAged /\ held[r].all => K!ItemsOf(call[r].task) \subseteq K!Named(r))'
  BY <1>1, <1>2, <1>3, <1>5, <1>6 DEF ReorderStands
<1>8. \A m, k \in DOMAIN call[r].items : call[r].items[m] = call[r].items[k] => m = k
  BY <1>1 DEF ReorderStands
<1> QED BY <1>3, <1>4, <1>7, <1>8 DEF ReorderStands

LEMMA PlacingStandsStep ==
    ASSUME ChecklistInv, NEW r \in Requests, ChecklistStep(r)
    PROVE  PlacingStands'
<1>0. ChecklistTyped /\ ItemsBorn /\ PlacingStands
  BY DEF ChecklistInv
<1>1. Moves(r) /\ ChecklistGoesOn(r)
  BY <1>0, ChecklistMoves
<1>2. SUFFICES ASSUME NEW q \in Requests, pc'[q] = "placing" PROVE ReorderStands(q)'
  BY DEF PlacingStands
<1>3. CASE q = r
  BY <1>1, <1>2, <1>3, ReorderStarts, ReorderGoesOn DEF ChecklistGoesOn
<1>4. CASE q # r
  <2>1. pc[q] = "placing" /\ call'[q] = call[q] /\ held'[q] = held[q] /\ ReorderStands(q)
    BY <1>0, <1>1, <1>2, <1>4 DEF Moves, PlacingStands
  <2>2. q \notin kAged' =>
           /\ q \notin kAged
           /\ \A i \in Items : items'[i] # None /\ items'[i].task = call[q].task => items'[i] = items[i]
    BY <1>0, <1>4, <2>1, UncrossedList
  <2>3. ASSUME NEW n \in DOMAIN call[q].items
        PROVE  LET i == call[q].items[n]
               IN  /\ ItemBorn(i)'
                   /\ items'[i] # None => items'[i].task = call[q].task
                   /\ q \notin kAged' /\ n \notin held[q].left /\ items'[i] # None => items'[i].index = n - 1
    <3>1. call[q].items[n] \in Items
      BY <1>0, <2>1, ChecklistCallFields DEF ChecklistTyped, PlacedChecklist
    <3>2. ItemBorn(call[q].items[n])
      BY <2>1 DEF ReorderStands
    <3>3. ItemBorn(call[q].items[n])'
      <4>1. PICK i : i = call[q].items[n]
        OBVIOUS
      <4>2. ItemBorn(i)'
        BY <1>0, <3>2, <4>1, ItemBornStays
      <4> QED BY <2>1, <4>1, <4>2 DEF ItemBorn
    <3>4. items'[call[q].items[n]] # None =>
             items[call[q].items[n]] # None /\ items'[call[q].items[n]].task = items[call[q].items[n]].task
      BY <1>0, <3>1, <3>2, ItemsStay
    <3> QED BY <2>1, <2>2, <3>1, <3>3, <3>4 DEF ReorderStands
  <2>4. q \notin kAged' => K!ItemsOf(call[q].task)' \subseteq K!ItemsOf(call[q].task)
    BY <2>1, <2>2 DEF K!ItemsOf
  <2>5. K!Named(q)' = K!Named(q)
    BY <2>1 DEF K!Named
  <2>6. (q \notin kAged /\ held[q].all => K!ItemsOf(call[q].task) \subseteq K!Named(q))'
    BY <2>1, <2>2, <2>4, <2>5 DEF ReorderStands
  <2>7. \A n, m \in DOMAIN call[q].items : call[q].items[n] = call[q].items[m] => n = m
    BY <2>1 DEF ReorderStands
  <2> QED BY <2>1, <2>3, <2>6, <2>7 DEF ReorderStands
<1> QED BY <1>3, <1>4


\* The reorder that is about to move one of two items is still about to, unless
\* the step was its placing of that item.
LEMMA ClashStillPasses ==
    ASSUME ChecklistInv, NEW r \in Requests, ChecklistStep(r),
           NEW i \in Items, NEW j \in Items, Clash(i, j),
           items'[i] = items[i], items'[j] = items[j],
           K!Place(r) => \E n \in held[r].left :
                            /\ call[r].items[n] \notin {i, j}
                            /\ held'[r].left = held[r].left \ {n}
                            /\ held'[r].left # {} => pc'[r] = "placing"
    PROVE  \E q \in Requests :
              pc'[q] = "placing" /\ call'[q].task = items'[i].task /\ {i, j} \cap ToPlace(q)' # {}
<1>1. PICK q \in Requests :
         pc[q] = "placing" /\ call[q].task = items[i].task /\ {i, j} \cap ToPlace(q) # {}
  BY DEF ChecklistInv, ClashesPass
<1>2. Moves(r) /\ ChecklistGoesOn(r)
  BY ChecklistMoves DEF ChecklistInv
<1>3. call'[q] = call[q]
  BY <1>1, <1>2 DEF Moves
<1>4. PICK m \in held[q].left : call[q].items[m] \in {i, j}
  BY <1>1 DEF ToPlace
<1>5. pc'[q] = "placing" /\ m \in held'[q].left
  <2>1. CASE q # r
    BY <1>1, <1>2, <1>4, <2>1 DEF Moves
  <2>2. CASE q = r
    <3>1. K!Place(r)
      BY <1>1, <1>2, <2>2 DEF ChecklistGoesOn
    <3>2. PICK n \in held[r].left :
             /\ call[r].items[n] \notin {i, j}
             /\ held'[r].left = held[r].left \ {n}
             /\ held'[r].left # {} => pc'[r] = "placing"
      BY <3>1
    <3> QED BY <1>4, <2>2, <3>2
  <2> QED BY <2>1, <2>2
<1>6. call'[q].items[m] \in ToPlace(q)'
  BY <1>5 DEF ToPlace
<1> QED BY <1>1, <1>3, <1>4, <1>5, <1>6

LEMMA ClashesPassStep ==
    ASSUME ChecklistInv, NEW r \in Requests, ChecklistStep(r)
    PROVE  ClashesPass'
<1>0. ChecklistTyped /\ ItemsBorn /\ PlacingStands /\ AdditionsAhead
  BY DEF ChecklistInv
<1>1. Moves(r) /\ ChecklistGoesOn(r)
  BY <1>0, ChecklistMoves
<1> DEFINE Passes(i, j) ==
             \E q \in Requests :
                pc'[q] = "placing" /\ call'[q].task = items'[i].task /\ {i, j} \cap ToPlace(q)' # {}
<1>2. SUFFICES ASSUME NEW i \in Items, NEW j \in Items, Clash(i, j)' PROVE Passes(i, j)
  BY DEF ClashesPass
<1>3. /\ i # j /\ items'[i] # None /\ items'[j] # None
      /\ items'[i].task = items'[j].task /\ items'[i].index = items'[j].index
      /\ i \notin forced' /\ j \notin forced'
  BY <1>2 DEF Clash
<1>4. CASE ~K!Place(r)
  <2>1. items'[i] = items[i] /\ items'[j] = items[j] /\ i \notin forced /\ j \notin forced
    <3>1. CASE ChecklistReads(r)
      BY <1>3, <3>1, ChecklistReading
    <3>2. CASE K!DeleteItem(r) \/ K!RemoveTask(r)
      BY <1>0, <1>3, <3>2, ItemsDropped
    <3>3. CASE K!InsertItem(r) /\ UNCHANGED <<items, kAged, forced>>
      BY <1>3, <3>3
    <3>4. CASE K!InsertItem(r) /\ ~UNCHANGED <<items, kAged, forced>>
      <4> DEFINE x == call[r].item
      <4>1. /\ x \in Items /\ pc[r] = "insertItem" /\ items'[x].task = call[r].task
            /\ items'[x].index = IF call[r].index = None THEN held[r] ELSE call[r].index
            /\ \A k \in Items \ {x} : items'[k] = items[k]
            /\ forced' = IF call[r].index # None \/ r \in kAged THEN forced \cup {x} ELSE forced
        BY <1>0, <3>4, ItemStored
      <4>2. ASSUME NEW k \in Items, k # x, items'[k] # None, items'[k].task = items'[x].task,
                   items'[k].index = items'[x].index, x \notin forced'
            PROVE  FALSE
        <5>1. call[r].index = None /\ r \notin kAged /\ items'[x].index = held[r]
          BY <4>1, <4>2
        <5>2. k \in K!ItemsOf(call[r].task)
          BY <4>1, <4>2 DEF K!ItemsOf
        <5>3. items[k].index < held[r]
          BY <1>0, <4>1, <5>1, <5>2 DEF AdditionsAhead
        <5>4. items[k].index = held[r] /\ held[r] \in Nat
          BY <1>0, <4>1, <4>2, <5>1 DEF ChecklistTyped, PlacedChecklist
        <5> QED BY <5>3, <5>4
      <4>3. i # x /\ j # x
        BY <1>3, <4>2
      <4> QED BY <1>3, <4>1, <4>3
    <3> QED BY <1>4, <3>1, <3>2, <3>3, <3>4 DEF ChecklistStep, ChecklistReads
  <2>2. Clash(i, j)
    BY <1>3, <2>1 DEF Clash
  <2> QED BY <1>4, <2>1, <2>2, ClashStillPasses
<1>5. CASE K!Place(r)
  <2>1. PICK n \in held[r].left :
          LET x == call[r].items[n]
              left == held[r].left \ {n}
          IN  /\ n \in DOMAIN call[r].items /\ x \in Items /\ n - 1 \in Nat
              /\ items[x] = None => items' = items
              /\ items[x] # None => /\ items'[x] # None /\ items'[x].task = items[x].task
                                    /\ items'[x].index = n - 1
              /\ \A k \in Items \ {x} : items'[k] = items[k]
              /\ forced' = IF r \in kAged \/ ~held[r].all THEN forced \cup {x} ELSE forced \ {x}
              /\ held'[r].left = left
              /\ left # {} => pc'[r] = "placing"
    BY <1>0, <1>5, ItemPlaced
  <2> DEFINE x == call[r].items[n]
  <2>2. pc[r] = "placing" /\ call'[r] = call[r] /\ ReorderStands(r)
    BY <1>0, <1>1, <1>5, ItemPlaced DEF PlacingStands, Moves
  <2>3. CASE i # x /\ j # x
    <3>1. items'[i] = items[i] /\ items'[j] = items[j] /\ i \notin forced /\ j \notin forced
      BY <1>3, <2>1, <2>3
    <3>2. Clash(i, j)
      BY <1>3, <3>1 DEF Clash
    <3>3. \E k \in held[r].left :
             /\ call[r].items[k] \notin {i, j}
             /\ held'[r].left = held[r].left \ {k}
             /\ held'[r].left # {} => pc'[r] = "placing"
      BY <2>1, <2>3
    <3> QED BY <3>1, <3>2, <3>3, ClashStillPasses
  <2>4. CASE i = x \/ j = x
    <3>1. r \notin kAged /\ held[r].all
      BY <1>3, <2>1, <2>4
    <3>2. items[x] # None /\ items[x].task = call[r].task
      BY <1>3, <2>1, <2>2, <2>4 DEF ReorderStands
    <3>3. PICK k \in {i, j} : k # x
      BY <1>3
    <3>4. /\ k \in Items /\ items'[k] = items[k] /\ items[k] # None /\ items[k].task = call[r].task
          /\ items[k].index = n - 1 /\ items'[i].task = call[r].task
      BY <1>3, <2>1, <2>4, <3>2, <3>3
    <3>5. PICK m \in DOMAIN call[r].items : k = call[r].items[m]
      <4>1. k \in K!Named(r)
        BY <2>2, <3>1, <3>4 DEF ReorderStands, K!ItemsOf
      <4> QED BY <4>1 DEF K!Named
    <3>6. m # n
      BY <3>3, <3>5
    <3>7. m \in held[r].left
      <4>1. SUFFICES ASSUME m \notin held[r].left PROVE FALSE
        OBVIOUS
      <4>2. items[k].index = m - 1
        BY <2>2, <3>1, <3>4, <3>5, <4>1 DEF ReorderStands
      <4>3. m \in Nat /\ n \in Nat
        BY <1>0, <2>1, <2>2, ChecklistCallFields DEF ChecklistTyped, PlacedChecklist
      <4> QED BY <3>4, <3>6, <4>2, <4>3
    <3>8. m \in held'[r].left /\ pc'[r] = "placing"
      BY <2>1, <3>6, <3>7
    <3>9. k \in ToPlace(r)'
      BY <2>2, <3>5, <3>8 DEF ToPlace
    <3> QED BY <2>2, <3>3, <3>4, <3>8, <3>9
  <2> QED BY <2>3, <2>4
<1> QED BY <1>4, <1>5

LEMMA ChecklistInvStep == ChecklistInv /\ [K!Next]_(K!vars) => ChecklistInv'
<1> SUFFICES ASSUME ChecklistInv, [K!Next]_(K!vars) PROVE ChecklistInv'
  OBVIOUS
<1>1. CASE K!Next
  <2>1. PICK r \in Requests : ChecklistStep(r)
    BY <1>1 DEF K!Next, ChecklistStep
  <2> QED BY <2>1, ChecklistTypedStep, ItemsBornStep, PlacingStandsStep, AdditionsAheadStep, ClashesPassStep
          DEF ChecklistInv
<1>2. CASE UNCHANGED K!vars
  <2> USE <1>2 DEF K!vars, K!handlers, K!tables, K!history
  <2>1. ChecklistTyped'
    BY DEF ChecklistInv, ChecklistTyped, K!TypeOK, K!Handling, Bounded, Framed, PlacedChecklist
  <2>2. ItemsBorn'
    BY DEF ChecklistInv, ItemsBorn, ItemBorn
  <2>3. PlacingStands'
    BY DEF ChecklistInv, PlacingStands, ReorderStands, ItemBorn, K!ItemsOf, K!Named
  <2>4. AdditionsAhead'
    BY DEF ChecklistInv, AdditionsAhead, K!ItemsOf
  <2>5. ClashesPass'
    <3>1. SUFFICES ASSUME NEW i \in Items, NEW j \in Items, Clash(i, j)'
                   PROVE  \E q \in Requests :
                             pc'[q] = "placing" /\ call'[q].task = items'[i].task /\ {i, j} \cap ToPlace(q)' # {}
      BY DEF ClashesPass
    <3>2. Clash(i, j)
      BY <3>1 DEF Clash
    <3>3. PICK q \in Requests :
             pc[q] = "placing" /\ call[q].task = items[i].task /\ {i, j} \cap ToPlace(q) # {}
      BY <3>2 DEF ChecklistInv, ClashesPass
    <3>4. ToPlace(q)' = ToPlace(q)
      BY DEF ToPlace
    <3> QED BY <3>3, <3>4
  <2> QED BY <2>1, <2>2, <2>3, <2>4, <2>5 DEF ChecklistInv
<1> QED BY <1>1, <1>2


LEMMA ChecklistsBeside == MCSpec => [](part = "checklists" => ChecklistInv)
<1> DEFINE Here == part = "checklists" => ChecklistInv
<1>1. MCInit => Here
  BY ChecklistInit DEF MCInit
<1>2. Here /\ [MCNext]_<<part, handlers, wVars, gVars, dVars, kVars, cVars, lVars>> => Here'
  <2> SUFFICES ASSUME Here, [MCNext]_<<part, handlers, wVars, gVars, dVars, kVars, cVars, lVars>>,
                      part' = "checklists"
               PROVE  ChecklistInv'
    OBVIOUS
  <2>1. part = "checklists" /\ ChecklistInv
    BY DEF MCNext
  <2>2. [K!Next]_(K!vars)
    BY <2>1 DEF MCNext, K!vars, K!handlers, K!tables, K!history, handlers, kVars
  <2> QED BY <2>1, <2>2, ChecklistInvStep
<1>3. MCSpec => []Here
  <2> HIDE DEF Here
  <2> QED BY <1>1, <1>2, PTL DEF MCSpec
<1> QED BY <1>3

\* No other part has a request at the label of a reorder.
LEMMA OthersPlaceNothing == MCSpec => [](part # "checklists" => \A r \in Requests : pc[r] # "placing")
<1> DEFINE Resting == part \notin {"workplace", "delegations", "checklists", "comments"} =>
                         \A r \in Requests : pc[r] = "idle"
<1>1. MCInit => Resting
  BY DEF MCInit, W!Init, W!HandlersInit
<1>2. Resting /\ [MCNext]_<<part, handlers, wVars, gVars, dVars, kVars, cVars, lVars>> => Resting'
  BY DEF MCNext, handlers
<1>3. MCSpec => []Resting
  <2> HIDE DEF Resting
  <2> QED BY <1>1, <1>2, PTL DEF MCSpec
<1>4. ASSUME Resting, part = "workplace" => WorkInv, part = "delegations" => DelegationInv,
             part = "comments" => CommentInv
      PROVE  part # "checklists" => \A r \in Requests : pc[r] # "placing"
  <2>1. part = "workplace" => \A r \in Requests : pc[r] # "placing"
    BY <1>4 DEF WorkInv, WorkTyped, W!TypeOK, W!Handling
  <2>2. part = "delegations" => \A r \in Requests : pc[r] # "placing"
    BY <1>4 DEF DelegationInv, DelegationTyped, D!TypeOK, D!Handling
  <2>3. part = "comments" => \A r \in Requests : pc[r] # "placing"
    BY <1>4 DEF CommentInv, CommentTyped, C!TypeOK, C!Handling
  <2>4. part \notin {"workplace", "delegations", "checklists", "comments"} =>
           \A r \in Requests : pc[r] # "placing"
    BY <1>4
  <2> QED BY <2>1, <2>2, <2>3, <2>4
<1> HIDE DEF Resting
<1> QED BY <1>3, <1>4, WorkplaceBeside, DelegationsBeside, CommentsBeside, PTL

\* A reorder that nothing crossed ends with the items where it was asked to
\* put them.
LEMMA ReorderedStep ==
    ASSUME ChecklistInv, NEW r \in Requests, ChecklistStep(r),
           NEW q \in Requests, pc[q] = "placing", answer'[q] = "ok", q \notin kAged,
           NEW n \in DOMAIN call[q].items, items'[call[q].items[n]] # None
    PROVE  items'[call[q].items[n]].index = n - 1
<1>1. Moves(r) /\ ChecklistGoesOn(r) /\ answer[q] = "none"
  BY ChecklistMoves DEF ChecklistInv, ChecklistTyped, PlacedChecklist
<1>2. q = r
  BY <1>1 DEF Moves
<1>3. K!Place(r)
  BY <1>1, <1>2 DEF ChecklistGoesOn
<1>4. held'[r].left = {}
  BY <1>1, <1>2, <1>3, ItemPlaced DEF ChecklistInv
<1> QED BY <1>2, <1>3, <1>4, ReorderGoesOn

\* Two items of a task share a position only if one was placed there by a
\* client, by a reorder of some of the items or by a call another placement
\* crossed; a reorder that was not crossed puts the items in the order it was
\* given (tasks.service.ts).
THEOREM ChecklistsHolding == MCSpec => ChecklistsHold
<1> DEFINE mcVars == <<part, handlers, wVars, gVars, dVars, kVars, cVars, lVars>>
           Here == part = "checklists" => ChecklistInv
           Elsewhere == part # "checklists" => \A r \in Requests : pc[r] # "placing"
           Reordered == \A r \in Requests :
                           pc[r] = "placing" /\ answer'[r] = "ok" /\ r \notin kAged =>
                               \A n \in DOMAIN call[r].items :
                                   items'[call[r].items[n]] # None => items'[call[r].items[n]].index = n - 1
           Distinct == part = "checklists" => K!PositionsDistinctUnlessForced
<1>1. Here => Distinct
  <2> SUFFICES ASSUME ChecklistInv, NEW i \in Items, NEW j \in Items,
                      i # j, items[i] # None, items[j] # None,
                      items[i].task = items[j].task, items[i].index = items[j].index,
                      \A q \in K!At("placing") : call[q].task # items[i].task,
                      {i, j} \cap forced = {}
               PROVE  FALSE
    BY DEF K!PositionsDistinctUnlessForced
  <2>1. Clash(i, j)
    BY DEF Clash
  <2> QED BY <2>1 DEF ChecklistInv, ClashesPass, K!At
<1>2. Here /\ Elsewhere /\ [MCNext]_mcVars => [Reordered]_(K!vars)
  <2> SUFFICES ASSUME Here, Elsewhere, [MCNext]_mcVars, ~UNCHANGED K!vars PROVE Reordered
    OBVIOUS
  <2>1. CASE part # "checklists"
    BY <2>1
  <2>2. CASE part = "checklists"
    <3>1. PICK r \in Requests : ChecklistStep(r)
      BY <2>2 DEF MCNext, K!Next, ChecklistStep, K!vars, K!handlers, K!tables, K!history, handlers, kVars
    <3> QED BY <2>2, <3>1, ReorderedStep
  <2> QED BY <2>1, <2>2
<1>3. MCSpec => []Here /\ []Elsewhere
  BY ChecklistsBeside, OthersPlaceNothing, PTL
<1> HIDE DEF Here, Elsewhere, Reordered, Distinct
<1>4. MCSpec => []Distinct /\ [][Reordered]_(K!vars)
  BY <1>1, <1>2, <1>3, PTL DEF MCSpec, mcVars
<1> QED BY <1>4 DEF ChecklistsHold, K!ReorderedAsAsked, Reordered, Distinct

-----------------------------------------------------------------------------
(***************************************************************************)
(* Listings: type correctness                                              *)
(***************************************************************************)

ListRequests == Readers \cup Writers
ListReading == {"scope", "read", "rest"}

PageRecord == [page: Nat \ {0}, seen: Seq(Ids), within: SUBSET Parents, data: Seq(Ids) \cup {None},
               total: Nat \cup {None}, present: SUBSET Ids]

\* Where a request is says what it was called with and what it holds.
PlacedList(r) ==
    /\ lPc[r] = "idle" => lCall[r] = L!NoCall
    /\ lPc[r] # "idle" => lCall[r] \in ListingCalls
    /\ lPc[r] # "done" => lAnswer[r] = "none"
    /\ lPc[r] \in ListReading => lCall[r].kind = "walk"
    /\ lPc[r] = "write" => lCall[r].kind # "walk"
    /\ lCall[r].kind = "walk" => lHeld[r] \in PageRecord
    /\ lPc[r] = "scope" => lCall[r].list.scope # "none"
    /\ lPc[r] \in {"scope", "read"} => lHeld[r].data = None /\ lHeld[r].total = None
    /\ lPc[r] = "rest" => lHeld[r].data # None \/ lHeld[r].total # None

ListFramed ==
    /\ lPc = [q \in ListRequests |-> lPc[q]] /\ lCall = [q \in ListRequests |-> lCall[q]]
    /\ lHeld = [q \in ListRequests |-> lHeld[q]] /\ lAnswer = [q \in ListRequests |-> lAnswer[q]]

\* Rows differ in age.
AgesDiffer ==
    /\ IsFiniteSet(L!Present)
    /\ \A i, j \in L!Present : rows[i].at = rows[j].at => i = j

\* A row comes from the seeds or from an insert that is over.
RowBorn(i) ==
    \/ \E n \in DOMAIN SeedRows : SeedRows[n].id = i
    \/ \E q \in ListRequests : lCall[q].kind = "insert" /\ lCall[q].id = i /\ lPc[q] = "done"

RowsBorn ==
    /\ \A q \in ListRequests :
          lCall[q].kind = "insert" =>
              /\ \A n \in DOMAIN SeedRows : SeedRows[n].id # lCall[q].id
              /\ \A p \in ListRequests : lCall[p].kind = "insert" /\ lCall[p].id = lCall[q].id => p = q
    /\ \A i \in L!Present : RowBorn(i)

ListTyped == L!TypeOK /\ ListFramed /\ AgesDiffer /\ RowsBorn /\ \A r \in ListRequests : PlacedList(r)

ListStep(r) ==
    \/ L!StartWalk(r) \/ L!ReadScope(r) \/ L!ReadRows(r) \/ L!CountRows(r) \/ L!NextPage(r)
    \/ L!StartWrite(r) \/ L!Write(r)

\* A step is one request's.
OneLists(r) ==
    \A q \in ListRequests \ {r} :
        lPc'[q] = lPc[q] /\ lCall'[q] = lCall[q] /\ lHeld'[q] = lHeld[q] /\ lAnswer'[q] = lAnswer[q]

\* What each call carries.
LEMMA ListCallFields ==
    ASSUME NEW c \in ListingCalls
    PROVE  /\ c.kind \in {"walk", "insert", "rekey", "remove", "leave", "drop"}
           /\ c.kind \in {"insert", "rekey", "remove"} => c.id \in Ids
           /\ c.kind \in {"insert", "rekey"} => c.key \in Nat
           /\ c.kind \in {"insert", "leave", "drop"} => c.parent \in Parents
           /\ c.kind = "walk" => /\ c.parent \in Parents /\ c.limit \in Nat /\ c.list \in L!Listings
                                 /\ c.sort \in {"age", "key"}
                                 /\ c.order \in {"asc", "desc", "any", "descApart"}
BY PartsAssumption DEF L!ListingsAssumption, L!WalkCall, L!RowCall, L!ParentCall

LEMMA ListKinds == ASSUME NEW list \in L!Listings
                  PROVE  list.scope \in {"none", "parent", "owned", "received"}
BY DEF L!Listings, L!Listing, L!FindAllTasks, L!FindAllTasksOfAll, L!FindAllProjects, L!FindAllProjectsOfAll,
       L!GetTaskAttachments, L!GetTaskAssignments, L!GetTaskDependencies, L!GetChecklistItems, L!GetTaskTimeLogs,
       L!GetComments, L!FindAllWorkspaces, L!FindAllAssignments, L!FindAllShares, L!FindAllTags,
       L!GetUserNotifications, L!ListFiles, L!FindAllCompanies, L!FindAllContacts, L!FindAllActivities,
       L!FindAllDeals, L!FindAllTickets, L!FindAllProducts, L!FindAllCampaigns, L!FindAllForms,
       L!FindAllSubmissions, L!GetSharedContent, L!GetSegmentContacts

LEMMA NoneNoRow == None \notin L!Row /\ None \notin Nat /\ None \notin Seq(Ids)
BY PartsAssumption DEF L!ListingsAssumption

LEMMA LimitIsNat ==
    ASSUME NEW r, lCall[r] \in ListingCalls, lCall[r].kind = "walk"
    PROVE  L!Limit(r) \in Nat
BY PartsAssumption, ListCallFields DEF L!ListingsAssumption, L!Limit


\* Of rows in a strict order, the m-th has m rows up to it: those that come
\* with it or before it.
LEMMA RankInOrder ==
    ASSUME NEW M, IsFiniteSet(M), NEW upTo \in [M -> SUBSET M],
           NEW s \in [1 .. Cardinality(M) -> M],
           \A k, m \in 1 .. Cardinality(M) : s[k] = s[m] => k = m,
           \A k, m \in 1 .. Cardinality(M) : k <= m => s[k] \in upTo[s[m]],
           \A i, j \in M : i \in upTo[j] /\ j \in upTo[i] => i = j
    PROVE  /\ \A i \in M : \E m \in 1 .. Cardinality(M) : s[m] = i
           /\ \A m \in 1 .. Cardinality(M) : Cardinality(upTo[s[m]]) = m
<1> DEFINE size == Cardinality(M)
<1>1. size \in Nat
  BY FS_CardinalityType
<1>2. IsFiniteSet(1 .. size) /\ Cardinality(1 .. size) = size
  BY <1>1, FS_Interval
<1>3. s \in Injection(1 .. size, M)
  BY DEF Injection, IsInjective
<1>4. s \in Surjection(1 .. size, M)
  <2> HIDE DEF size
  <2> QED BY <1>2, <1>3, FS_Injection DEF size
<1>5. \A i \in M : \E m \in 1 .. size : s[m] = i
  BY <1>4 DEF Surjection
<1>6. ASSUME NEW m \in 1 .. size
      PROVE  Cardinality(upTo[s[m]]) = m
  <2> DEFINE before == upTo[s[m]]
             f == [k \in 1 .. m |-> s[k]]
  <2>1. m \in Nat /\ 1 .. m \subseteq 1 .. size
    BY <1>1
  <2>2. \A k \in 1 .. m : s[k] \in before
    BY <2>1
  <2>3. \A j \in before : \E k \in 1 .. m : s[k] = j
    <3> SUFFICES ASSUME NEW j \in before PROVE \E k \in 1 .. m : s[k] = j
      OBVIOUS
    <3>1. PICK k \in 1 .. size : s[k] = j
      BY <1>5
    <3>2. CASE k > m
      <4>1. s[m] \in upTo[s[k]]
        BY <1>1, <3>2
      <4>2. s[k] = s[m]
        BY <3>1, <4>1
      <4> QED BY <1>1, <3>2, <4>2
    <3> QED BY <1>1, <3>1, <3>2
  <2>4. f \in Bijection(1 .. m, before)
    BY <2>1, <2>2, <2>3 DEF Bijection, Injection, IsInjective, Surjection
  <2>5. ExistsBijection(1 .. m, before)
    BY <2>4 DEF ExistsBijection
  <2> QED BY <2>1, <2>5, FS_CountingElements
<1> QED BY <1>5, <1>6

\* The next multiple.
LEMMA NextMultiple ==
    ASSUME NEW a \in Nat, NEW b \in Nat
    PROVE  a * b \in Nat /\ (a + 1) * b = a * b + b
OBVIOUS

\* The last page ends with the last row.
LEMMA LastPage ==
    ASSUME NEW total \in Nat, NEW page \in Nat, NEW limit \in Nat, limit # 0,
           ~(page < (total + limit - 1) \div limit)
    PROVE  total <= page * limit
<1> DEFINE q == (total + limit - 1) \div limit
           rest == (total + limit - 1) % limit
<1>1. q \in Int /\ rest \in 0 .. limit - 1 /\ total + limit - 1 = limit * q + rest
  OBVIOUS
<1>2. q <= page
  BY <1>1
<1>3. limit * q <= limit * page
  BY <1>1, <1>2
<1> QED BY <1>1, <1>3

-----------------------------------------------------------------------------
(***************************************************************************)
(* Listings: the pages of a reader                                         *)
(***************************************************************************)

\* The rows up to i in the order of the reader.
UpTo(q, i) == {j \in L!Matching(q) : L!Follows(lCall[q], j, i)}
Rank(q, i) == Cardinality(UpTo(q, i))

Distinct(s) == \A m, n \in DOMAIN s : s[m] = s[n] => m = n

\* The reader asked for his rows by their age.
LEMMA ByAge ==
    ASSUME ListTyped, NEW q \in ListRequests, lCall[q].kind = "walk", ~L!Loose(q)
    PROVE  /\ lCall[q] \in ListingCalls
           /\ \A i, j \in Ids : L!Follows(lCall[q], j, i) <=>
                 IF lCall[q].order = "asc" THEN rows[j].at <= rows[i].at ELSE rows[j].at >= rows[i].at
<1>1. lPc[q] # "idle"
  BY DEF ListTyped, PlacedList, L!NoCall
<1>2. lCall[q] \in ListingCalls
  BY <1>1 DEF ListTyped, PlacedList
<1>3. lCall[q].sort = "age" /\ lCall[q].order \in {"asc", "desc", "descApart"}
  BY <1>2, ListCallFields DEF L!Loose
<1> QED BY <1>2, <1>3 DEF L!Follows

LEMMA PresentTyped ==
    ASSUME ListTyped
    PROVE  /\ L!Present \subseteq Ids /\ IsFiniteSet(L!Present)
           /\ \A i \in L!Present : rows[i] \in L!Row /\ rows[i].at \in Nat /\ rows[i].parent \in Parents
BY DEF ListTyped, AgesDiffer, L!TypeOK, L!Present, L!Row

LEMMA MatchingFinite ==
    ASSUME ListTyped, NEW q
    PROVE  /\ L!Matching(q) \subseteq L!Present /\ IsFiniteSet(L!Matching(q))
           /\ Cardinality(L!Matching(q)) \in Nat
<1>1. L!Matching(q) \subseteq L!Present
  BY DEF L!Matching
<1> QED BY <1>1, PresentTyped, FS_Subset, FS_CardinalityType

\* A row that matches is up to itself; no rank exceeds the number of rows.
LEMMA RankWithin ==
    ASSUME ListTyped, NEW q \in ListRequests, lCall[q].kind = "walk", ~L!Loose(q), NEW i \in L!Matching(q)
    PROVE  /\ IsFiniteSet(UpTo(q, i)) /\ Rank(q, i) \in Nat
           /\ 1 <= Rank(q, i) /\ Rank(q, i) <= Cardinality(L!Matching(q))
<1>1. UpTo(q, i) \subseteq L!Matching(q)
  BY DEF UpTo
<1>2. IsFiniteSet(UpTo(q, i)) /\ Rank(q, i) \in Nat /\ Rank(q, i) <= Cardinality(L!Matching(q))
  BY <1>1, MatchingFinite, FS_Subset, FS_CardinalityType DEF Rank
<1>3. i \in UpTo(q, i)
  BY ByAge, PresentTyped, MatchingFinite DEF UpTo
<1>4. Rank(q, i) # 0
  BY <1>2, <1>3, FS_EmptySet DEF Rank
<1> QED BY <1>2, <1>4

\* What a statement fetches: rows that match, each at its rank.
LEMMA OrderedRanks ==
    ASSUME ListTyped, NEW q \in ListRequests, lCall[q].kind = "walk",
           NEW s \in L!Orderings(q, L!Matching(q))
    PROVE  /\ s \in [1 .. Cardinality(L!Matching(q)) -> L!Matching(q)]
           /\ ~L!Loose(q) =>
                 /\ \A i \in L!Matching(q) : \E m \in 1 .. Cardinality(L!Matching(q)) : s[m] = i
                 /\ \A m \in 1 .. Cardinality(L!Matching(q)) : Rank(q, s[m]) = m
<1> DEFINE M == L!Matching(q)
           before == [i \in M |-> UpTo(q, i)]
<1>0. L!Cardinality(M) = Cardinality(M)
  BY DEF L!Cardinality, Cardinality
<1>1. /\ s \in [1 .. Cardinality(M) -> M]
      /\ \A k, m \in 1 .. Cardinality(M) : s[k] = s[m] => k = m
      /\ \A k, m \in 1 .. Cardinality(M) : k < m => L!Follows(lCall[q], s[k], s[m])
  BY <1>0 DEF L!Orderings, L!SetToSeqs
<1>2. ASSUME ~L!Loose(q)
      PROVE  /\ \A i \in M : \E m \in 1 .. Cardinality(M) : s[m] = i
             /\ \A m \in 1 .. Cardinality(M) : Cardinality(before[s[m]]) = m
  <2>1. M \subseteq Ids /\ IsFiniteSet(M) /\ Cardinality(M) \in Nat /\ \A i \in M : rows[i].at \in Nat
    BY MatchingFinite, PresentTyped
  <2>2. \A i, j \in M : L!Follows(lCall[q], j, i) <=>
           IF lCall[q].order = "asc" THEN rows[j].at <= rows[i].at ELSE rows[j].at >= rows[i].at
    BY <1>2, <2>1, ByAge
  <2>3. \A i, j \in M : j \in before[i] <=> L!Follows(lCall[q], j, i)
    BY DEF UpTo
  <2>4. \A i, j \in M : i \in before[j] /\ j \in before[i] => i = j
    BY <2>1, <2>2, <2>3, MatchingFinite DEF ListTyped, AgesDiffer
  <2>5. \A k, m \in 1 .. Cardinality(M) : k <= m => s[k] \in before[s[m]]
    <3> SUFFICES ASSUME NEW k \in 1 .. Cardinality(M), NEW m \in 1 .. Cardinality(M), k <= m
                 PROVE  s[k] \in before[s[m]]
      OBVIOUS
    <3>1. CASE k = m
      BY <1>1, <2>1, <2>2, <2>3, <3>1
    <3>2. CASE k < m
      BY <1>1, <2>3, <3>2
    <3> QED BY <2>1, <3>1, <3>2
  <2>6. before \in [M -> SUBSET M]
    BY DEF UpTo
  <2> HIDE DEF before, M
  <2> QED BY <1>1, <2>1, <2>4, <2>5, <2>6, RankInOrder
<1>3. \A m \in 1 .. Cardinality(M) : before[s[m]] = UpTo(q, s[m])
  BY <1>1
<1> QED BY <1>1, <1>2, <1>3 DEF Rank


\* A page has the rows whose ranks follow those of the pages before it.
LEMMA PageRanks ==
    ASSUME ListTyped, NEW q \in ListRequests, lCall[q].kind = "walk", lCall[q] \in ListingCalls,
           NEW s \in L!Orderings(q, L!Matching(q)), NEW k \in Nat, lHeld[q].page = k + 1
    PROVE  LET data == L!Page(s, q)
               limit == L!Limit(q)
           IN  /\ data \in Seq(L!Matching(q))
               /\ ~L!Loose(q) =>
                     /\ Distinct(data)
                     /\ \A n \in DOMAIN data :
                           k * limit < Rank(q, data[n]) /\ Rank(q, data[n]) <= k * limit + limit
                     /\ \A i \in L!Matching(q) :
                           k * limit < Rank(q, i) /\ Rank(q, i) <= k * limit + limit =>
                               \E n \in DOMAIN data : data[n] = i
<1> DEFINE M == L!Matching(q)
           size == Cardinality(M)
           limit == L!Limit(q)
           skip == k * limit
           end == IF skip + limit > size THEN size ELSE skip + limit
           data == L!Page(s, q)
<1>1. size \in Nat /\ limit \in Nat /\ skip \in Nat /\ end \in Nat
  <2>1. size \in Nat /\ limit \in Nat
    BY MatchingFinite, LimitIsNat
  <2> HIDE DEF size, limit
  <2>2. skip \in Nat
    BY <2>1, NextMultiple
  <2> QED BY <2>1, <2>2
<1>2. s \in [1 .. size -> M] /\ s \in Seq(M) /\ Len(s) = size
  BY <1>1, OrderedRanks
<1>3. data = SubSeq(s, skip + 1, end)
  <2>1. L!Skip(lHeld[q].page, limit) = skip
    BY DEF L!Skip
  <2> HIDE DEF skip, limit, size, M
  <2> QED BY <1>2, <2>1 DEF L!Page, limit
<1> HIDE DEF size, limit, skip, M, data
<1>4. /\ data \in Seq(M)
      /\ Len(data) = IF skip + 1 <= end THEN end - skip ELSE 0
      /\ \A n \in 1 .. end - skip : data[n] = s[skip + n]
  <2>1. \A n \in skip + 1 .. end : s[n] \in M
    BY <1>1, <1>2
  <2>2. /\ SubSeq(s, skip + 1, end) \in Seq(M)
        /\ Len(SubSeq(s, skip + 1, end)) = IF skip + 1 <= end THEN end - (skip + 1) + 1 ELSE 0
        /\ \A n \in 1 .. end - (skip + 1) + 1 : SubSeq(s, skip + 1, end)[n] = s[skip + 1 + n - 1]
    BY <1>1, <2>1, SubSeqProperties
  <2>3. \A n \in 1 .. end - skip : skip + 1 + n - 1 = skip + n /\ n \in 1 .. end - (skip + 1) + 1
    BY <1>1
  <2> HIDE DEF end
  <2> QED BY <1>1, <1>3, <2>2, <2>3
<1>5. DOMAIN data = 1 .. Len(data)
  BY <1>4
<1>6. \A n \in DOMAIN data : n \in Nat /\ skip + n \in 1 .. size /\ n <= limit /\ data[n] = s[skip + n]
  BY <1>1, <1>4, <1>5
<1>7. ASSUME ~L!Loose(q)
      PROVE  /\ Distinct(data)
             /\ \A n \in DOMAIN data : skip < Rank(q, data[n]) /\ Rank(q, data[n]) <= skip + limit
             /\ \A i \in M : skip < Rank(q, i) /\ Rank(q, i) <= skip + limit =>
                    \E n \in DOMAIN data : data[n] = i
  <2>1. /\ \A i \in M : \E m \in 1 .. size : s[m] = i
        /\ \A m \in 1 .. size : Rank(q, s[m]) = m
    BY <1>7, OrderedRanks DEF size, M
  <2>2. \A n \in DOMAIN data : Rank(q, data[n]) = skip + n
    BY <1>6, <2>1
  <2>3. Distinct(data)
    BY <1>1, <1>6, <2>2 DEF Distinct
  <2>4. \A n \in DOMAIN data : skip < Rank(q, data[n]) /\ Rank(q, data[n]) <= skip + limit
    BY <1>1, <1>5, <1>6, <2>2
  <2>5. ASSUME NEW i \in M, skip < Rank(q, i), Rank(q, i) <= skip + limit
        PROVE  \E n \in DOMAIN data : data[n] = i
    <3>1. PICK m \in 1 .. size : s[m] = i
      BY <2>1
    <3>2. Rank(q, i) = m
      BY <2>1, <3>1
    <3>3. m - skip \in 1 .. end - skip /\ skip + (m - skip) = m
      BY <1>1, <2>5, <3>2
    <3>4. data[m - skip] = i
      BY <1>4, <3>1, <3>3
    <3>5. m - skip \in DOMAIN data
      BY <1>1, <1>4, <1>5, <3>3
    <3> QED BY <3>4, <3>5
  <2> QED BY <2>3, <2>4, <2>5
<1> QED BY <1>4, <1>7 DEF M, limit, skip, data

-----------------------------------------------------------------------------
(***************************************************************************)
(* Listings: what each step does                                           *)
(***************************************************************************)

LEMMA ListContinues ==
    ASSUME ListFramed, NEW r \in ListRequests, NEW label, NEW what, L!Continue(r, label, what)
    PROVE  /\ OneLists(r) /\ ListFramed'
           /\ lPc'[r] = label /\ lHeld'[r] = what /\ lCall'[r] = lCall[r] /\ lAnswer'[r] = lAnswer[r]
BY DEF L!Continue, ListFramed, OneLists

LEMMA ListReplies ==
    ASSUME ListFramed, NEW r \in ListRequests, NEW what, L!Reply(r, what)
    PROVE  /\ OneLists(r) /\ ListFramed'
           /\ lPc'[r] = "done" /\ lAnswer'[r] = what /\ lHeld'[r] = lHeld[r] /\ lCall'[r] = lCall[r]
BY DEF L!Reply, ListFramed, OneLists

\* What a walk starts with.
FirstPage == [page |-> 1, seen |-> <<>>, within |-> {}, data |-> None, total |-> None, present |-> L!Present]

\* All but a write leaves the tables alone.
Resting(r) == UNCHANGED <<rows, parents, shifted>> /\ late' \in {late, late \ {r}}

LEMMA WalkStarts ==
    ASSUME ListTyped, NEW r \in ListRequests, L!StartWalk(r)
    PROVE  /\ OneLists(r) /\ ListFramed' /\ Resting(r) /\ late' = late
           /\ lPc[r] = "idle" /\ lPc'[r] = L!First(lCall'[r].list)
           /\ lCall'[r] \in ListingCalls /\ lCall'[r].kind = "walk"
           /\ lHeld'[r] = FirstPage /\ lAnswer'[r] = lAnswer[r]
BY DEF ListTyped, L!StartWalk, L!tables, ListFramed, OneLists, Resting, FirstPage

LEMMA WriteStarts ==
    ASSUME ListTyped, NEW r \in ListRequests, L!StartWrite(r)
    PROVE  /\ OneLists(r) /\ ListFramed' /\ Resting(r) /\ late' = late
           /\ lPc[r] = "idle" /\ lPc'[r] = "write"
           /\ lCall'[r] \in ListingCalls /\ lCall'[r].kind # "walk" /\ L!FreshId(lCall'[r])
           /\ lHeld'[r] = lHeld[r] /\ lAnswer'[r] = lAnswer[r]
<1>1. PICK c \in ListingCalls : c.kind # "walk" /\ L!FreshId(c) /\ L!Begin(r, c, "write")
  BY DEF L!StartWrite
<1>2. /\ lPc[r] = "idle" /\ lPc' = [lPc EXCEPT ![r] = "write"] /\ lCall' = [lCall EXCEPT ![r] = c]
      /\ lHeld' = lHeld /\ lAnswer' = lAnswer
  BY <1>1 DEF L!Begin
<1>3. OneLists(r) /\ ListFramed' /\ lPc'[r] = "write" /\ lCall'[r] = c
  BY <1>2 DEF ListTyped, ListFramed, OneLists
<1>4. Resting(r) /\ late' = late
  BY DEF L!StartWrite, L!tables, Resting
<1> QED BY <1>1, <1>2, <1>3, <1>4

\* The projects, tasks or workspaces that may be opened now.
Open == {p \in Parents : parents[p] = "open"}

LEMMA ScopeRead ==
    ASSUME ListTyped, NEW r \in ListRequests, L!ReadScope(r)
    PROVE  /\ OneLists(r) /\ ListFramed' /\ Resting(r) /\ late' = late
           /\ lPc[r] = "scope" /\ lCall'[r] = lCall[r]
           /\ \/ /\ lPc'[r] = "done" /\ lHeld'[r] = lHeld[r] /\ lAnswer'[r] \in {"notFound", "forbidden"}
                 /\ lCall[r].list.scope = "parent"
              \/ /\ lPc'[r] = "done" /\ lHeld'[r] = lHeld[r] /\ lAnswer'[r] = "ok"
                 /\ lCall[r].list.scope # "parent" /\ Open = {}
              \/ /\ lPc'[r] = "read" /\ lAnswer'[r] = lAnswer[r]
                 /\ \/ /\ lCall[r].list.scope = "parent" /\ parents[lCall[r].parent] \notin {"gone", "closed"}
                       /\ lHeld'[r] = [lHeld[r] EXCEPT !.within = {lCall[r].parent}]
                    \/ /\ lCall[r].list.scope # "parent"
                       /\ lHeld'[r] = [lHeld[r] EXCEPT !.within = Open]
<1>1. ListFramed
  BY DEF ListTyped
<1>2. Resting(r) /\ late' = late /\ lPc[r] = "scope"
  BY DEF L!ReadScope, L!tables, Resting
<1>3. CASE lCall[r].list.scope = "parent"
  <2>1. CASE parents[lCall[r].parent] = "gone"
    <3>1. L!Reply(r, "notFound")
      BY <1>3, <2>1 DEF L!ReadScope
    <3> QED BY <1>1, <1>2, <1>3, <3>1, ListReplies
  <2>2. CASE parents[lCall[r].parent] = "closed"
    <3>1. L!Reply(r, "forbidden")
      BY <1>3, <2>2 DEF L!ReadScope
    <3> QED BY <1>1, <1>2, <1>3, <3>1, ListReplies
  <2>3. CASE parents[lCall[r].parent] \notin {"gone", "closed"}
    <3>1. L!Continue(r, "read", [lHeld[r] EXCEPT !.within = {lCall[r].parent}])
      BY <1>3, <2>3 DEF L!ReadScope
    <3> QED BY <1>1, <1>2, <1>3, <2>3, <3>1, ListContinues
  <2> QED BY <2>1, <2>2, <2>3
<1>4. CASE lCall[r].list.scope # "parent"
  <2>1. CASE Open = {} /\ lCall[r].list.scope = "owned"
    <3>1. L!Reply(r, "ok")
      BY <1>4, <2>1 DEF L!ReadScope, Open
    <3> QED BY <1>1, <1>2, <1>4, <2>1, <3>1, ListReplies
  <2>2. CASE ~ (Open = {} /\ lCall[r].list.scope = "owned")
    <3>1. L!Continue(r, "read", [lHeld[r] EXCEPT !.within = Open])
      BY <1>4, <2>2 DEF L!ReadScope, Open
    <3> QED BY <1>1, <1>2, <1>4, <3>1, ListContinues
  <2> QED BY <2>1, <2>2
<1> QED BY <1>3, <1>4

LEMMA RowsRead ==
    ASSUME ListTyped, NEW r \in ListRequests, L!ReadRows(r)
    PROVE  /\ OneLists(r) /\ ListFramed' /\ Resting(r) /\ late' = late
           /\ lPc[r] \in {"read", "rest"} /\ lPc'[r] = "rest" /\ lHeld[r].data = None
           /\ lCall'[r] = lCall[r] /\ lAnswer'[r] = lAnswer[r]
           /\ \E s \in L!Orderings(r, L!Matching(r)) : lHeld'[r] = [lHeld[r] EXCEPT !.data = L!Page(s, r)]
<1>1. PICK s \in L!Orderings(r, L!Matching(r)) :
         L!Continue(r, "rest", [lHeld[r] EXCEPT !.data = L!Page(s, r)])
  BY DEF L!ReadRows
<1>2. /\ OneLists(r) /\ ListFramed' /\ lPc'[r] = "rest" /\ lCall'[r] = lCall[r] /\ lAnswer'[r] = lAnswer[r]
      /\ lHeld'[r] = [lHeld[r] EXCEPT !.data = L!Page(s, r)]
  BY <1>1, ListContinues DEF ListTyped
<1>3. Resting(r) /\ late' = late
  BY DEF L!ReadRows, L!tables, Resting
<1>4. lPc[r] \in {"read", "rest"} /\ lHeld[r].data = None
  BY DEF L!ReadRows, ListTyped, PlacedList
<1> QED BY <1>2, <1>3, <1>4

LEMMA RowsCounted ==
    ASSUME ListTyped, NEW r \in ListRequests, L!CountRows(r)
    PROVE  /\ OneLists(r) /\ ListFramed' /\ Resting(r) /\ late' = late
           /\ lPc[r] \in {"read", "rest"} /\ lPc'[r] = "rest" /\ lHeld[r].total = None
           /\ lCall'[r] = lCall[r] /\ lAnswer'[r] = lAnswer[r]
           /\ lHeld'[r] = [lHeld[r] EXCEPT !.total = Cardinality(L!Matching(r))]
<1>1. L!Continue(r, "rest", [lHeld[r] EXCEPT !.total = Cardinality(L!Matching(r))])
  BY DEF L!CountRows, L!Cardinality, Cardinality
<1>2. /\ OneLists(r) /\ ListFramed' /\ lPc'[r] = "rest" /\ lCall'[r] = lCall[r] /\ lAnswer'[r] = lAnswer[r]
      /\ lHeld'[r] = [lHeld[r] EXCEPT !.total = Cardinality(L!Matching(r))]
  BY <1>1, ListContinues DEF ListTyped
<1>3. Resting(r) /\ late' = late
  BY DEF L!CountRows, L!tables, Resting
<1>4. lPc[r] \in {"read", "rest"} /\ lHeld[r].total = None
  BY DEF L!CountRows, ListTyped, PlacedList
<1> QED BY <1>2, <1>3, <1>4

LEMMA PageTurned ==
    ASSUME ListTyped, NEW r \in ListRequests, L!NextPage(r)
    PROVE  /\ OneLists(r) /\ ListFramed' /\ Resting(r) /\ late' = late \ {r}
           /\ lPc[r] = "rest" /\ lHeld[r].data # None /\ lHeld[r].total # None /\ lCall'[r] = lCall[r]
           /\ \/ /\ ~L!HasNext(r) /\ lPc'[r] = "done" /\ lAnswer'[r] = "ok"
                 /\ lHeld'[r] = [lHeld[r] EXCEPT !.seen = lHeld[r].seen \o lHeld[r].data]
              \/ lPc'[r] = "done" /\ lAnswer'[r] = "endless" /\ lHeld'[r] = lHeld[r]
              \/ /\ lPc'[r] = L!First(lCall[r].list) /\ lAnswer'[r] = lAnswer[r]
                 /\ lHeld'[r] = [lHeld[r] EXCEPT !.seen = lHeld[r].seen \o lHeld[r].data,
                                                 !.page = lHeld[r].page + 1, !.data = None, !.total = None]
<1>1. ListFramed
  BY DEF ListTyped
<1>2. /\ Resting(r) /\ late' = late \ {r}
      /\ lPc[r] = "rest" /\ lHeld[r].data # None /\ lHeld[r].total # None
  BY DEF L!NextPage, L!tables, Resting
<1>3. CASE ~L!HasNext(r)
  <2>1. /\ lPc' = [lPc EXCEPT ![r] = "done"] /\ lAnswer' = [lAnswer EXCEPT ![r] = "ok"]
        /\ lHeld' = [lHeld EXCEPT ![r].seen = lHeld[r].seen \o lHeld[r].data] /\ lCall' = lCall
    BY <1>3 DEF L!NextPage
  <2> QED BY <1>1, <1>2, <1>3, <2>1 DEF ListFramed, OneLists
<1>4. CASE L!HasNext(r) /\ L!Limit(r) = 0
  <2>1. L!Reply(r, "endless")
    BY <1>4 DEF L!NextPage
  <2> QED BY <1>1, <1>2, <2>1, ListReplies
<1>5. CASE L!HasNext(r) /\ L!Limit(r) # 0
  <2>1. L!Continue(r, L!First(lCall[r].list),
                   [lHeld[r] EXCEPT !.seen = lHeld[r].seen \o lHeld[r].data,
                                    !.page = lHeld[r].page + 1, !.data = None, !.total = None])
    BY <1>5 DEF L!NextPage
  <2> QED BY <1>1, <1>2, <2>1, ListContinues
<1> QED BY <1>3, <1>4, <1>5


LEMMA YoungestIs ==
    ASSUME ListTyped
    PROVE  L!Youngest \in Nat /\ \A i \in L!Present : rows[i].at <= L!Youngest
<1> DEFINE f == [i \in L!Present |-> rows[i].at]
           Ages == {rows[i].at : i \in L!Present}
           All == {0} \cup Ages
<1>1. f \in Surjection(L!Present, Ages)
  BY DEF Surjection
<1>2. IsFiniteSet(Ages) /\ Ages \subseteq Nat
  BY <1>1, PresentTyped, FS_Surjection
<1>3. IsFiniteSet(All) /\ All \subseteq Nat /\ All # {}
  <2>1. All = Ages \cup {0}
    OBVIOUS
  <2> HIDE DEF Ages
  <2> QED BY <1>2, <2>1, FS_AddElement
<1>4. \E n \in All : \A y \in All : y <= n
  <2> HIDE DEF All
  <2>1. PICK b \in Nat : \A n \in All : n < b
    BY <1>3, FiniteNumbersBounded
  <2> QED BY <1>3, <2>1, GreatestNumber
<1>5. \E n \in All : \A i \in L!Present : rows[i].at <= n
  BY <1>4
<1>6. L!Youngest \in All /\ \A i \in L!Present : rows[i].at <= L!Youngest
  BY <1>5 DEF L!Youngest
<1> QED BY <1>3, <1>6

\* A row an insert is about to write is not there.
LEMMA InsertIsFresh ==
    ASSUME ListTyped, NEW r \in ListRequests, lPc[r] = "write", lCall[r].kind = "insert"
    PROVE  lCall[r].id \in Ids /\ ~RowBorn(lCall[r].id) /\ lCall[r].id \notin L!Present
<1>1. lCall[r].id \in Ids
  BY ListCallFields DEF ListTyped, PlacedList
<1>2. ~RowBorn(lCall[r].id)
  BY DEF ListTyped, RowsBorn, RowBorn
<1> QED BY <1>1, <1>2 DEF ListTyped, RowsBorn

\* What a write leaves of the rows there were.
RowsStay(r) ==
    /\ \A i \in L!Present' \cap L!Present : rows'[i].at = rows[i].at /\ rows'[i].parent = rows[i].parent
    /\ \A i \in L!Present' \ L!Present :
          /\ lCall[r].kind = "insert" /\ i = lCall[r].id
          /\ \A j \in L!Present : rows[j].at < rows'[i].at
    /\ lCall[r].kind \notin {"remove", "drop"} => L!Present \subseteq L!Present'

\* What it tells the readers.
Notes(r) ==
    /\ shifted' = [q \in ListRequests |-> shifted'[q]]
    /\ \A q \in ListRequests :
          /\ shifted[q] \subseteq shifted'[q]
          /\ shifted'[q] \subseteq shifted[q] \cup {lCall[r].kind, "split"}
          /\ lPc[q] \in ListReading => lCall[r].kind \in shifted'[q]
          /\ lCall[r].kind = "insert" /\ lPc[q] = "rest" /\ lHeld[q].data = None => "split" \in shifted'[q]

ParentsStay(r) ==
    \/ parents' = parents /\ lCall[r].kind \in {"insert", "rekey", "remove"} /\ late' = late
    \/ /\ lCall[r].kind = "leave" /\ parents' = [parents EXCEPT ![lCall[r].parent] = "closed"]
       /\ \A q \in ListRequests :
             lPc[q] \in {"read", "rest"} /\ lCall[r].parent \in lHeld[q].within => q \in late'
       /\ late \subseteq late' /\ late' \subseteq ListRequests
    \/ lCall[r].kind = "drop" /\ parents' = [parents EXCEPT ![lCall[r].parent] = "gone"] /\ late' = late

LEMMA RowsWritten ==
    ASSUME ListTyped, NEW r \in ListRequests, L!Write(r)
    PROVE  /\ OneLists(r) /\ ListFramed'
           /\ lPc[r] = "write" /\ lPc'[r] = "done" /\ lCall'[r] = lCall[r] /\ lHeld'[r] = lHeld[r]
           /\ lAnswer'[r] = "ok" /\ lCall[r] \in ListingCalls /\ lCall[r].kind # "walk"
           /\ rows' \in [Ids -> L!Row \cup {None}] /\ IsFiniteSet(L!Present')
           /\ RowsStay(r) /\ Notes(r) /\ ParentsStay(r)
<1> DEFINE c == lCall[r]
<1>1. /\ lPc[r] = "write" /\ c \in ListingCalls /\ c.kind # "walk" /\ L!Reply(r, "ok") /\ L!Note(c.kind)
  BY DEF L!Write, L!Kind, ListTyped, PlacedList
<1>2. /\ OneLists(r) /\ ListFramed' /\ lPc'[r] = "done" /\ lAnswer'[r] = "ok"
      /\ lHeld'[r] = lHeld[r] /\ lCall'[r] = lCall[r]
  BY <1>1, ListReplies DEF ListTyped
<1>3. Notes(r)
  BY <1>1 DEF L!Note, Notes, ListRequests, L!Reading, L!Split, L!At, ListReading
<1>4. /\ rows \in [Ids -> L!Row \cup {None}] /\ late \subseteq ListRequests
      /\ \A i \in Ids : i \in L!Present <=> rows[i] # None
      /\ \A i \in Ids : i \in L!Present' <=> rows'[i] # None
      /\ L!Present \subseteq Ids /\ L!Present' \subseteq Ids /\ IsFiniteSet(L!Present)
  BY PresentTyped DEF ListTyped, L!TypeOK, L!Present, ListRequests
<1> DEFINE Stored == rows' \in [Ids -> L!Row \cup {None}] /\ IsFiniteSet(L!Present') /\ RowsStay(r)
<1>5. CASE c.kind = "insert"
  <2>1. /\ rows' = [rows EXCEPT ![c.id] = [parent |-> c.parent, key |-> c.key, at |-> L!Youngest + 1]]
        /\ parents' = parents /\ late' = late
    BY <1>5 DEF L!Write
  <2> DEFINE row == [parent |-> c.parent, key |-> c.key, at |-> L!Youngest + 1]
  <2>2. c.id \in Ids /\ c.id \notin L!Present
    BY <1>1, <1>5, InsertIsFresh
  <2>3. L!Youngest \in Nat /\ \A i \in L!Present : rows[i].at <= L!Youngest /\ rows[i].at \in Nat
    BY YoungestIs, PresentTyped
  <2>4. row \in L!Row /\ row # None
    BY <1>1, <1>5, <2>3, ListCallFields, NoneNoRow DEF L!Row
  <2>5. rows' \in [Ids -> L!Row \cup {None}]
    <3> HIDE DEF row
    <3> QED BY <1>4, <2>1, <2>4 DEF row
  <2>6. L!Present' = L!Present \cup {c.id}
    <3> HIDE DEF row
    <3> QED BY <1>4, <2>1, <2>2, <2>4 DEF row
  <2>7. IsFiniteSet(L!Present')
    BY <1>4, <2>6, FS_AddElement
  <2>8. RowsStay(r)
    <3>1. \A i \in L!Present : rows'[i] = rows[i]
      BY <1>4, <2>1, <2>2
    <3>2. rows'[c.id].at = L!Youngest + 1
      BY <1>4, <2>1, <2>2
    <3>3. \A j \in L!Present : rows[j].at < rows'[c.id].at
      BY <2>3, <3>2
    <3> QED BY <1>5, <2>6, <3>1, <3>3 DEF RowsStay
  <2>9. ParentsStay(r)
    BY <1>5, <2>1 DEF ParentsStay
  <2> QED BY <1>1, <1>2, <1>3, <2>5, <2>7, <2>8, <2>9
<1>6. CASE c.kind = "rekey"
  <2>1. /\ c.id \in L!Present /\ rows' = [rows EXCEPT ![c.id].key = c.key]
        /\ parents' = parents /\ late' = late
    BY <1>6 DEF L!Write
  <2>2. rows[c.id] \in L!Row /\ c.key \in Nat /\ c.id \in Ids
    BY <1>1, <1>4, <1>6, <2>1, ListCallFields, PresentTyped
  <2>3. [rows[c.id] EXCEPT !.key = c.key] \in L!Row /\ [rows[c.id] EXCEPT !.key = c.key] # None
    BY <2>2, NoneNoRow DEF L!Row
  <2>4. rows' \in [Ids -> L!Row \cup {None}] /\ L!Present' = L!Present
    BY <1>4, <2>1, <2>2, <2>3
  <2>5. \A i \in L!Present : rows'[i].at = rows[i].at /\ rows'[i].parent = rows[i].parent
    BY <1>4, <2>1, <2>2 DEF L!Row
  <2> QED BY <1>1, <1>2, <1>3, <1>4, <1>6, <2>1, <2>4, <2>5 DEF RowsStay, ParentsStay
<1>7. CASE c.kind = "remove"
  <2>1. /\ c.id \in L!Present /\ rows' = [rows EXCEPT ![c.id] = None] /\ parents' = parents /\ late' = late
    BY <1>7 DEF L!Write
  <2>2. rows' \in [Ids -> L!Row \cup {None}] /\ L!Present' \subseteq L!Present
    BY <1>4, <2>1
  <2>3. \A i \in L!Present' : rows'[i] = rows[i]
    BY <1>4, <2>1
  <2>4. IsFiniteSet(L!Present')
    BY <1>4, <2>2, FS_Subset
  <2> QED BY <1>1, <1>2, <1>3, <1>7, <2>1, <2>2, <2>3, <2>4 DEF RowsStay, ParentsStay
<1>8. CASE c.kind = "leave"
  <2>1. /\ parents' = [parents EXCEPT ![c.parent] = "closed"] /\ rows' = rows
        /\ late' = late \cup {q \in L!At("read") \cup L!At("rest") : c.parent \in lHeld[q].within}
    BY <1>8 DEF L!Write
  <2>2. L!Present' = L!Present
    BY <2>1 DEF L!Present
  <2>3. RowsStay(r)
    BY <1>8, <2>1, <2>2 DEF RowsStay
  <2>4. ParentsStay(r)
    BY <1>4, <1>8, <2>1 DEF ParentsStay, L!At, ListRequests
  <2> QED BY <1>1, <1>2, <1>3, <1>4, <2>1, <2>2, <2>3, <2>4
<1>9. CASE c.kind = "drop"
  <2>1. /\ parents' = [parents EXCEPT ![c.parent] = "gone"] /\ late' = late
        /\ rows' = [i \in Ids |-> IF i \in L!Present /\ rows[i].parent = c.parent THEN None ELSE rows[i]]
    BY <1>9 DEF L!Write
  <2>2. rows' \in [Ids -> L!Row \cup {None}] /\ L!Present' \subseteq L!Present
    BY <1>4, <2>1
  <2>3. \A i \in L!Present' : rows'[i] = rows[i]
    BY <1>4, <2>1
  <2>4. IsFiniteSet(L!Present')
    BY <1>4, <2>2, FS_Subset
  <2> QED BY <1>1, <1>2, <1>3, <1>9, <2>1, <2>2, <2>3, <2>4 DEF RowsStay, ParentsStay
<1> QED BY <1>1, <1>5, <1>6, <1>7, <1>8, <1>9, ListCallFields

-----------------------------------------------------------------------------
(***************************************************************************)
(* Listings: types are kept                                                *)
(***************************************************************************)

ListLabels == {"idle", "done", "scope", "read", "rest", "write"}
ListAnswers == {"none", "ok", "notFound", "forbidden", "error", "endless"}

LEMMA ListsInit == L!Init => ListTyped
<1> SUFFICES ASSUME L!Init PROVE ListTyped
  OBVIOUS
<1>1. SeedRows \in Seq([id: Ids, parent: Parents, key: Nat])
  BY PartsAssumption DEF L!ListingsAssumption
<1> DEFINE seed(i) == CHOOSE n \in DOMAIN SeedRows : SeedRows[n].id = i
           Seeded == {i \in Ids : \E n \in DOMAIN SeedRows : SeedRows[n].id = i}
<1>2. \A i \in Seeded : seed(i) \in DOMAIN SeedRows /\ SeedRows[seed(i)].id = i
  OBVIOUS
<1>3. DOMAIN SeedRows = 1 .. Len(SeedRows) /\ Len(SeedRows) \in Nat
  BY <1>1
<1>4. \A n \in DOMAIN SeedRows : SeedRows[n] \in [id: Ids, parent: Parents, key: Nat] /\ n \in Nat
  <2> DEFINE Seed == [id: Ids, parent: Parents, key: Nat]
  <2>1. SeedRows \in Seq(Seed)
    BY <1>1
  <2> HIDE DEF Seed
  <2>2. \A n \in DOMAIN SeedRows : SeedRows[n] \in Seed /\ n \in Nat
    BY <1>3, <2>1, ElementOfSeq
  <2> QED BY <2>2 DEF Seed
<1>5. rows = [i \in Ids |-> IF i \in Seeded
                            THEN [parent |-> SeedRows[seed(i)].parent, key |-> SeedRows[seed(i)].key,
                                  at |-> seed(i)]
                            ELSE None]
  BY DEF L!Init
<1>6. \A i \in Seeded : [parent |-> SeedRows[seed(i)].parent, key |-> SeedRows[seed(i)].key,
                          at |-> seed(i)] \in L!Row
  BY <1>2, <1>4 DEF L!Row
<1>7. rows \in [Ids -> L!Row \cup {None}] /\ L!Present = Seeded /\ \A i \in Seeded : rows[i].at = seed(i)
  <2> HIDE DEF seed, Seeded
  <2>1. Seeded \subseteq Ids
    BY DEF Seeded
  <2> QED BY <1>5, <1>6, <2>1, NoneNoRow DEF L!Present
<1>8. AgesDiffer
  <2>1. \A i, j \in Seeded : seed(i) = seed(j) => i = j
    <3> HIDE DEF seed, Seeded
    <3> QED BY <1>2
  <2> DEFINE f == [i \in Seeded |-> seed(i)]
  <2>2. f \in Injection(Seeded, DOMAIN SeedRows)
    <3> HIDE DEF seed, Seeded
    <3> QED BY <1>2, <2>1 DEF Injection, IsInjective
  <2>3. IsFiniteSet(DOMAIN SeedRows)
    BY <1>3, FS_Interval
  <2>4. IsFiniteSet(Seeded)
    <3> HIDE DEF f, Seeded
    <3> QED BY <2>2, <2>3, FS_Injection
  <2> HIDE DEF seed, Seeded
  <2> QED BY <1>7, <2>1, <2>4 DEF AgesDiffer
<1>9. RowsBorn
  BY <1>7 DEF RowsBorn, RowBorn, L!Init, L!HandlersInit, L!NoCall, ListRequests
<1>10. ListFramed /\ \A r \in ListRequests : PlacedList(r)
  BY DEF L!Init, L!HandlersInit, ListFramed, PlacedList, ListRequests, L!NoCall, ListReading
<1>11. L!TypeOK
  BY <1>7 DEF L!Init, L!HandlersInit, L!TypeOK, L!Handling
<1> QED BY <1>8, <1>9, <1>10, <1>11 DEF ListTyped

\* The others stay where they are.
LEMMA ListPlaced ==
    ASSUME ListTyped, NEW r \in ListRequests, OneLists(r), ListFramed',
           lPc'[r] \in ListLabels, lAnswer'[r] \in ListAnswers, lCall'[r] \in {L!NoCall} \cup ListingCalls,
           PlacedList(r)'
    PROVE  /\ \A q \in ListRequests : PlacedList(q)'
           /\ L!Handling({"scope", "read", "rest", "write"}, ListingCalls, {"endless"})'
<1>1. ASSUME NEW q \in ListRequests, q # r PROVE PlacedList(q)'
  BY <1>1 DEF ListTyped, OneLists, PlacedList
<1>2. \A q \in ListRequests : /\ lPc[q] \in ListLabels /\ lAnswer[q] \in ListAnswers
                              /\ lCall[q] \in {L!NoCall} \cup ListingCalls
  BY DEF ListTyped, L!TypeOK, L!Handling, ListRequests, ListLabels, ListAnswers
<1>3. \A q \in ListRequests : /\ lPc'[q] \in ListLabels /\ lAnswer'[q] \in ListAnswers
                              /\ lCall'[q] \in {L!NoCall} \cup ListingCalls
  BY <1>2 DEF OneLists
<1>4. lPc' \in [ListRequests -> ListLabels] /\ lAnswer' \in [ListRequests -> ListAnswers]
      /\ lCall' \in [ListRequests -> {L!NoCall} \cup ListingCalls]
  BY <1>3 DEF ListFramed
<1> QED BY <1>1, <1>4 DEF L!Handling, ListRequests, ListLabels, ListAnswers

\* Rows that are born stay so.
LEMMA BornStays ==
    ASSUME ListTyped, NEW r \in ListRequests, OneLists(r), lPc[r] # "done", NEW i, RowBorn(i)
    PROVE  RowBorn(i)'
BY DEF RowBorn, OneLists

LEMMA RowsRest ==
    ASSUME ListTyped, NEW r \in ListRequests, OneLists(r), Resting(r), lPc[r] # "done",
           lCall'[r].kind = "insert" => lCall'[r] = lCall[r] \/ L!FreshId(lCall'[r])
    PROVE  AgesDiffer' /\ RowsBorn' /\ L!Present' = L!Present
<1>1. L!Present' = L!Present /\ rows' = rows
  BY DEF Resting, L!Present
<1>2. AgesDiffer'
  BY <1>1 DEF ListTyped, AgesDiffer
<1>3. \A i \in L!Present' : RowBorn(i)'
  BY <1>1, BornStays DEF ListTyped, RowsBorn
<1>4. ASSUME NEW q \in ListRequests, lCall'[q].kind = "insert"
      PROVE  /\ \A n \in DOMAIN SeedRows : SeedRows[n].id # lCall'[q].id
             /\ \A p \in ListRequests : lCall'[p].kind = "insert" /\ lCall'[p].id = lCall'[q].id => p = q
  <2>1. ASSUME L!FreshId(lCall'[r]), lCall'[r].kind = "insert"
        PROVE  /\ \A n \in DOMAIN SeedRows : SeedRows[n].id # lCall'[r].id
               /\ \A p \in ListRequests : lCall[p].kind = "insert" => lCall[p].id # lCall'[r].id
    BY <2>1 DEF L!FreshId, ListRequests
  <2> QED BY <1>4, <2>1 DEF OneLists, ListTyped, RowsBorn
<1> QED BY <1>1, <1>2, <1>3, <1>4 DEF RowsBorn

LEMMA RowsAfterWrite ==
    ASSUME ListTyped, NEW r \in ListRequests, L!Write(r)
    PROVE  AgesDiffer' /\ RowsBorn'
<1>1. /\ OneLists(r) /\ lPc[r] = "write" /\ lPc'[r] = "done" /\ lCall'[r] = lCall[r]
      /\ IsFiniteSet(L!Present') /\ RowsStay(r)
  BY RowsWritten
<1>2. \A i \in L!Present : rows[i].at \in Nat
  BY PresentTyped
<1>3. \A i, j \in L!Present' : rows'[i].at = rows'[j].at => i = j
  <2> SUFFICES ASSUME NEW i \in L!Present', NEW j \in L!Present', rows'[i].at = rows'[j].at PROVE i = j
    OBVIOUS
  <2>1. CASE i \in L!Present /\ j \in L!Present
    BY <1>1, <2>1 DEF RowsStay, ListTyped, AgesDiffer
  <2>2. CASE i \notin L!Present /\ j \in L!Present
    BY <1>1, <1>2, <2>2 DEF RowsStay
  <2>3. CASE i \in L!Present /\ j \notin L!Present
    BY <1>1, <1>2, <2>3 DEF RowsStay
  <2>4. CASE i \notin L!Present /\ j \notin L!Present
    BY <1>1, <2>4 DEF RowsStay
  <2> QED BY <2>1, <2>2, <2>3, <2>4
<1>4. ASSUME NEW i \in L!Present' PROVE RowBorn(i)'
  <2>1. CASE i \in L!Present
    BY <1>1, <2>1, BornStays DEF ListTyped, RowsBorn
  <2>2. CASE i \notin L!Present
    BY <1>1, <1>4, <2>2 DEF RowsStay, RowBorn
  <2> QED BY <2>1, <2>2
<1>5. \A q \in ListRequests : lCall'[q] = lCall[q]
  BY <1>1 DEF OneLists
<1> QED BY <1>1, <1>3, <1>4, <1>5 DEF AgesDiffer, RowsBorn, ListTyped


LEMMA MatchesAreIds == ASSUME ListTyped, NEW q PROVE L!Matching(q) \subseteq Ids
BY PresentTyped, MatchingFinite

\* A page is a sequence of rows.
LEMMA PageTyped ==
    ASSUME ListTyped, NEW r \in ListRequests, lPc[r] \in ListReading,
           NEW s \in L!Orderings(r, L!Matching(r))
    PROVE  L!Page(s, r) \in Seq(Ids) /\ L!Page(s, r) \in Seq(L!Matching(r))
<1>1. lCall[r].kind = "walk" /\ lCall[r] \in ListingCalls /\ lHeld[r].page \in Nat \ {0}
  BY DEF ListTyped, PlacedList, PageRecord, ListReading
<1>2. \E k \in Nat : lHeld[r].page = k + 1
  <2>1. lHeld[r].page - 1 \in Nat /\ lHeld[r].page = (lHeld[r].page - 1) + 1
    BY <1>1
  <2> QED BY <2>1
<1>3. PICK k \in Nat : lHeld[r].page = k + 1
  BY <1>2
<1>4. L!Page(s, r) \in Seq(L!Matching(r))
  BY <1>1, <1>3, PageRanks
<1> QED BY <1>4, MatchesAreIds, SeqMonotonic

LEMMA ListPlacedStep ==
    ASSUME ListTyped, NEW r \in ListRequests, ListStep(r)
    PROVE  /\ OneLists(r) /\ ListFramed' /\ PlacedList(r)' /\ lPc[r] # "done"
           /\ lPc'[r] \in ListLabels /\ lAnswer'[r] \in ListAnswers /\ lCall'[r] \in ListingCalls
           /\ \/ /\ Resting(r)
                 /\ lCall'[r].kind = "insert" => lCall'[r] = lCall[r] \/ L!FreshId(lCall'[r])
              \/ L!Write(r)
<1>0. PlacedList(r) /\ r \in ListRequests
  BY DEF ListTyped
<1>1. CASE L!StartWalk(r)
  <2>1. /\ OneLists(r) /\ ListFramed' /\ Resting(r)
        /\ lPc[r] = "idle" /\ lPc'[r] = L!First(lCall'[r].list)
        /\ lCall'[r] \in ListingCalls /\ lCall'[r].kind = "walk"
        /\ lHeld'[r] = FirstPage /\ lAnswer'[r] = lAnswer[r]
    BY <1>1, WalkStarts
  <2>2. FirstPage \in PageRecord /\ FirstPage.data = None /\ FirstPage.total = None
    BY PresentTyped DEF FirstPage, PageRecord
  <2>3. lAnswer[r] = "none"
    BY <1>0, <2>1 DEF PlacedList
  <2> QED BY <2>1, <2>2, <2>3 DEF PlacedList, L!First, ListReading, ListLabels, ListAnswers
<1>2. CASE L!StartWrite(r)
  <2>1. /\ OneLists(r) /\ ListFramed' /\ Resting(r)
        /\ lPc[r] = "idle" /\ lPc'[r] = "write"
        /\ lCall'[r] \in ListingCalls /\ lCall'[r].kind # "walk" /\ L!FreshId(lCall'[r])
        /\ lHeld'[r] = lHeld[r] /\ lAnswer'[r] = lAnswer[r]
    BY <1>2, WriteStarts
  <2> QED BY <1>0, <2>1 DEF PlacedList, ListReading, ListLabels, ListAnswers
<1>3. CASE L!ReadScope(r)
  <2>1. /\ OneLists(r) /\ ListFramed' /\ Resting(r) /\ lPc[r] = "scope" /\ lCall'[r] = lCall[r]
        /\ \/ /\ lPc'[r] = "done" /\ lHeld'[r] = lHeld[r]
              /\ lAnswer'[r] \in {"ok", "notFound", "forbidden"}
           \/ /\ lPc'[r] = "read" /\ lAnswer'[r] = lAnswer[r]
              /\ \/ /\ lCall[r].list.scope = "parent"
                    /\ lHeld'[r] = [lHeld[r] EXCEPT !.within = {lCall[r].parent}]
                 \/ lHeld'[r] = [lHeld[r] EXCEPT !.within = Open]
    BY <1>3, ScopeRead
  <2>2. /\ lCall[r] \in ListingCalls /\ lCall[r].kind = "walk" /\ lCall[r].parent \in Parents
        /\ lHeld[r] \in PageRecord /\ lHeld[r].data = None /\ lHeld[r].total = None
        /\ lAnswer[r] = "none"
    BY <1>0, <2>1, ListCallFields DEF PlacedList, ListReading
  <2>3. ASSUME NEW within \in SUBSET Parents
        PROVE  /\ [lHeld[r] EXCEPT !.within = within] \in PageRecord
               /\ [lHeld[r] EXCEPT !.within = within].data = None
               /\ [lHeld[r] EXCEPT !.within = within].total = None
    BY <2>2 DEF PageRecord
  <2>4. lHeld'[r] \in PageRecord /\ lHeld'[r].data = None /\ lHeld'[r].total = None
    <3>1. {lCall[r].parent} \in SUBSET Parents /\ Open \in SUBSET Parents
      BY <2>2 DEF Open
    <3> DEFINE there == {lCall[r].parent}
    <3> HIDE DEF there
    <3>2. lHeld'[r] = lHeld[r] \/ lHeld'[r] = [lHeld[r] EXCEPT !.within = there]
          \/ lHeld'[r] = [lHeld[r] EXCEPT !.within = Open]
      BY <2>1 DEF there
    <3>3. CASE lHeld'[r] = lHeld[r]
      BY <2>2, <3>3
    <3>4. CASE lHeld'[r] = [lHeld[r] EXCEPT !.within = there]
      <4>1. there \in SUBSET Parents
        BY <3>1 DEF there
      <4> QED BY <2>3, <3>4, <4>1
    <3>5. CASE lHeld'[r] = [lHeld[r] EXCEPT !.within = Open]
      BY <2>3, <3>1, <3>5
    <3> QED BY <3>2, <3>3, <3>4, <3>5
  <2>5. lPc'[r] \in {"done", "read"}
    BY <2>1
  <2> QED BY <2>1, <2>2, <2>4, <2>5 DEF PlacedList, ListReading, ListLabels, ListAnswers
<1>4. CASE L!ReadRows(r)
  <2>1. /\ OneLists(r) /\ ListFramed' /\ Resting(r)
        /\ lPc[r] \in {"read", "rest"} /\ lPc'[r] = "rest" /\ lHeld[r].data = None
        /\ lCall'[r] = lCall[r] /\ lAnswer'[r] = lAnswer[r]
    BY <1>4, RowsRead
  <2>2. PICK s \in L!Orderings(r, L!Matching(r)) : lHeld'[r] = [lHeld[r] EXCEPT !.data = L!Page(s, r)]
    BY <1>4, RowsRead
  <2>3. /\ lCall[r] \in ListingCalls /\ lCall[r].kind = "walk" /\ lHeld[r] \in PageRecord
        /\ lAnswer[r] = "none"
    BY <1>0, <2>1 DEF PlacedList, ListReading
  <2>4. L!Page(s, r) \in Seq(Ids)
    BY <2>1, PageTyped DEF ListReading
  <2>5. lHeld'[r] \in PageRecord /\ lHeld'[r].data # None
    BY <2>2, <2>3, <2>4, NoneNoRow DEF PageRecord
  <2> QED BY <2>1, <2>3, <2>5 DEF PlacedList, ListReading, ListLabels, ListAnswers
<1>5. CASE L!CountRows(r)
  <2>1. /\ OneLists(r) /\ ListFramed' /\ Resting(r)
        /\ lPc[r] \in {"read", "rest"} /\ lPc'[r] = "rest" /\ lHeld[r].total = None
        /\ lCall'[r] = lCall[r] /\ lAnswer'[r] = lAnswer[r]
        /\ lHeld'[r] = [lHeld[r] EXCEPT !.total = Cardinality(L!Matching(r))]
    BY <1>5, RowsCounted
  <2>2. /\ lCall[r] \in ListingCalls /\ lCall[r].kind = "walk" /\ lHeld[r] \in PageRecord
        /\ lAnswer[r] = "none"
    BY <1>0, <2>1 DEF PlacedList, ListReading
  <2>3. lHeld'[r] \in PageRecord /\ lHeld'[r].total # None
    BY <2>1, <2>2, MatchingFinite, NoneNoRow DEF PageRecord
  <2> QED BY <2>1, <2>2, <2>3 DEF PlacedList, ListReading, ListLabels, ListAnswers
<1>6. CASE L!NextPage(r)
  <2>1. /\ OneLists(r) /\ ListFramed' /\ Resting(r)
        /\ lPc[r] = "rest" /\ lHeld[r].data # None /\ lHeld[r].total # None /\ lCall'[r] = lCall[r]
        /\ \/ /\ lPc'[r] = "done" /\ lAnswer'[r] = "ok"
              /\ lHeld'[r] = [lHeld[r] EXCEPT !.seen = lHeld[r].seen \o lHeld[r].data]
           \/ lPc'[r] = "done" /\ lAnswer'[r] = "endless" /\ lHeld'[r] = lHeld[r]
           \/ /\ lPc'[r] = L!First(lCall[r].list) /\ lAnswer'[r] = lAnswer[r]
              /\ lHeld'[r] = [lHeld[r] EXCEPT !.seen = lHeld[r].seen \o lHeld[r].data,
                                              !.page = lHeld[r].page + 1, !.data = None, !.total = None]
    BY <1>6, PageTurned DEF Resting
  <2>2. /\ lCall[r] \in ListingCalls /\ lCall[r].kind = "walk" /\ lHeld[r] \in PageRecord
        /\ lAnswer[r] = "none" /\ lHeld[r].seen \in Seq(Ids) /\ lHeld[r].data \in Seq(Ids)
        /\ lHeld[r].page \in Nat \ {0}
    BY <1>0, <2>1 DEF PlacedList, ListReading, PageRecord
  <2>3. lHeld[r].seen \o lHeld[r].data \in Seq(Ids)
    BY <2>2, ConcatProperties
  <2>4. lHeld'[r] \in PageRecord
    <3> DEFINE seen == lHeld[r].seen \o lHeld[r].data
           next == lHeld[r].page + 1
    <3>1. seen \in Seq(Ids) /\ next \in Nat \ {0}
      BY <2>2, <2>3
    <3> HIDE DEF seen, next
    <3>2. /\ [lHeld[r] EXCEPT !.seen = seen] \in PageRecord
          /\ [lHeld[r] EXCEPT !.seen = seen, !.page = next, !.data = None, !.total = None] \in PageRecord
      BY <2>2, <3>1 DEF PageRecord
    <3> QED BY <2>1, <2>2, <3>2 DEF seen, next
  <2>5. lPc'[r] \in {"scope", "read"} => lHeld'[r].data = None /\ lHeld'[r].total = None
    <3> DEFINE seen == lHeld[r].seen \o lHeld[r].data
    <3> HIDE DEF seen
    <3>1. /\ [lHeld[r] EXCEPT !.seen = seen, !.page = lHeld[r].page + 1, !.data = None, !.total = None].data = None
          /\ [lHeld[r] EXCEPT !.seen = seen, !.page = lHeld[r].page + 1, !.data = None, !.total = None].total = None
      BY <2>2 DEF PageRecord
    <3> QED BY <2>1, <3>1 DEF seen
  <2>6. /\ lPc'[r] \in {"done", "scope", "read"} /\ (lPc'[r] # "done" => lAnswer'[r] = "none")
        /\ lPc'[r] = "scope" => lCall[r].list.scope # "none"
        /\ lAnswer'[r] \in ListAnswers
    BY <2>1, <2>2 DEF L!First, ListAnswers
  <2> QED BY <2>1, <2>2, <2>4, <2>5, <2>6 DEF PlacedList, ListReading, ListLabels
<1>7. CASE L!Write(r)
  <2>1. /\ OneLists(r) /\ ListFramed'
        /\ lPc[r] = "write" /\ lPc'[r] = "done" /\ lCall'[r] = lCall[r] /\ lHeld'[r] = lHeld[r]
        /\ lAnswer'[r] = "ok" /\ lCall[r] \in ListingCalls /\ lCall[r].kind # "walk"
    BY <1>7, RowsWritten
  <2> QED BY <1>7, <2>1 DEF PlacedList, ListReading, ListLabels, ListAnswers
<1> QED BY <1>1, <1>2, <1>3, <1>4, <1>5, <1>6, <1>7 DEF ListStep

LEMMA ListTypedStep == ASSUME ListTyped, NEW r \in ListRequests, ListStep(r) PROVE ListTyped'
<1>1. /\ OneLists(r) /\ ListFramed' /\ PlacedList(r)' /\ lPc[r] # "done"
      /\ lPc'[r] \in ListLabels /\ lAnswer'[r] \in ListAnswers /\ lCall'[r] \in ListingCalls
      /\ \/ /\ Resting(r)
            /\ lCall'[r].kind = "insert" => lCall'[r] = lCall[r] \/ L!FreshId(lCall'[r])
         \/ L!Write(r)
  BY ListPlacedStep
<1>2. /\ \A q \in ListRequests : PlacedList(q)'
      /\ L!Handling({"scope", "read", "rest", "write"}, ListingCalls, {"endless"})'
  BY <1>1, ListPlaced
<1>3. AgesDiffer' /\ RowsBorn'
  BY <1>1, RowsRest, RowsAfterWrite
<1>4. /\ rows' \in [Ids -> L!Row \cup {None}]
      /\ parents' \in [Parents -> {"open", "closed", "gone"}]
      /\ shifted' \in [ListRequests -> SUBSET {"insert", "split", "rekey", "remove", "leave", "drop"}]
      /\ late' \subseteq ListRequests
  <2>1. CASE Resting(r)
    BY <2>1 DEF Resting, ListTyped, L!TypeOK, ListRequests
  <2>2. CASE L!Write(r)
    <3>1. rows' \in [Ids -> L!Row \cup {None}] /\ Notes(r) /\ ParentsStay(r)
      BY <2>2, RowsWritten
    <3>2. parents' \in [Parents -> {"open", "closed", "gone"}] /\ late' \subseteq ListRequests
      BY <3>1 DEF ParentsStay, ListTyped, L!TypeOK, ListRequests
    <3>3. lCall[r].kind \in {"insert", "rekey", "remove", "leave", "drop"}
      BY <2>2, RowsWritten, ListCallFields
    <3>4. \A q \in ListRequests : shifted'[q] \subseteq {"insert", "split", "rekey", "remove", "leave", "drop"}
      BY <3>1, <3>3 DEF Notes, ListTyped, L!TypeOK, ListRequests
    <3>5. shifted' \in [ListRequests -> SUBSET {"insert", "split", "rekey", "remove", "leave", "drop"}]
      BY <3>1, <3>4 DEF Notes
    <3> QED BY <3>1, <3>2, <3>5
  <2> QED BY <1>1, <2>1, <2>2
<1> QED BY <1>1, <1>2, <1>3, <1>4 DEF ListTyped, L!TypeOK, ListRequests

-----------------------------------------------------------------------------
(***************************************************************************)
(* Listings: what a reader has seen                                        *)
(***************************************************************************)

Walking(q) == lPc[q] \in ListReading

\* A reader has looked where he may read: his first page is past that.
Begun(q) == lPc[q] \in {"read", "rest"} \/ lHeld[q].page > 1

\* Where a reader looks is what he could open when he looked.
WithinStands(q) ==
    /\ ~Begun(q) => lHeld[q].seen = <<>> /\ lHeld[q].within = {}
    /\ Begun(q) /\ lCall[q].list.scope = "parent" => lHeld[q].within = {lCall[q].parent}
    /\ Begun(q) /\ lCall[q].list.scope \notin {"parent", "none"} =>
          /\ Open \subseteq lHeld[q].within
          /\ shifted[q] \cap {"leave", "drop"} = {} => lHeld[q].within = Open

Checked(q) == lPc[q] \in {"read", "rest"} => q \in late \/ \A p \in lHeld[q].within : parents[p] # "closed"

Seen(q) == {lHeld[q].seen[n] : n \in DOMAIN lHeld[q].seen}
Fetched(q) == IF lHeld[q].data = None THEN {} ELSE {lHeld[q].data[n] : n \in DOMAIN lHeld[q].data}
Shown(q) == Seen(q) \cup Fetched(q)

\* How far the pages he has go.
Pages(q) == IF lHeld[q].data = None THEN lHeld[q].page - 1 ELSE lHeld[q].page
Reach(q) == Pages(q) * L!Limit(q)

\* What he was shown is different rows, none of which can be on a later page.
NoneTwice(q) ==
    /\ Distinct(lHeld[q].seen)
    /\ Walking(q) =>
          /\ lHeld[q].data # None => Distinct(lHeld[q].data) /\ Fetched(q) \cap Seen(q) = {}
          /\ \A i \in Shown(q) \cap L!Matching(q) : Rank(q, i) <= Reach(q)

\* What was there all along.
There(q) == lHeld[q].present \cap L!Matching(q)

\* What he was not shown is on a later page, and the number he was told says so.
NoneMissed(q) ==
    /\ Walking(q) =>
          /\ \A i \in There(q) : Rank(q, i) <= Reach(q) => i \in Shown(q)
          /\ lHeld[q].data = None /\ lHeld[q].total # None =>
                \A i \in There(q) : Rank(q, i) <= lHeld[q].total
          /\ lHeld[q].data # None /\ lHeld[q].total # None /\ lHeld[q].total <= Reach(q) =>
                There(q) \subseteq Shown(q)
    /\ lPc[q] = "done" /\ lAnswer[q] = "ok" => There(q) \subseteq Seen(q)

InsertsHarmless(q) == lCall[q].order = "asc" \/ "insert" \notin shifted[q]
NothingShifted(q) ==
    /\ shifted[q] \cap {"remove", "drop", "leave"} = {}
    /\ lCall[q].order = "asc" \/ "split" \notin shifted[q]

WalkStands(q) ==
    /\ \A i \in Shown(q) \cup lHeld[q].present : RowBorn(i)
    /\ Walking(q) => WithinStands(q)
    /\ Walking(q) /\ lCall[q].list.scope # "none" => Checked(q)
    /\ ~L!Loose(q) /\ InsertsHarmless(q) => NoneTwice(q)
    /\ ~L!Loose(q) /\ NothingShifted(q) => NoneMissed(q)

ListInv == ListTyped /\ \A q \in ListRequests : lCall[q].kind = "walk" => WalkStands(q)

\* While the tables rest, a request that keeps its place and what it holds has
\* the rows and the ranks it had.
LEMMA RanksRest ==
    ASSUME NEW q, lCall'[q] = lCall[q], rows' = rows, lHeld'[q].within = lHeld[q].within
    PROVE  L!Matching(q)' = L!Matching(q) /\ \A i : UpTo(q, i)' = UpTo(q, i) /\ Rank(q, i)' = Rank(q, i)
<1>1. L!Matching(q)' = L!Matching(q)
  BY DEF L!Matching, L!Present
<1>2. ASSUME NEW i PROVE UpTo(q, i)' = UpTo(q, i)
  BY <1>1 DEF UpTo, L!Follows
<1> QED BY <1>1, <1>2 DEF Rank

LEMMA WalkRests ==
    ASSUME NEW q \in ListRequests, WalkStands(q),
           lPc'[q] = lPc[q], lCall'[q] = lCall[q], lHeld'[q] = lHeld[q], lAnswer'[q] = lAnswer[q],
           rows' = rows, parents' = parents, shifted' = shifted, q \in late' <=> q \in late,
           \A i : RowBorn(i) => RowBorn(i)'
    PROVE  WalkStands(q)'
<1>1. L!Matching(q)' = L!Matching(q) /\ \A i : Rank(q, i)' = Rank(q, i)
  BY RanksRest
<1>2. Shown(q)' = Shown(q) /\ Seen(q)' = Seen(q) /\ Fetched(q)' = Fetched(q) /\ There(q)' = There(q)
  BY <1>1 DEF Shown, Seen, Fetched, There
<1>3. Reach(q)' = Reach(q) /\ Walking(q)' = Walking(q) /\ L!Loose(q)' = L!Loose(q) /\ Open' = Open
  BY DEF Reach, Pages, L!Limit, Walking, L!Loose, Open
<1>4. \A i \in Shown(q)' \cup lHeld'[q].present : RowBorn(i)'
  BY <1>2 DEF WalkStands
<1>5. NoneTwice(q)' = NoneTwice(q)
  BY <1>1, <1>2, <1>3 DEF NoneTwice, Distinct
<1>6. NoneMissed(q)' = NoneMissed(q)
  BY <1>1, <1>2, <1>3 DEF NoneMissed
<1>7. WithinStands(q)' = WithinStands(q) /\ Checked(q)' = Checked(q)
  BY <1>3 DEF WithinStands, Begun, Checked
<1>8. InsertsHarmless(q)' = InsertsHarmless(q) /\ NothingShifted(q)' = NothingShifted(q)
  BY DEF InsertsHarmless, NothingShifted
<1> QED BY <1>3, <1>4, <1>5, <1>6, <1>7, <1>8 DEF WalkStands


\* What a write does to the ranks of a reader that reads by age.
LEMMA RanksWritten ==
    ASSUME ListTyped, NEW r \in ListRequests, L!Write(r), NEW q \in ListRequests, q # r,
           lCall[q].kind = "walk", ~L!Loose(q)
    PROVE  /\ \A i \in L!Matching(q)' : RowBorn(i) => i \in L!Matching(q)
           /\ \A i \in L!Matching(q)' \cap L!Matching(q) :
                 /\ Rank(q, i) \in Nat /\ Rank(q, i)' \in Nat
                 /\ lCall[q].order = "asc" \/ lCall[r].kind # "insert" => Rank(q, i)' <= Rank(q, i)
                 /\ lCall[r].kind \notin {"remove", "drop"} => Rank(q, i) <= Rank(q, i)'
<1>1. /\ lCall'[q] = lCall[q] /\ lHeld'[q] = lHeld[q] /\ RowsStay(r) /\ lPc[r] = "write"
      /\ L!Loose(q)' = L!Loose(q)
  BY RowsWritten DEF OneLists, L!Loose
<1>2. /\ L!Matching(q) \subseteq L!Present /\ L!Matching(q)' \subseteq L!Present'
      /\ L!Present \subseteq Ids /\ L!Present' \subseteq Ids
      /\ \A i \in L!Present : rows[i].at \in Nat
      /\ \A i \in L!Present' : rows'[i].at \in Nat
  <2>1. L!Present \subseteq Ids /\ \A i \in L!Present : rows[i].at \in Nat
    BY PresentTyped
  <2>2. L!Present' \subseteq Ids /\ \A i \in L!Present' : rows'[i].at \in Nat
    BY RowsWritten DEF L!Present, L!Row
  <2> QED BY <2>1, <2>2 DEF L!Matching
<1>3. ASSUME NEW i \in L!Matching(q)', i \in L!Present PROVE i \in L!Matching(q)
  BY <1>1, <1>2, <1>3 DEF L!Matching, RowsStay
<1>4. ASSUME NEW i \in L!Matching(q)', RowBorn(i) PROVE i \in L!Matching(q)
  <2>1. i \in L!Present
    BY <1>1, <1>2, <1>4, InsertIsFresh DEF RowsStay
  <2> QED BY <1>3, <2>1
<1>5. ASSUME NEW i \in L!Matching(q), i \in L!Present' PROVE i \in L!Matching(q)'
  BY <1>1, <1>2, <1>5 DEF L!Matching, RowsStay
<1>6. /\ \A i, j \in Ids : L!Follows(lCall[q], j, i) <=>
            IF lCall[q].order = "asc" THEN rows[j].at <= rows[i].at ELSE rows[j].at >= rows[i].at
      /\ \A i, j \in Ids : L!Follows(lCall[q], j, i)' <=>
            IF lCall[q].order = "asc" THEN rows'[j].at <= rows'[i].at ELSE rows'[j].at >= rows'[i].at
  <2>1. lCall[q].sort = "age" /\ lCall[q].order \in {"asc", "desc", "descApart"}
    <3>1. lPc[q] # "idle"
      BY DEF ListTyped, PlacedList, L!NoCall
    <3>2. lCall[q] \in ListingCalls
      BY <3>1 DEF ListTyped, PlacedList
    <3> QED BY <3>2, ListCallFields DEF L!Loose
  <2> QED BY <1>1, <2>1 DEF L!Follows
<1>7. ASSUME NEW i \in L!Matching(q)', i \in L!Matching(q)
      PROVE  /\ lCall[q].order = "asc" \/ lCall[r].kind # "insert" => UpTo(q, i)' \subseteq UpTo(q, i)
             /\ lCall[r].kind \notin {"remove", "drop"} => UpTo(q, i) \subseteq UpTo(q, i)'
  <2>1. UpTo(q, i)' = {j \in L!Matching(q)' : L!Follows(lCall[q], j, i)'}
    BY <1>1 DEF UpTo
  <2>2. ASSUME NEW j \in L!Matching(q)', j \in L!Matching(q)
        PROVE  L!Follows(lCall[q], j, i)' <=> L!Follows(lCall[q], j, i)
    <3>1. i \in Ids /\ j \in Ids /\ rows'[i].at = rows[i].at /\ rows'[j].at = rows[j].at
      BY <1>1, <1>2, <1>7, <2>2 DEF RowsStay
    <3> QED BY <1>6, <3>1
  <2>3. ASSUME NEW j \in L!Matching(q)', j \notin L!Matching(q), L!Follows(lCall[q], j, i)'
        PROVE  lCall[q].order # "asc" /\ lCall[r].kind = "insert"
    <3>1. j \in L!Present' \ L!Present
      BY <1>2, <1>3, <2>3
    <3>2. lCall[r].kind = "insert" /\ rows[i].at < rows'[j].at /\ rows'[i].at = rows[i].at
      BY <1>1, <1>2, <1>7, <3>1 DEF RowsStay
    <3>3. lCall[q].order = "asc" => rows'[j].at <= rows'[i].at
      BY <1>2, <1>6, <1>7, <2>3
    <3> QED BY <1>2, <1>7, <3>1, <3>2, <3>3
  <2>4. ASSUME lCall[r].kind \notin {"remove", "drop"}, NEW j \in L!Matching(q)
        PROVE  j \in L!Matching(q)'
    BY <1>1, <1>2, <1>5, <2>4 DEF RowsStay
  <2>5. lCall[q].order = "asc" \/ lCall[r].kind # "insert" => UpTo(q, i)' \subseteq UpTo(q, i)
    BY <2>1, <2>2, <2>3 DEF UpTo
  <2>6. lCall[r].kind \notin {"remove", "drop"} => UpTo(q, i) \subseteq UpTo(q, i)'
    BY <2>1, <2>2, <2>4 DEF UpTo
  <2> QED BY <2>5, <2>6
<1>8. ASSUME NEW i \in L!Matching(q)', i \in L!Matching(q)
      PROVE  /\ IsFiniteSet(UpTo(q, i)) /\ IsFiniteSet(UpTo(q, i)')
             /\ Rank(q, i) = Cardinality(UpTo(q, i)) /\ Rank(q, i)' = Cardinality(UpTo(q, i)')
             /\ Rank(q, i) \in Nat /\ Rank(q, i)' \in Nat
  <2>1. IsFiniteSet(UpTo(q, i)) /\ Rank(q, i) = Cardinality(UpTo(q, i))
    BY <1>8, RankWithin DEF Rank
  <2>2. UpTo(q, i)' \subseteq L!Present' /\ IsFiniteSet(L!Present')
    BY <1>2, RowsWritten DEF UpTo
  <2>3. IsFiniteSet(UpTo(q, i)') /\ Rank(q, i)' = Cardinality(UpTo(q, i)')
    BY <2>2, FS_Subset DEF Rank
  <2> QED BY <2>1, <2>3, FS_CardinalityType
<1>9. ASSUME NEW i \in L!Matching(q)', i \in L!Matching(q)
      PROVE  /\ Rank(q, i) \in Nat /\ Rank(q, i)' \in Nat
             /\ lCall[q].order = "asc" \/ lCall[r].kind # "insert" => Rank(q, i)' <= Rank(q, i)
             /\ lCall[r].kind \notin {"remove", "drop"} => Rank(q, i) <= Rank(q, i)'
  BY <1>7, <1>8, <1>9, FS_Subset
<1> QED BY <1>4, <1>9

LEMMA WalkWritten ==
    ASSUME ListTyped, NEW r \in ListRequests, L!Write(r), NEW q \in ListRequests, q # r,
           lCall[q].kind = "walk", WalkStands(q)
    PROVE  WalkStands(q)'
<1>1. /\ lPc'[q] = lPc[q] /\ lCall'[q] = lCall[q] /\ lHeld'[q] = lHeld[q] /\ lAnswer'[q] = lAnswer[q]
      /\ OneLists(r) /\ lPc[r] = "write" /\ Notes(r) /\ ParentsStay(r)
  BY RowsWritten DEF OneLists
<1>2. Shown(q)' = Shown(q) /\ Seen(q)' = Seen(q) /\ Fetched(q)' = Fetched(q)
  BY <1>1 DEF Shown, Seen, Fetched
<1>3. Reach(q)' = Reach(q) /\ Walking(q)' = Walking(q) /\ L!Loose(q)' = L!Loose(q)
  BY <1>1 DEF Reach, Pages, L!Limit, Walking, L!Loose
<1>4. \A i \in Shown(q)' \cup lHeld'[q].present : RowBorn(i)'
  BY <1>1, <1>2, BornStays DEF WalkStands
<1>5. /\ shifted[q] \subseteq shifted'[q]
      /\ Walking(q) => lCall[r].kind \in shifted'[q]
      /\ lCall[r].kind = "insert" /\ lPc[q] = "rest" /\ lHeld[q].data = None => "split" \in shifted'[q]
  BY <1>1 DEF Notes, Walking
<1>6. Walking(q)' => WithinStands(q)'
  <2> SUFFICES ASSUME Walking(q) PROVE WithinStands(q)'
    BY <1>3
  <2>1. WithinStands(q)
    BY DEF WalkStands
  <2>2. Open' \subseteq Open /\ (lCall[r].kind \notin {"leave", "drop"} => Open' = Open)
    BY <1>1 DEF ParentsStay, Open, ListTyped, L!TypeOK
  <2> QED BY <1>1, <1>5, <2>1, <2>2 DEF WithinStands, Begun
<1>7. Walking(q)' /\ lCall'[q].list.scope # "none" => Checked(q)'
  <2> SUFFICES ASSUME Walking(q), lCall[q].list.scope # "none", lPc[q] \in {"read", "rest"}, q \notin late',
                      NEW p \in lHeld[q].within
               PROVE  parents'[p] # "closed"
    BY <1>1, <1>3 DEF Checked
  <2>1. q \notin late
    BY <1>1 DEF ParentsStay
  <2>2. parents[p] # "closed"
    BY <2>1 DEF WalkStands, Checked
  <2>3. p # lCall[r].parent \/ lCall[r].kind # "leave"
    BY <1>1 DEF ParentsStay
  <2>4. p \in Parents /\ parents \in [Parents -> {"open", "closed", "gone"}]
    BY DEF ListTyped, L!TypeOK, PlacedList, PageRecord
  <2>5. CASE parents' = parents
    BY <2>2, <2>5
  <2>6. CASE lCall[r].kind = "leave" /\ parents' = [parents EXCEPT ![lCall[r].parent] = "closed"]
    BY <2>2, <2>3, <2>4, <2>6
  <2>7. CASE parents' = [parents EXCEPT ![lCall[r].parent] = "gone"]
    BY <2>2, <2>4, <2>7
  <2> QED BY <1>1, <2>5, <2>6, <2>7 DEF ParentsStay
<1>8. ASSUME ~L!Loose(q), InsertsHarmless(q)' PROVE NoneTwice(q)'
  <2>1. NoneTwice(q)
    BY <1>1, <1>5, <1>8 DEF InsertsHarmless, WalkStands
  <2>2. ASSUME Walking(q), NEW i \in Shown(q), i \in L!Matching(q)'
        PROVE  Rank(q, i)' <= Reach(q)
    <3>1. lCall[q].order = "asc" \/ lCall[r].kind # "insert"
      BY <1>1, <1>5, <1>8, <2>2 DEF InsertsHarmless
    <3>2. RowBorn(i)
      BY DEF WalkStands
    <3>3. /\ i \in L!Matching(q) /\ Rank(q, i) \in Nat /\ Rank(q, i)' \in Nat
          /\ Rank(q, i)' <= Rank(q, i)
      BY <1>8, <2>2, <3>1, <3>2, RanksWritten
    <3>4. Rank(q, i) <= Reach(q)
      BY <2>1, <2>2, <3>3 DEF NoneTwice
    <3>5. Reach(q) \in Int
      <4>1. lCall[q] \in ListingCalls /\ lHeld[q].page \in Nat
        BY <2>2 DEF ListTyped, PlacedList, Walking, ListReading, PageRecord
      <4>2. Pages(q) \in Int /\ L!Limit(q) \in Int
        BY <4>1, LimitIsNat DEF Pages
      <4> QED BY <4>2 DEF Reach
    <3> QED BY <3>3, <3>4, <3>5
  <2> QED BY <1>1, <1>2, <1>3, <2>1, <2>2 DEF NoneTwice, Distinct
<1>9. ASSUME ~L!Loose(q), NothingShifted(q)' PROVE NoneMissed(q)'
  <2>1. NoneMissed(q)
    BY <1>1, <1>5, <1>9 DEF NothingShifted, WalkStands
  <2>2. ASSUME NEW i \in There(q)'
        PROVE  i \in There(q) /\ i \in L!Matching(q)'
    <3>1. i \in lHeld[q].present /\ i \in L!Matching(q)'
      BY <1>1 DEF There
    <3>2. RowBorn(i)
      BY <3>1 DEF WalkStands
    <3> QED BY <1>9, <3>1, <3>2, RanksWritten DEF There
  <2>3. ASSUME Walking(q) PROVE Reach(q) \in Int
    <3>1. lCall[q] \in ListingCalls /\ lHeld[q].page \in Nat
      BY <2>3 DEF ListTyped, PlacedList, Walking, ListReading, PageRecord
    <3>2. Pages(q) \in Int /\ L!Limit(q) \in Int
      BY <3>1, LimitIsNat DEF Pages
    <3> QED BY <3>2 DEF Reach
  <2>4. ASSUME Walking(q), NEW i \in There(q)', Rank(q, i)' <= Reach(q)
        PROVE  i \in Shown(q)
    <3>1. lCall[r].kind \notin {"remove", "drop"}
      BY <1>5, <1>9, <2>4 DEF NothingShifted
    <3>2. i \in L!Matching(q)' /\ i \in L!Matching(q) /\ i \in There(q)
      BY <2>2 DEF There
    <3>3. Rank(q, i) \in Nat /\ Rank(q, i)' \in Nat /\ Rank(q, i) <= Rank(q, i)'
      BY <1>9, <3>1, <3>2, RanksWritten
    <3>4. Rank(q, i) <= Reach(q)
      BY <2>3, <2>4, <3>3
    <3> QED BY <2>1, <2>4, <3>2, <3>4 DEF NoneMissed
  <2>5. ASSUME Walking(q), lHeld[q].data = None, lHeld[q].total # None, NEW i \in There(q)'
        PROVE  Rank(q, i)' <= lHeld[q].total
    <3>1. lPc[q] = "rest" /\ lHeld[q].total \in Nat
      BY <2>5 DEF Walking, ListReading, ListTyped, PlacedList, PageRecord
    <3>2. lCall[q].order = "asc" \/ lCall[r].kind # "insert"
      BY <1>1, <1>5, <1>9, <2>5, <3>1 DEF NothingShifted
    <3>3. i \in L!Matching(q)' /\ i \in L!Matching(q) /\ i \in There(q)
      BY <2>2 DEF There
    <3>4. Rank(q, i) \in Nat /\ Rank(q, i)' \in Nat /\ Rank(q, i)' <= Rank(q, i)
      BY <1>9, <3>2, <3>3, RanksWritten
    <3>5. Rank(q, i) <= lHeld[q].total
      BY <2>1, <2>5, <3>3 DEF NoneMissed
    <3> QED BY <3>1, <3>4, <3>5
  <2>6. ASSUME Walking(q), lHeld[q].data # None, lHeld[q].total # None, lHeld[q].total <= Reach(q)
        PROVE  There(q)' \subseteq Shown(q)
    BY <2>1, <2>2, <2>6 DEF NoneMissed
  <2>7. ASSUME lPc[q] = "done", lAnswer[q] = "ok" PROVE There(q)' \subseteq Seen(q)
    BY <2>1, <2>2, <2>7 DEF NoneMissed
  <2> QED BY <1>1, <1>2, <1>3, <2>4, <2>5, <2>6, <2>7 DEF NoneMissed
<1> QED BY <1>3, <1>4, <1>6, <1>7, <1>8, <1>9 DEF WalkStands


LEMMA RanksArePositive ==
    ListTyped => \A q \in ListRequests :
                    lCall[q].kind = "walk" /\ ~L!Loose(q) =>
                        \A i \in L!Matching(q) : Rank(q, i) \in Nat /\ 1 <= Rank(q, i)
BY RankWithin

LEMMA RanksStayPositive ==
    ListTyped' => \A q \in ListRequests :
                    lCall'[q].kind = "walk" /\ ~L!Loose(q)' =>
                        \A i \in L!Matching(q)' : Rank(q, i)' \in Nat /\ 1 <= Rank(q, i)'
<1> DEFINE Positive == \A q \in ListRequests :
                    lCall[q].kind = "walk" /\ ~L!Loose(q) =>
                        \A i \in L!Matching(q) : Rank(q, i) \in Nat /\ 1 <= Rank(q, i)
<1>1. ListTyped => Positive
  BY RanksArePositive
<1>2. ListTyped' => Positive'
  <2> HIDE DEF Positive
  <2> QED BY <1>1, PTL
<1> QED BY <1>2

LEMMA ReachIs ==
    ASSUME ListTyped, NEW q \in ListRequests, Walking(q)
    PROVE  /\ lCall[q].kind = "walk" /\ lCall[q] \in ListingCalls /\ lHeld[q] \in PageRecord
           /\ lHeld[q].page \in Nat \ {0} /\ L!Limit(q) \in Nat /\ Pages(q) \in Nat /\ Reach(q) \in Nat
           /\ lHeld[q].seen \in Seq(Ids) /\ lHeld[q].data \in Seq(Ids) \cup {None}
           /\ lHeld[q].total \in Nat \cup {None}
<1>1. lCall[q].kind = "walk" /\ lCall[q] \in ListingCalls /\ lHeld[q] \in PageRecord
  BY DEF ListTyped, PlacedList, Walking, ListReading
<1>2. lHeld[q].page \in Nat \ {0} /\ L!Limit(q) \in Nat /\ Pages(q) \in Nat
  BY <1>1, LimitIsNat DEF PageRecord, Pages
<1>3. Reach(q) \in Nat
  BY <1>2, NextMultiple DEF Reach
<1> QED BY <1>1, <1>2, <1>3 DEF PageRecord

\* A reader that has seen nothing yet has nothing behind him.
LEMMA NothingSeen ==
    ASSUME ListTyped', NEW r \in ListRequests, lCall'[r].kind = "walk", ~L!Loose(r)', lPc'[r] # "done",
           lHeld'[r].page = 1, lHeld'[r].seen = <<>>, lHeld'[r].data = None, lHeld'[r].total = None,
           L!Limit(r)' \in Nat
    PROVE  NoneTwice(r)' /\ NoneMissed(r)'
<1>1. Shown(r)' = {} /\ Distinct(lHeld'[r].seen)
  BY DEF Shown, Seen, Fetched, Distinct
<1>2. Reach(r)' = 0
  <2>1. Pages(r)' = 0
    BY DEF Pages
  <2> QED BY <2>1 DEF Reach
<1>3. \A i \in L!Matching(r)' : Rank(r, i)' \in Nat /\ 1 <= Rank(r, i)'
  BY RanksStayPositive
<1>4. NoneTwice(r)'
  BY <1>1 DEF NoneTwice, Distinct
<1>5. NoneMissed(r)'
  BY <1>2, <1>3 DEF NoneMissed, There
<1> QED BY <1>4, <1>5

LEMMA WalkStarted ==
    ASSUME ListTyped, ListTyped', NEW r \in ListRequests, L!StartWalk(r)
    PROVE  WalkStands(r)'
<1>1. /\ OneLists(r) /\ Resting(r) /\ lPc[r] = "idle" /\ lPc'[r] = L!First(lCall'[r].list)
      /\ lCall'[r] \in ListingCalls /\ lCall'[r].kind = "walk" /\ lHeld'[r] = FirstPage
  BY WalkStarts
<1>2. /\ lHeld'[r].page = 1 /\ lHeld'[r].seen = <<>> /\ lHeld'[r].within = {} /\ lHeld'[r].data = None
      /\ lHeld'[r].total = None /\ lHeld'[r].present = L!Present
  BY <1>1 DEF FirstPage
<1>3. Shown(r)' = {}
  BY <1>2 DEF Shown, Seen, Fetched
<1>4. \A i \in L!Present : RowBorn(i)'
  BY <1>1, BornStays DEF ListTyped, RowsBorn
<1>5. /\ lPc'[r] \in {"scope", "read"}
      /\ (lPc'[r] = "read" <=> lCall'[r].list.scope = "none")
  BY <1>1 DEF L!First
<1>6. WithinStands(r)'
  BY <1>2, <1>5 DEF WithinStands, Begun
<1>7. L!Limit(r)' \in Nat
  BY <1>1, ListCallFields, PartsAssumption DEF L!Limit, L!ListingsAssumption
<1>8. ~L!Loose(r)' => NoneTwice(r)' /\ NoneMissed(r)'
  BY <1>1, <1>2, <1>5, <1>7, NothingSeen
<1> QED BY <1>2, <1>3, <1>4, <1>5, <1>6, <1>8 DEF WalkStands, Checked

LEMMA WalkScoped ==
    ASSUME ListTyped, ListTyped', NEW r \in ListRequests, L!ReadScope(r), WalkStands(r)
    PROVE  WalkStands(r)'
<1>1. /\ OneLists(r) /\ Resting(r) /\ lPc[r] = "scope" /\ lCall'[r] = lCall[r]
      /\ rows' = rows /\ parents' = parents /\ shifted' = shifted
  BY ScopeRead DEF Resting
<1>2. Walking(r)
  BY <1>1 DEF Walking, ListReading
<1>3. /\ lCall[r].kind = "walk" /\ lCall[r] \in ListingCalls /\ lCall[r].list.scope # "none"
      /\ lHeld[r].data = None /\ lHeld[r].total = None
      /\ lHeld[r] \in PageRecord /\ lHeld[r].page \in Nat \ {0} /\ L!Limit(r) \in Nat
  BY <1>1, <1>2, ReachIs DEF ListTyped, PlacedList
<1>4. WithinStands(r)
  BY <1>2 DEF WalkStands
<1>5. /\ L!Loose(r)' = L!Loose(r) /\ InsertsHarmless(r)' = InsertsHarmless(r)
      /\ NothingShifted(r)' = NothingShifted(r) /\ L!Limit(r)' = L!Limit(r) /\ Open' = Open
  BY <1>1 DEF L!Loose, InsertsHarmless, NothingShifted, L!Limit, Open
<1>6. CASE lPc'[r] = "done" /\ lHeld'[r] = lHeld[r]
  <2>1. /\ Shown(r)' = Shown(r) /\ Seen(r)' = Seen(r) /\ ~Walking(r)'
        /\ \A i \in Shown(r)' \cup lHeld'[r].present : RowBorn(i)'
    BY <1>1, <1>6, BornStays DEF Shown, Seen, Fetched, Walking, ListReading, WalkStands
  <2>2. ~L!Loose(r) /\ InsertsHarmless(r) => NoneTwice(r)'
    BY <1>6, <2>1 DEF WalkStands, NoneTwice, Distinct
  <2>3. ASSUME NothingShifted(r), lAnswer'[r] = "ok" PROVE There(r)' = {}
    <3>1. lCall[r].list.scope # "parent" /\ Open = {}
      BY <1>6, <2>3, ScopeRead
    <3>2. lHeld[r].within = {}
      BY <1>1, <1>3, <1>4, <2>3, <3>1 DEF WithinStands, NothingShifted
    <3>3. L!Matching(r) = {}
      BY <1>3, <3>2 DEF L!Matching
    <3>4. L!Matching(r)' = L!Matching(r)
      BY <1>1, <1>6, RanksRest
    <3> QED BY <3>3, <3>4 DEF There
  <2>4. NothingShifted(r) => NoneMissed(r)'
    BY <1>6, <2>1, <2>3 DEF NoneMissed
  <2> QED BY <1>5, <2>1, <2>2, <2>4 DEF WalkStands
<1>7. CASE lPc'[r] = "read"
  <2>1. PICK within \in SUBSET Parents :
           /\ lHeld'[r] = [lHeld[r] EXCEPT !.within = within]
           /\ \A p \in within : parents[p] # "closed"
           /\ lCall[r].list.scope = "parent" => within = {lCall[r].parent}
           /\ lCall[r].list.scope # "parent" => within = Open
    <3>1. lCall[r].parent \in Parents /\ Open \subseteq Parents
      BY <1>3, ListCallFields DEF Open
    <3>2. CASE lCall[r].list.scope = "parent"
      <4> DEFINE there == {lCall[r].parent}
      <4>1. parents[lCall[r].parent] # "closed" /\ lHeld'[r] = [lHeld[r] EXCEPT !.within = there]
        BY <1>7, <3>2, ScopeRead
      <4>2. there \in SUBSET Parents /\ \A p \in there : parents[p] # "closed"
        BY <3>1, <4>1
      <4>3. there = {lCall[r].parent}
        OBVIOUS
      <4> HIDE DEF there
      <4> QED BY <3>2, <4>1, <4>2, <4>3
    <3>3. CASE lCall[r].list.scope # "parent"
      <4>1. lHeld'[r] = [lHeld[r] EXCEPT !.within = Open] /\ \A p \in Open : parents[p] # "closed"
        BY <1>7, <3>3, ScopeRead DEF Open
      <4> QED BY <3>1, <3>3, <4>1
    <3> QED BY <3>1, <3>2, <3>3
  <2>2. /\ lHeld'[r].within = within /\ lHeld'[r].seen = lHeld[r].seen /\ lHeld'[r].data = None
        /\ lHeld'[r].total = None /\ lHeld'[r].page = lHeld[r].page /\ lHeld'[r].present = lHeld[r].present
    BY <1>3, <2>1 DEF PageRecord
  <2>3. /\ Shown(r)' = Shown(r) /\ Seen(r)' = Seen(r) /\ Fetched(r)' = {} /\ Fetched(r) = {}
        /\ \A i \in Shown(r)' \cup lHeld'[r].present : RowBorn(i)'
        /\ Reach(r)' = Reach(r)
    BY <1>1, <1>3, <1>5, <2>2, BornStays DEF Shown, Seen, Fetched, WalkStands, Reach, Pages
  <2>4. WithinStands(r)' /\ Checked(r)'
    BY <1>1, <1>5, <1>7, <2>1, <2>2 DEF WithinStands, Begun, Checked
  <2>5. CASE ~Begun(r)
    <3>1. lHeld'[r].seen = <<>> /\ lHeld'[r].page = 1
      BY <1>3, <1>4, <2>2, <2>5 DEF WithinStands, Begun
    <3>2. ~L!Loose(r)' => NoneTwice(r)' /\ NoneMissed(r)'
      BY <1>1, <1>3, <1>5, <1>7, <2>2, <3>1, NothingSeen
    <3> QED BY <2>3, <2>4, <3>2 DEF WalkStands
  <2>6. CASE Begun(r)
    <3>1. /\ within \subseteq lHeld[r].within
          /\ NothingShifted(r) => within = lHeld[r].within
      BY <1>3, <1>4, <2>1, <2>6 DEF WithinStands, NothingShifted
    <3>2. L!Matching(r)' \subseteq L!Matching(r)
      BY <1>1, <2>2, <3>1 DEF L!Matching, L!Present
    <3>3. ASSUME ~L!Loose(r), InsertsHarmless(r) PROVE NoneTwice(r)'
      <4>1. NoneTwice(r)
        BY <3>3 DEF WalkStands
      <4>2. ASSUME NEW i \in Shown(r), i \in L!Matching(r)' PROVE Rank(r, i)' <= Reach(r)
        <5>1. UpTo(r, i)' \subseteq UpTo(r, i)
          BY <1>1, <3>2 DEF UpTo, L!Follows
        <5>2. Rank(r, i)' <= Rank(r, i) /\ Rank(r, i) \in Nat /\ Rank(r, i)' \in Nat
          <6>1. IsFiniteSet(UpTo(r, i))
            BY <1>3, <3>2, <3>3, <4>2, RankWithin
          <6>2. IsFiniteSet(UpTo(r, i)') /\ Cardinality(UpTo(r, i)') <= Cardinality(UpTo(r, i))
            BY <5>1, <6>1, FS_Subset
          <6>3. Rank(r, i)' = Cardinality(UpTo(r, i)') /\ Rank(r, i) = Cardinality(UpTo(r, i))
            BY DEF Rank
          <6> QED BY <6>1, <6>2, <6>3, FS_CardinalityType
        <5>3. Rank(r, i) <= Reach(r) /\ Reach(r) \in Nat
          BY <1>2, <3>2, <4>1, <4>2, ReachIs DEF NoneTwice
        <5> QED BY <5>2, <5>3
      <4> QED BY <2>2, <2>3, <4>1, <4>2 DEF NoneTwice, Distinct
    <3>4. ASSUME ~L!Loose(r), NothingShifted(r) PROVE NoneMissed(r)'
      <4>1. NoneMissed(r)
        BY <3>4 DEF WalkStands
      <4>2. L!Matching(r)' = L!Matching(r) /\ \A i : Rank(r, i)' = Rank(r, i)
        BY <1>1, <2>2, <3>1, <3>4, RanksRest
      <4>3. There(r)' = There(r)
        BY <2>2, <4>2 DEF There
      <4>4. \A i \in There(r) : Rank(r, i) <= Reach(r) => i \in Shown(r)
        BY <1>2, <4>1 DEF NoneMissed
      <4> QED BY <1>7, <2>2, <2>3, <4>2, <4>3, <4>4 DEF NoneMissed
    <3> QED BY <1>5, <2>3, <2>4, <3>3, <3>4 DEF WalkStands
  <2> QED BY <2>5, <2>6
<1> QED BY <1>6, <1>7, ScopeRead


LEMMA WalkFetched ==
    ASSUME ListTyped, ListTyped', NEW r \in ListRequests, L!ReadRows(r), WalkStands(r)
    PROVE  WalkStands(r)'
<1>1. /\ OneLists(r) /\ Resting(r) /\ lPc[r] \in {"read", "rest"} /\ lPc'[r] = "rest"
      /\ lHeld[r].data = None /\ lCall'[r] = lCall[r] /\ late' = late
      /\ rows' = rows /\ parents' = parents /\ shifted' = shifted
  BY RowsRead DEF Resting
<1>2. PICK s \in L!Orderings(r, L!Matching(r)) : lHeld'[r] = [lHeld[r] EXCEPT !.data = L!Page(s, r)]
  BY RowsRead
<1>3. Walking(r) /\ Walking(r)'
  BY <1>1 DEF Walking, ListReading
<1>4. /\ lCall[r].kind = "walk" /\ lCall[r] \in ListingCalls /\ lHeld[r] \in PageRecord
      /\ lHeld[r].page \in Nat \ {0} /\ L!Limit(r) \in Nat /\ lHeld[r].total \in Nat \cup {None}
  BY <1>3, ReachIs
<1> DEFINE data == L!Page(s, r)
           k == lHeld[r].page - 1
           limit == L!Limit(r)
<1>5. k \in Nat /\ lHeld[r].page = k + 1
  BY <1>4
<1>6. data \in Seq(Ids) /\ data \in Seq(L!Matching(r)) /\ data # None
  BY <1>3, PageTyped, NoneNoRow DEF Walking
<1>7. ~L!Loose(r) =>
        /\ Distinct(data)
        /\ \A n \in DOMAIN data : k * limit < Rank(r, data[n]) /\ Rank(r, data[n]) <= k * limit + limit
        /\ \A i \in L!Matching(r) :
              k * limit < Rank(r, i) /\ Rank(r, i) <= k * limit + limit =>
                  \E n \in DOMAIN data : data[n] = i
  BY <1>4, <1>5, PageRanks
<1>8. \A n \in DOMAIN data : data[n] \in L!Matching(r)
  BY <1>6, ElementOfSeq
<1> HIDE DEF data, k, limit
<1>9. /\ lHeld'[r].within = lHeld[r].within /\ lHeld'[r].seen = lHeld[r].seen /\ lHeld'[r].data = data
      /\ lHeld'[r].total = lHeld[r].total /\ lHeld'[r].page = lHeld[r].page
      /\ lHeld'[r].present = lHeld[r].present
  BY <1>2, <1>4 DEF PageRecord, data
<1>10. /\ Seen(r)' = Seen(r) /\ Fetched(r)' = {data[n] : n \in DOMAIN data} /\ Shown(r) = Seen(r)
       /\ Shown(r)' = Seen(r) \cup {data[n] : n \in DOMAIN data}
  BY <1>1, <1>6, <1>9 DEF Seen, Fetched, Shown
<1>11. L!Matching(r)' = L!Matching(r) /\ \A i : Rank(r, i)' = Rank(r, i)
  BY <1>1, <1>9, RanksRest
<1>12. There(r)' = There(r)
  BY <1>9, <1>11 DEF There
<1>13. /\ Reach(r) = k * limit /\ Reach(r)' = k * limit + limit /\ k * limit \in Nat /\ limit \in Nat
  <2>1. Pages(r) = k /\ Pages(r)' = k + 1
    BY <1>1, <1>5, <1>6, <1>9 DEF Pages, k
  <2>2. L!Limit(r)' = limit /\ limit \in Nat
    BY <1>1, <1>4 DEF L!Limit, limit
  <2>3. Reach(r) = k * limit /\ Reach(r)' = (k + 1) * limit
    BY <2>1, <2>2 DEF Reach, limit
  <2> QED BY <1>5, <2>2, <2>3, NextMultiple
<1>14. /\ L!Loose(r)' = L!Loose(r) /\ InsertsHarmless(r)' = InsertsHarmless(r)
       /\ NothingShifted(r)' = NothingShifted(r) /\ Open' = Open
  BY <1>1 DEF L!Loose, InsertsHarmless, NothingShifted, Open
<1>15. \A i \in Shown(r)' \cup lHeld'[r].present : RowBorn(i)'
  <2>1. \A i \in L!Matching(r) : RowBorn(i)
    BY MatchingFinite DEF ListTyped, RowsBorn
  <2>2. \A i \in Shown(r)' \cup lHeld'[r].present : RowBorn(i)
    BY <1>8, <1>9, <1>10, <2>1 DEF WalkStands
  <2> QED BY <1>1, <2>2, BornStays
<1>16. WithinStands(r)' /\ (lCall[r].list.scope # "none" => Checked(r)')
  <2>1. WithinStands(r) /\ (lCall[r].list.scope # "none" => Checked(r))
    BY <1>3 DEF WalkStands
  <2> QED BY <1>1, <1>9, <1>14, <2>1 DEF WithinStands, Begun, Checked
<1>17. ASSUME ~L!Loose(r), InsertsHarmless(r) PROVE NoneTwice(r)'
  <2>1. NoneTwice(r)
    BY <1>17 DEF WalkStands
  <2>2. \A i \in L!Matching(r) : Rank(r, i) \in Nat
    BY <1>4, <1>17, RankWithin
  <2>3. \A i \in Seen(r) \cap L!Matching(r) : Rank(r, i) <= k * limit
    BY <1>3, <1>10, <1>13, <2>1 DEF NoneTwice
  <2>4. Distinct(lHeld'[r].data) /\ Distinct(lHeld'[r].seen)
    BY <1>7, <1>9, <1>17, <2>1 DEF NoneTwice
  <2>5. Fetched(r)' \cap Seen(r)' = {}
    <3> SUFFICES ASSUME NEW n \in DOMAIN data, data[n] \in Seen(r) PROVE FALSE
      BY <1>10
    <3> QED BY <1>7, <1>8, <1>13, <1>17, <2>2, <2>3
  <2>6. ASSUME NEW i \in Shown(r)', i \in L!Matching(r) PROVE Rank(r, i) <= k * limit + limit
    <3>1. CASE i \in Seen(r)
      BY <1>13, <2>2, <2>3, <2>6, <3>1
    <3>2. CASE i \notin Seen(r)
      BY <1>7, <1>10, <1>17, <2>6, <3>2
    <3> QED BY <3>1, <3>2
  <2>7. \A i \in Shown(r)' \cap L!Matching(r)' : Rank(r, i)' <= Reach(r)'
    BY <1>11, <1>13, <2>6
  <2> QED BY <2>4, <2>5, <2>7 DEF NoneTwice, Distinct
<1>18. ASSUME ~L!Loose(r), NothingShifted(r) PROVE NoneMissed(r)'
  <2>1. NoneMissed(r)
    BY <1>18 DEF WalkStands
  <2>2. \A i \in There(r) : i \in L!Matching(r) /\ Rank(r, i) \in Nat
    BY <1>4, <1>18, RankWithin DEF There
  <2>3. \A i \in There(r) : Rank(r, i) <= k * limit => i \in Seen(r)
    BY <1>3, <1>10, <1>13, <2>1 DEF NoneMissed
  <2>4. ASSUME NEW i \in There(r), Rank(r, i) <= k * limit + limit PROVE i \in Shown(r)'
    <3>1. CASE Rank(r, i) <= k * limit
      BY <1>10, <2>3, <3>1
    <3>2. CASE k * limit < Rank(r, i)
      BY <1>7, <1>10, <1>18, <2>2, <2>4, <3>2
    <3> QED BY <1>13, <2>2, <3>1, <3>2
  <2>5. ASSUME lHeld[r].total # None, lHeld[r].total <= k * limit + limit
        PROVE  There(r) \subseteq Shown(r)'
    <3>1. \A i \in There(r) : Rank(r, i) <= lHeld[r].total
      BY <1>1, <1>3, <2>1, <2>5 DEF NoneMissed
    <3>2. \A i \in There(r) : Rank(r, i) <= k * limit + limit
      BY <1>4, <1>13, <2>2, <2>5, <3>1
    <3> QED BY <2>4, <3>2
  <2> QED BY <1>1, <1>6, <1>9, <1>11, <1>12, <1>13, <2>4, <2>5 DEF NoneMissed
<1> QED BY <1>1, <1>14, <1>15, <1>16, <1>17, <1>18 DEF WalkStands

LEMMA WalkCounted ==
    ASSUME ListTyped, ListTyped', NEW r \in ListRequests, L!CountRows(r), WalkStands(r)
    PROVE  WalkStands(r)'
<1>1. /\ OneLists(r) /\ Resting(r) /\ lPc[r] \in {"read", "rest"} /\ lPc'[r] = "rest"
      /\ lCall'[r] = lCall[r] /\ late' = late
      /\ lHeld'[r] = [lHeld[r] EXCEPT !.total = Cardinality(L!Matching(r))]
      /\ rows' = rows /\ parents' = parents /\ shifted' = shifted
  BY RowsCounted DEF Resting
<1>2. Walking(r) /\ Walking(r)'
  BY <1>1 DEF Walking, ListReading
<1>3. lCall[r].kind = "walk" /\ lHeld[r] \in PageRecord /\ Reach(r) \in Nat
  BY <1>2, ReachIs
<1>4. /\ lHeld'[r].within = lHeld[r].within /\ lHeld'[r].seen = lHeld[r].seen
      /\ lHeld'[r].data = lHeld[r].data /\ lHeld'[r].page = lHeld[r].page
      /\ lHeld'[r].present = lHeld[r].present /\ lHeld'[r].total = Cardinality(L!Matching(r))
  BY <1>1, <1>3 DEF PageRecord
<1>5. Seen(r)' = Seen(r) /\ Fetched(r)' = Fetched(r) /\ Shown(r)' = Shown(r)
  BY <1>4 DEF Seen, Fetched, Shown
<1>6. L!Matching(r)' = L!Matching(r) /\ \A i : Rank(r, i)' = Rank(r, i)
  BY <1>1, <1>4, RanksRest
<1>7. There(r)' = There(r)
  BY <1>4, <1>6 DEF There
<1>8. Reach(r)' = Reach(r) /\ Open' = Open
  BY <1>1, <1>4 DEF Reach, Pages, L!Limit, Open
<1>9. /\ L!Loose(r)' = L!Loose(r) /\ InsertsHarmless(r)' = InsertsHarmless(r)
      /\ NothingShifted(r)' = NothingShifted(r)
  BY <1>1 DEF L!Loose, InsertsHarmless, NothingShifted
<1>10. \A i \in Shown(r)' \cup lHeld'[r].present : RowBorn(i)'
  BY <1>1, <1>4, <1>5, BornStays DEF WalkStands
<1>11. WithinStands(r)' /\ (lCall[r].list.scope # "none" => Checked(r)')
  <2>1. WithinStands(r) /\ (lCall[r].list.scope # "none" => Checked(r))
    BY <1>2 DEF WalkStands
  <2> QED BY <1>1, <1>4, <1>8, <2>1 DEF WithinStands, Begun, Checked
<1>12. NoneTwice(r) => NoneTwice(r)'
  BY <1>2, <1>4, <1>5, <1>6, <1>8 DEF NoneTwice, Distinct
<1>13. ASSUME ~L!Loose(r), NothingShifted(r) PROVE NoneMissed(r)'
  <2>1. NoneMissed(r)
    BY <1>13 DEF WalkStands
  <2>2. Cardinality(L!Matching(r)) \in Nat
    BY MatchingFinite
  <2>3. \A i \in There(r) : Rank(r, i) \in Nat /\ Rank(r, i) <= Cardinality(L!Matching(r))
    BY <1>3, <1>13, RankWithin DEF There
  <2>4. \A i \in There(r) : Rank(r, i) <= Reach(r) => i \in Shown(r)
    BY <1>2, <2>1 DEF NoneMissed
  <2>5. Cardinality(L!Matching(r)) <= Reach(r) => There(r) \subseteq Shown(r)
    BY <1>3, <2>2, <2>3, <2>4
  <2> QED BY <1>1, <1>4, <1>5, <1>6, <1>7, <1>8, <2>3, <2>4, <2>5 DEF NoneMissed
<1> QED BY <1>1, <1>9, <1>10, <1>11, <1>12, <1>13 DEF WalkStands


\* u has the members of s and then those of t.
Joins(u, s, t) ==
    /\ DOMAIN s = 1 .. Len(s) /\ DOMAIN t = 1 .. Len(t) /\ DOMAIN u = 1 .. Len(s) + Len(t)
    /\ Len(s) \in Nat /\ Len(t) \in Nat
    /\ \A n \in DOMAIN s : n \in DOMAIN u /\ u[n] = s[n]
    /\ \A n \in DOMAIN t : Len(s) + n \in DOMAIN u /\ u[Len(s) + n] = t[n]
    /\ \A n \in DOMAIN u : \/ n \in DOMAIN s /\ u[n] = s[n]
                           \/ n - Len(s) \in DOMAIN t /\ u[n] = t[n - Len(s)]

LEMMA OneAfterOther == ASSUME NEW S, NEW s \in Seq(S), NEW t \in Seq(S) PROVE Joins(s \o t, s, t)
<1> DEFINE u == s \o t
<1>1. /\ u \in Seq(S) /\ Len(u) = Len(s) + Len(t) /\ Len(s) \in Nat /\ Len(t) \in Nat
      /\ \A n \in 1 .. Len(s) + Len(t) : u[n] = IF n <= Len(s) THEN s[n] ELSE t[n - Len(s)]
  BY ConcatProperties
<1>2. DOMAIN u = 1 .. Len(s) + Len(t) /\ DOMAIN s = 1 .. Len(s) /\ DOMAIN t = 1 .. Len(t)
  BY <1>1
<1> HIDE DEF u
<1>3. \A n \in DOMAIN s : n \in DOMAIN u /\ u[n] = s[n]
  BY <1>1, <1>2
<1>4. \A n \in DOMAIN t : Len(s) + n \in DOMAIN u /\ u[Len(s) + n] = t[n]
  BY <1>1, <1>2
<1>5. \A n \in DOMAIN u : \/ n \in DOMAIN s /\ u[n] = s[n]
                          \/ n - Len(s) \in DOMAIN t /\ u[n] = t[n - Len(s)]
  BY <1>1, <1>2
<1>6. Joins(u, s, t)
  BY <1>1, <1>2, <1>3, <1>4, <1>5 DEF Joins
<1> QED BY <1>6 DEF u

\* Two sequences of different things one after the other.
LEMMA DistinctTogether ==
    ASSUME NEW S, NEW s \in Seq(S), NEW t \in Seq(S), Distinct(s), Distinct(t),
           \A m \in DOMAIN s, n \in DOMAIN t : s[m] # t[n]
    PROVE  Distinct(s \o t)
<1> DEFINE u == s \o t
<1>1. /\ \A n \in DOMAIN u : \/ n \in DOMAIN s /\ u[n] = s[n]
                             \/ n - Len(s) \in DOMAIN t /\ u[n] = t[n - Len(s)]
      /\ DOMAIN u = 1 .. Len(s) + Len(t) /\ Len(s) \in Nat /\ Len(t) \in Nat
  <2>1. Joins(u, s, t)
    BY OneAfterOther
  <2> HIDE DEF u
  <2> QED BY <2>1 DEF Joins
<1> HIDE DEF u
<1>2. ASSUME NEW m \in DOMAIN u, NEW n \in DOMAIN u, u[m] = u[n] PROVE m = n
  <2>1. CASE m \in DOMAIN s /\ u[m] = s[m] /\ n \in DOMAIN s /\ u[n] = s[n]
    BY <1>2, <2>1 DEF Distinct
  <2>2. CASE m - Len(s) \in DOMAIN t /\ u[m] = t[m - Len(s)] /\ n - Len(s) \in DOMAIN t /\ u[n] = t[n - Len(s)]
    <3>1. m - Len(s) = n - Len(s)
      BY <1>2, <2>2 DEF Distinct
    <3> QED BY <1>1, <1>2, <3>1
  <2>3. CASE m \in DOMAIN s /\ u[m] = s[m] /\ n - Len(s) \in DOMAIN t /\ u[n] = t[n - Len(s)]
    BY <1>2, <2>3
  <2>4. CASE n \in DOMAIN s /\ u[n] = s[n] /\ m - Len(s) \in DOMAIN t /\ u[m] = t[m - Len(s)]
    BY <1>2, <2>4
  <2> QED BY <1>1, <2>1, <2>2, <2>3, <2>4
<1> QED BY <1>2 DEF Distinct, u

LEMMA WalkTurned ==
    ASSUME ListTyped, ListTyped', NEW r \in ListRequests, L!NextPage(r), WalkStands(r)
    PROVE  WalkStands(r)'
<1>1. /\ OneLists(r) /\ Resting(r) /\ lPc[r] = "rest" /\ lHeld[r].data # None /\ lHeld[r].total # None
      /\ lCall'[r] = lCall[r] /\ rows' = rows /\ parents' = parents /\ shifted' = shifted
  BY PageTurned DEF Resting
<1>2. Walking(r)
  BY <1>1 DEF Walking, ListReading
<1>3. /\ lCall[r].kind = "walk" /\ lHeld[r] \in PageRecord /\ Reach(r) \in Nat /\ L!Limit(r) \in Nat
      /\ lHeld[r].page \in Nat \ {0} /\ lHeld[r].seen \in Seq(Ids) /\ lHeld[r].data \in Seq(Ids)
      /\ lHeld[r].total \in Nat
  BY <1>1, <1>2, ReachIs
<1> DEFINE seen == lHeld[r].seen \o lHeld[r].data
<1>4. \A i : (\E n \in DOMAIN seen : seen[n] = i) <=> i \in Shown(r)
  <2>1. \A i : i \in Shown(r) <=> \/ \E n \in DOMAIN lHeld[r].seen : lHeld[r].seen[n] = i
                                  \/ \E n \in DOMAIN lHeld[r].data : lHeld[r].data[n] = i
    BY <1>1 DEF Shown, Seen, Fetched
  <2>2. \A i : (\E n \in DOMAIN seen : seen[n] = i) <=>
                  \/ \E n \in DOMAIN lHeld[r].seen : lHeld[r].seen[n] = i
                  \/ \E n \in DOMAIN lHeld[r].data : lHeld[r].data[n] = i
    <3>1. Joins(seen, lHeld[r].seen, lHeld[r].data)
      BY <1>3, OneAfterOther
    <3> HIDE DEF seen
    <3> QED BY <3>1 DEF Joins
  <2> HIDE DEF seen
  <2> QED BY <2>1, <2>2
<1>5. /\ L!Loose(r)' = L!Loose(r) /\ InsertsHarmless(r)' = InsertsHarmless(r)
      /\ NothingShifted(r)' = NothingShifted(r) /\ Open' = Open /\ L!Limit(r)' = L!Limit(r)
  BY <1>1 DEF L!Loose, InsertsHarmless, NothingShifted, Open, L!Limit
<1>6. ~L!Loose(r) /\ InsertsHarmless(r) => Distinct(seen) /\ Distinct(lHeld[r].seen)
  <2> SUFFICES ASSUME ~L!Loose(r), InsertsHarmless(r) PROVE Distinct(seen) /\ Distinct(lHeld[r].seen)
    OBVIOUS
  <2>1. NoneTwice(r)
    BY DEF WalkStands
  <2>2. /\ Distinct(lHeld[r].seen) /\ Distinct(lHeld[r].data) /\ Fetched(r) \cap Seen(r) = {}
    BY <1>1, <1>2, <2>1 DEF NoneTwice
  <2>3. \A m \in DOMAIN lHeld[r].seen, n \in DOMAIN lHeld[r].data : lHeld[r].seen[m] # lHeld[r].data[n]
    BY <1>1, <2>2 DEF Fetched, Seen
  <2> QED BY <1>3, <2>2, <2>3, DistinctTogether
<1> HIDE DEF seen
<1>7. CASE ~L!HasNext(r) /\ lPc'[r] = "done" /\ lHeld'[r] = [lHeld[r] EXCEPT !.seen = seen]
  <2>1. /\ lHeld'[r].within = lHeld[r].within /\ lHeld'[r].seen = seen /\ lHeld'[r].data = lHeld[r].data
        /\ lHeld'[r].present = lHeld[r].present
    BY <1>3, <1>7 DEF PageRecord
  <2>2. ~Walking(r)' /\ Seen(r)' = Shown(r) /\ Shown(r)' = Shown(r)
    <3>1. Seen(r)' = {seen[n] : n \in DOMAIN seen}
      BY <2>1 DEF Seen
    <3>2. Seen(r)' = Shown(r)
      BY <1>4, <3>1
    <3>3. Fetched(r)' = Fetched(r)
      BY <2>1 DEF Fetched
    <3> QED BY <1>7, <3>2, <3>3 DEF Walking, ListReading, Shown
  <2>3. L!Matching(r)' = L!Matching(r) /\ There(r)' = There(r)
    BY <1>1, <2>1, RanksRest DEF There
  <2>4. \A i \in Shown(r)' \cup lHeld'[r].present : RowBorn(i)'
    BY <1>1, <2>1, <2>2, BornStays DEF WalkStands
  <2>5. ~L!Loose(r) /\ InsertsHarmless(r) => NoneTwice(r)'
    BY <1>6, <2>1, <2>2 DEF NoneTwice, Distinct
  <2>6. lHeld[r].total <= Reach(r)
    <3>1. Reach(r) = lHeld[r].page * L!Limit(r)
      BY <1>1 DEF Reach, Pages
    <3>2. CASE L!Limit(r) = 0
      BY <1>3, <1>7, <3>2 DEF L!HasNext
    <3>3. CASE L!Limit(r) # 0
      <4>1. ~(lHeld[r].page < (lHeld[r].total + L!Limit(r) - 1) \div L!Limit(r))
        BY <1>7, <3>3 DEF L!HasNext
      <4> QED BY <1>3, <3>1, <3>3, <4>1, LastPage
    <3> QED BY <3>2, <3>3
  <2>7. ~L!Loose(r) /\ NothingShifted(r) => NoneMissed(r)'
    <3> SUFFICES ASSUME ~L!Loose(r), NothingShifted(r) PROVE There(r) \subseteq Shown(r)
      BY <2>2, <2>3 DEF NoneMissed
    <3>1. NoneMissed(r)
      BY DEF WalkStands
    <3> QED BY <1>1, <1>2, <2>6, <3>1 DEF NoneMissed
  <2> QED BY <1>5, <2>2, <2>4, <2>5, <2>7 DEF WalkStands
<1>8. CASE lPc'[r] = "done" /\ lAnswer'[r] = "endless" /\ lHeld'[r] = lHeld[r]
  <2>1. ~Walking(r)' /\ Shown(r)' = Shown(r)
    BY <1>8 DEF Walking, ListReading, Seen, Shown, Fetched
  <2>2. \A i \in Shown(r)' \cup lHeld'[r].present : RowBorn(i)'
    BY <1>1, <1>8, <2>1, BornStays DEF WalkStands
  <2>3. ~L!Loose(r) /\ InsertsHarmless(r) => NoneTwice(r)'
    BY <1>6, <1>8, <2>1 DEF NoneTwice, Distinct
  <2>4. NoneMissed(r)'
    BY <1>8, <2>1 DEF NoneMissed
  <2> QED BY <1>5, <2>1, <2>2, <2>3, <2>4 DEF WalkStands
<1>9. CASE /\ lPc'[r] = L!First(lCall[r].list)
           /\ lHeld'[r] = [lHeld[r] EXCEPT !.seen = seen, !.page = lHeld[r].page + 1, !.data = None, !.total = None]
  <2>1. /\ lHeld'[r].within = lHeld[r].within /\ lHeld'[r].seen = seen /\ lHeld'[r].data = None
        /\ lHeld'[r].total = None /\ lHeld'[r].present = lHeld[r].present
        /\ lHeld'[r].page = lHeld[r].page + 1
    BY <1>3, <1>9 DEF PageRecord
  <2>2. Seen(r)' = Shown(r) /\ Shown(r)' = Shown(r)
    <3>1. Seen(r)' = {seen[n] : n \in DOMAIN seen}
      BY <2>1 DEF Seen
    <3>2. Seen(r)' = Shown(r)
      BY <1>4, <3>1
    <3> QED BY <2>1, <3>2 DEF Fetched, Shown
  <2>3. L!Matching(r)' = L!Matching(r) /\ There(r)' = There(r) /\ \A i : Rank(r, i)' = Rank(r, i)
    BY <1>1, <2>1, RanksRest DEF There
  <2>4. Reach(r)' = Reach(r)
    <3>1. Pages(r)' = lHeld[r].page /\ Pages(r) = lHeld[r].page
      BY <1>1, <1>3, <2>1 DEF Pages
    <3> QED BY <1>5, <3>1 DEF Reach
  <2>5. \A i \in Shown(r)' \cup lHeld'[r].present : RowBorn(i)'
    BY <1>1, <2>1, <2>2, BornStays DEF WalkStands
  <2>6. WithinStands(r)'
    <3>1. WithinStands(r) /\ Begun(r) /\ Begun(r)'
      BY <1>1, <1>2, <1>3, <2>1 DEF WalkStands, Begun
    <3> QED BY <1>1, <1>5, <2>1, <3>1 DEF WithinStands
  <2>7. lCall[r].list.scope # "none" => Checked(r)'
    BY <1>9 DEF Checked, L!First
  <2>8. ASSUME ~L!Loose(r), InsertsHarmless(r) PROVE NoneTwice(r)'
    <3>1. NoneTwice(r)
      BY <2>8 DEF WalkStands
    <3> QED BY <1>2, <1>6, <2>1, <2>2, <2>3, <2>4, <2>8, <3>1 DEF NoneTwice, Distinct
  <2>9. ASSUME ~L!Loose(r), NothingShifted(r) PROVE NoneMissed(r)'
    <3>1. NoneMissed(r) /\ lPc'[r] # "done"
      BY <1>9, <2>9 DEF WalkStands, L!First
    <3> QED BY <1>2, <2>1, <2>2, <2>3, <2>4, <3>1 DEF NoneMissed
  <2> QED BY <1>1, <1>5, <2>5, <2>6, <2>7, <2>8, <2>9 DEF WalkStands
<1> QED BY <1>7, <1>8, <1>9, PageTurned DEF seen

LEMMA ListInvInit == L!Init => ListInv
BY ListsInit DEF L!Init, L!HandlersInit, L!NoCall, ListInv, ListRequests

LEMMA ListInvStep == ListInv /\ [L!Next]_(L!vars) => ListInv'
<1> SUFFICES ASSUME ListInv, [L!Next]_(L!vars) PROVE ListInv'
  OBVIOUS
<1>1. ListTyped /\ \A q \in ListRequests : lCall[q].kind = "walk" => WalkStands(q)
  BY DEF ListInv
<1>2. CASE UNCHANGED L!vars
  <2>1. /\ lPc' = lPc /\ lCall' = lCall /\ lHeld' = lHeld /\ lAnswer' = lAnswer
        /\ rows' = rows /\ parents' = parents /\ shifted' = shifted /\ late' = late
    BY <1>2 DEF L!vars, L!handlers, L!tables
  <2>2. ListTyped'
    BY <1>1, <2>1 DEF ListTyped, L!TypeOK, L!Handling, ListFramed, AgesDiffer, L!Present, RowsBorn, RowBorn,
                      PlacedList
  <2>3. \A i : RowBorn(i) => RowBorn(i)'
    BY <2>1 DEF RowBorn
  <2> QED BY <1>1, <2>1, <2>2, <2>3, WalkRests DEF ListInv
<1>3. CASE L!Next
  <2>1. PICK r \in ListRequests : ListStep(r)
    BY <1>3 DEF L!Next, ListStep, ListRequests
  <2>2. ListTyped' /\ OneLists(r) /\ lPc[r] # "done" /\ (Resting(r) \/ L!Write(r))
    BY <1>1, <2>1, ListTypedStep, ListPlacedStep
  <2>3. ASSUME NEW q \in ListRequests, q # r, lCall'[q].kind = "walk" PROVE WalkStands(q)'
    <3>1. lCall[q].kind = "walk" /\ WalkStands(q)
      BY <1>1, <2>2, <2>3 DEF OneLists
    <3>2. CASE Resting(r)
      <4>1. \A i : RowBorn(i) => RowBorn(i)'
        BY <1>1, <2>2, BornStays
      <4> QED BY <2>2, <2>3, <3>1, <3>2, <4>1, WalkRests DEF OneLists, Resting
    <3>3. CASE L!Write(r)
      BY <1>1, <2>3, <3>1, <3>3, WalkWritten
    <3> QED BY <2>2, <3>2, <3>3
  <2>4. ASSUME lCall'[r].kind = "walk" PROVE WalkStands(r)'
    <3>1. CASE L!StartWalk(r)
      BY <1>1, <2>2, <3>1, WalkStarted
    <3>2. CASE L!StartWrite(r) \/ L!Write(r)
      BY <1>1, <2>4, <3>2, WriteStarts, RowsWritten
    <3>3. ASSUME L!ReadScope(r) \/ L!ReadRows(r) \/ L!CountRows(r) \/ L!NextPage(r)
          PROVE  WalkStands(r)'
      <4>1. lCall[r].kind = "walk" /\ WalkStands(r)
        BY <1>1, <2>4, <3>3, ScopeRead, RowsRead, RowsCounted, PageTurned
      <4> QED BY <1>1, <2>2, <3>3, <4>1, WalkScoped, WalkFetched, WalkCounted, WalkTurned
    <3> QED BY <2>1, <3>1, <3>2, <3>3 DEF ListStep
  <2> QED BY <2>2, <2>3, <2>4 DEF ListInv
<1> QED BY <1>2, <1>3

LEMMA ListingsBeside == MCSpec => [](part = "listings" => ListInv)
<1> DEFINE Here == part = "listings" => ListInv
<1>1. MCInit => Here
  BY ListInvInit DEF MCInit
<1>2. Here /\ [MCNext]_<<part, handlers, wVars, gVars, dVars, kVars, cVars, lVars>> => Here'
  <2> SUFFICES ASSUME Here, [MCNext]_<<part, handlers, wVars, gVars, dVars, kVars, cVars, lVars>>,
                      part' = "listings"
               PROVE  ListInv'
    OBVIOUS
  <2>1. part = "listings" /\ ListInv
    BY DEF MCNext
  <2>2. [L!Next]_(L!vars)
    BY <2>1 DEF MCNext, L!vars, L!handlers, L!tables, handlers, lVars
  <2> QED BY <2>1, <2>2, ListInvStep
<1>3. MCSpec => []Here
  <2> HIDE DEF Here
  <2> QED BY <1>1, <1>2, PTL DEF MCSpec
<1> QED BY <1>3


\* A reader that was told every page has missed no row that was there all along.
LEMMA NoneIsMissed == ListInv => L!MissedOnlyIfShifted
<1> SUFFICES ASSUME ListInv, NEW r \in L!Walks, ~L!Loose(r), NothingShifted(r),
                    NEW i \in There(r)
             PROVE  L!Times(i, lHeld[r].seen) > 0
  BY DEF L!MissedOnlyIfShifted, NothingShifted, There
<1>1. r \in ListRequests /\ lCall[r].kind = "walk" /\ lPc[r] = "done" /\ lAnswer[r] = "ok"
  BY DEF L!Walks, L!Kind, ListRequests
<1>2. NoneMissed(r) /\ lHeld[r].seen \in Seq(Ids)
  BY <1>1 DEF ListInv, WalkStands, ListTyped, PlacedList, PageRecord
<1>3. i \in Seen(r)
  BY <1>1, <1>2 DEF NoneMissed
<1> DEFINE places == {n \in DOMAIN lHeld[r].seen : lHeld[r].seen[n] = i}
<1>4. places # {}
  BY <1>3 DEF Seen
<1>5. IsFiniteSet(places)
  <2>1. DOMAIN lHeld[r].seen = 1 .. Len(lHeld[r].seen) /\ Len(lHeld[r].seen) \in Nat
    BY <1>2
  <2>2. IsFiniteSet(DOMAIN lHeld[r].seen)
    BY <2>1, FS_Interval
  <2> QED BY <2>2, FS_Subset
<1>6. Cardinality(places) \in Nat /\ Cardinality(places) # 0
  <2> HIDE DEF places
  <2> QED BY <1>4, <1>5, FS_CardinalityType, FS_EmptySet
<1> QED BY <1>6 DEF L!Times, L!Cardinality, Cardinality

\* He has seen none twice.
LEMMA NoneIsRepeated == ListInv => L!RepeatedOnlyIfShifted
<1> SUFFICES ASSUME ListInv, NEW r \in L!Walks, ~L!Loose(r), InsertsHarmless(r), NEW i
             PROVE  L!Times(i, lHeld[r].seen) <= 1
  BY DEF L!RepeatedOnlyIfShifted, InsertsHarmless
<1>1. r \in ListRequests /\ lCall[r].kind = "walk"
  BY DEF L!Walks, L!Kind, ListRequests
<1>2. Distinct(lHeld[r].seen)
  BY <1>1 DEF ListInv, WalkStands, NoneTwice
<1> DEFINE places == {n \in DOMAIN lHeld[r].seen : lHeld[r].seen[n] = i}
<1>3. places = {} \/ \E n : places = {n}
  <2>1. \A m, n \in places : m = n
    BY <1>2 DEF Distinct
  <2> HIDE DEF places
  <2> QED BY <2>1
<1>4. Cardinality(places) \in {0, 1}
  <2> HIDE DEF places
  <2> QED BY <1>3, FS_EmptySet, FS_Singleton
<1> QED BY <1>4 DEF L!Times, L!Cardinality, Cardinality

\* A client that reads page after page to the last has every row that was there
\* all along, and none twice, unless one was written that his order does not
\* rule out or that shifts the pages, and a page shows rows of what he may not
\* open only when that changed after it had checked (pagination.util.ts and the
\* lists of the services).
THEOREM ListingsHolding == MCSpec => []ListingsHold
<1> DEFINE Here == part = "listings" => ListInv
<1>1. Here => ListingsHold
  <2> SUFFICES ASSUME ListInv PROVE L!ListingsHold
    BY DEF ListingsHold
  <2>1. L!ShownWithAccess
    <3> SUFFICES ASSUME NEW r \in ListRequests, lPc[r] = "rest", lCall[r].list.scope # "none", r \notin late,
                        NEW p \in lHeld[r].within
                 PROVE  parents[p] # "closed"
      BY DEF L!ShownWithAccess, L!At, ListRequests
    <3>1. lCall[r].kind = "walk"
      BY DEF ListInv, ListTyped, PlacedList, ListReading
    <3> QED BY <3>1 DEF ListInv, WalkStands, Walking, ListReading, Checked
  <2> QED BY <2>1, NoneIsMissed, NoneIsRepeated DEF L!ListingsHold
<1>2. MCSpec => []Here
  BY ListingsBeside
<1> HIDE DEF Here
<1> QED BY <1>1, <1>2, PTL

\* Each part of the composition keeps its types.
THEOREM AllTyped == MCSpec => []Typed
<1> DEFINE Work == part = "workplace" => WorkInv
           Delegate == part = "delegations" => DelegationInv
           Check == part = "checklists" => ChecklistInv
           Comment == part = "comments" => CommentInv
           List == part = "listings" => ListInv
<1>1. TagInv /\ Work /\ Delegate /\ Check /\ Comment /\ List => Typed
  BY DEF Typed, TagInv, TagTyped, WorkInv, WorkTyped, DelegationInv, DelegationTyped, ChecklistInv,
         ChecklistTyped, CommentInv, CommentTyped, ListInv, ListTyped
<1>2. /\ MCSpec => []TagInv
      /\ MCSpec => []Work
      /\ MCSpec => []Delegate
      /\ MCSpec => []Check
      /\ MCSpec => []Comment
      /\ MCSpec => []List
  BY TagInvHolds, WorkplaceBeside, DelegationsBeside, ChecklistsBeside, CommentsBeside, ListingsBeside
<1> HIDE DEF Work, Delegate, Check, Comment, List
<1> QED BY <1>1, <1>2, PTL

=============================================================================
