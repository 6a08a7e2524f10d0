-------------------------- MODULE ConfigStoreProof --------------------------
(***************************************************************************)
(* The drafts in memory, the drafts on the flash and the patch that is     *)
(* played agree, for every number of profiles, patches, drafts and edits.  *)
(***************************************************************************)
EXTENDS ConfigStore, FiniteSetTheorems, TLAPS

-----------------------------------------------------------------------------
(* The inductive invariant.                                                *)

\* A request that settles drafts is for the profile that is active, and what it has
\* written is the draft it is about to remove.  A deletion is of all the files.
OpInv == /\ op.kind \in {"save", "discard", "remove"} => op.profile = active /\ active \in Profiles
         /\ op.kind = "save" =>
              \A k \in op.written : k \in Rest /\ saved[active][k] = drafts[active][k]
         /\ op.kind = "delete" => op.keys = Patches

\* Also while the active profile is being deleted, no draft is missing from the table.
TableInv == /\ active = NoProfile => dirty = {}
            /\ active # NoProfile => Drafted(active) \subseteq dirty
            /\ DraftsFit
            /\ TableIsDrafts

IInv == TypeOK /\ OpInv /\ TableInv /\ PlayingIsStored

-----------------------------------------------------------------------------
(* Files, sets of patches and requests.                                    *)

Files == [Profiles -> [Patches -> Nat]]
Ops == [kind : Kinds, profile : Profiles \cup {NoProfile},
        keys : SUBSET Patches, written : SUBSET Patches]

\* One file written or removed.
LEMMA OneFile ==
  ASSUME NEW f \in Files, NEW p \in Profiles, NEW k \in Patches, NEW v \in Nat
  PROVE  /\ [f EXCEPT ![p][k] = v] \in Files
         /\ [f EXCEPT ![p][k] = v][p][k] = v
         /\ \A q \in Profiles, j \in Patches : (q # p \/ j # k) =>
              [f EXCEPT ![p][k] = v][q][j] = f[q][j]
         /\ \A q \in Profiles : q # p => [f EXCEPT ![p][k] = v][q] = f[q]
BY DEF Files

\* Part of a set of patches that fits, fits.
LEMMA PartFits ==
  ASSUME NEW S \in SUBSET Patches, NEW T \in SUBSET S, Cardinality(S) <= DraftsMax
  PROVE  Cardinality(T) <= DraftsMax
<1>1. IsFiniteSet(S)
  BY FS_Subset, ConfigAssumption DEF ConfigAssumption
<1>2. IsFiniteSet(T) /\ Cardinality(T) <= Cardinality(S)
  BY <1>1, FS_Subset
<1>3. Cardinality(S) \in Nat /\ Cardinality(T) \in Nat
  BY <1>1, <1>2, FS_CardinalityType
<1> QED
  BY <1>2, <1>3, ConfigAssumption DEF ConfigAssumption

\* A draft for which there is room.
LEMMA OneMoreFits ==
  ASSUME NEW S \in SUBSET Patches, NEW k \in Patches,
         Cardinality(S) <= DraftsMax, k \in S \/ Cardinality(S) < DraftsMax
  PROVE  Cardinality(S \cup {k}) <= DraftsMax
<1>1. IsFiniteSet(S)
  BY FS_Subset, ConfigAssumption DEF ConfigAssumption
<1>2. Cardinality(S) \in Nat
  BY <1>1, FS_CardinalityType
<1>3. Cardinality(S \cup {k}) = IF k \in S THEN Cardinality(S) ELSE Cardinality(S) + 1
  BY <1>1, FS_AddElement
<1> QED
  BY <1>2, <1>3, ConfigAssumption DEF ConfigAssumption

LEMMA RequestType ==
  ASSUME NEW kind \in Kinds, NEW p \in Profiles \cup {NoProfile}, NEW K \in SUBSET Patches
  PROVE  /\ Request(kind, p, K) \in Ops
         /\ Request(kind, p, K).kind = kind /\ Request(kind, p, K).profile = p
         /\ Request(kind, p, K).keys = K /\ Request(kind, p, K).written = {}
BY DEF Request, Ops

LEMMA WrittenType ==
  ASSUME NEW o \in Ops, NEW W \in SUBSET Patches
  PROVE  /\ [o EXCEPT !.written = W] \in Ops
         /\ [o EXCEPT !.written = W].kind = o.kind
         /\ [o EXCEPT !.written = W].profile = o.profile
         /\ [o EXCEPT !.written = W].keys = o.keys
         /\ [o EXCEPT !.written = W].written = W
BY DEF Ops

LEMMA OpTypes == \A o \in Ops : /\ o.kind \in Kinds /\ o.profile \in Profiles \cup {NoProfile}
                                /\ o.keys \in SUBSET Patches /\ o.written \in SUBSET Patches
BY DEF Ops

LEMMA NoOpType == NoOp \in Ops /\ NoOp.kind = "none"
BY RequestType DEF NoOp, Kinds

\* TypeOK with the sets of records and functions by their names.
LEMMA Types ==
  TypeOK <=> /\ manifest \subseteq Profiles
             /\ pointer \in Profiles \cup {NoProfile}
             /\ saved \in Files /\ drafts \in Files
             /\ active \in Profiles \cup {NoProfile}
             /\ at \in Patches
             /\ playing \in Nat
             /\ dirty \subseteq Patches /\ Cardinality(dirty) <= DraftsMax
             /\ op \in Ops
             /\ edits \in Nat
             /\ behind \subseteq {"table", "playing"}
BY DEF TypeOK, Files, Ops

LEMMA TypesNext ==
  TypeOK' <=> /\ manifest' \subseteq Profiles
              /\ pointer' \in Profiles \cup {NoProfile}
              /\ saved' \in Files /\ drafts' \in Files
              /\ active' \in Profiles \cup {NoProfile}
              /\ at' \in Patches
              /\ playing' \in Nat
              /\ dirty' \subseteq Patches /\ Cardinality(dirty') <= DraftsMax
              /\ op' \in Ops
              /\ edits' \in Nat
              /\ behind' \subseteq {"table", "playing"}
BY DEF TypeOK, Files, Ops

-----------------------------------------------------------------------------
(* What steps have in common.                                              *)

\* A request that is over, refused or in one step leaves nothing to be true of it.
LEMMA OpOver == op' = NoOp => OpInv'
BY NoOpType DEF OpInv

\* Fewer drafts fit.
LEMMA FewerDrafts ==
  ASSUME DraftsFit, \A q \in Profiles : Drafted(q)' \subseteq Drafted(q)
  PROVE  DraftsFit'
<1> SUFFICES ASSUME NEW q \in Profiles PROVE Cardinality(Drafted(q)') <= DraftsMax
  BY DEF DraftsFit
<1>1. Drafted(q) \in SUBSET Patches /\ Cardinality(Drafted(q)) <= DraftsMax
  BY DEF Drafted, DraftsFit
<1> QED
  BY <1>1, PartFits

\* One draft fewer on the flash.
LEMMA DraftRemoved ==
  ASSUME TypeOK, NEW p \in Profiles, NEW k \in Patches,
         drafts' = [drafts EXCEPT ![p][k] = 0]
  PROVE  /\ drafts' \in Files
         /\ Drafted(p)' = Drafted(p) \ {k}
         /\ \A q \in Profiles : q # p => Drafted(q)' = Drafted(q)
         /\ \A q \in Profiles, j \in Patches : (q # p \/ j # k) => drafts'[q][j] = drafts[q][j]
         /\ drafts'[p][k] = 0
<1>1. drafts \in Files /\ 0 \in Nat
  BY Types
<1>2. /\ drafts' \in Files /\ drafts'[p][k] = 0
      /\ \A q \in Profiles, j \in Patches : (q # p \/ j # k) => drafts'[q][j] = drafts[q][j]
  BY <1>1 DEF Files
<1> QED
  BY <1>2 DEF Drafted

\* The draft goes with its entry in the table.
LEMMA DraftDropped ==
  ASSUME IInv, NEW k \in Patches, active \in Profiles, active' = active,
         drafts' = [drafts EXCEPT ![active][k] = 0], dirty' = dirty \ {k},
         "table" \in behind' <=> "table" \in behind
  PROVE  /\ dirty' \subseteq Patches /\ Cardinality(dirty') <= DraftsMax
         /\ TableInv'
<1> USE DEF IInv
<1>1. /\ Drafted(active)' = Drafted(active) \ {k}
      /\ \A q \in Profiles : Drafted(q)' \subseteq Drafted(q)
  BY DraftRemoved
<1>2. active # NoProfile
  BY ConfigAssumption DEF ConfigAssumption
<1>3. dirty \in SUBSET Patches /\ Cardinality(dirty) <= DraftsMax
  BY Types
<1>4. Cardinality(dirty') <= DraftsMax
  BY <1>3, PartFits
<1>5. DraftsFit'
  BY <1>1, FewerDrafts DEF TableInv
<1>6. Drafted(active') = Drafted(active)
  OBVIOUS
<1>7. Drafted(active)' \subseteq dirty'
  BY <1>1, <1>2 DEF TableInv
<1>8. TableIsDrafts'
  BY <1>1, <1>2 DEF TableInv, TableIsDrafts, Drafted
<1> QED
  BY <1>2, <1>3, <1>4, <1>5, <1>7, <1>8 DEF TableInv, Drafted

\* Another draft of the request comes next, or it is over.
LEMMA NextDraft ==
  ASSUME TypeOK, OpInv, NEW k, Next1(k), active' = active,
         op.kind \in {"save", "discard", "remove"}
  PROVE  op' \in Ops /\ OpInv'
<1>1. CASE op' = NoOp
  BY <1>1, NoOpType, OpOver
<1>2. CASE op' = [op EXCEPT !.written = {}]
  <2>1. op \in Ops
    BY Types
  <2>2. op' \in Ops /\ op'.kind = op.kind /\ op'.profile = op.profile /\ op'.written = {}
    BY <1>2, <2>1, WrittenType
  <2> QED
    BY <2>2 DEF OpInv
<1> QED
  BY <1>1, <1>2 DEF Next1

\* The active profile is loaded as it is on the flash.
LEMMA LoadedInv ==
  ASSUME IInv, NEW p \in Profiles, CanLoad(p), Load(p), UNCHANGED <<saved, drafts>>
  PROVE  /\ active' \in Profiles /\ at' \in Patches /\ playing' \in Nat
         /\ dirty' \subseteq Patches /\ Cardinality(dirty') <= DraftsMax
         /\ behind' \subseteq {"table", "playing"}
         /\ TableInv' /\ PlayingIsStored'
<1> USE DEF IInv
<1>1. First \in Patches /\ NoProfile \notin Profiles
  BY ConfigAssumption DEF ConfigAssumption
<1>2. active' = p /\ at' = First /\ dirty' = Drafted(p) /\ behind' = {}
  BY DEF Load
<1>3. saved \in Files /\ drafts \in Files
  BY Types
<1>4. playing' \in Nat
  BY <1>1, <1>3 DEF Load, Files
<1>5. Drafted(active)' = Drafted(p)
  BY <1>2 DEF Drafted
<1>6. DraftsFit'
  BY DEF DraftsFit, Drafted, TableInv
<1>7. TableInv'
  BY <1>1, <1>2, <1>5, <1>6 DEF TableInv, TableIsDrafts
<1>8. PlayingIsStored'
  BY <1>1, <1>2 DEF PlayingIsStored, Read, Load
<1> QED
  BY <1>1, <1>2, <1>4, <1>7, <1>8 DEF CanLoad, Drafted

LEMMA NothingLoadedInv ==
  ASSUME IInv, LoadNothing, UNCHANGED drafts
  PROVE  /\ active' = NoProfile /\ at' \in Patches /\ playing' \in Nat
         /\ dirty' \subseteq Patches /\ Cardinality(dirty') <= DraftsMax
         /\ behind' \subseteq {"table", "playing"}
         /\ TableInv' /\ PlayingIsStored'
<1> USE DEF IInv
<1>1. First \in Patches /\ Cardinality({}) = 0 /\ 0 <= DraftsMax
  BY ConfigAssumption, FS_EmptySet DEF ConfigAssumption
<1>2. DraftsFit'
  BY DEF DraftsFit, Drafted, TableInv
<1> QED
  BY <1>1, <1>2 DEF LoadNothing, TableInv, TableIsDrafts, PlayingIsStored

LEMMA TableFrame ==
  ASSUME TableInv, UNCHANGED <<drafts, active, dirty>>,
         "table" \in behind => "table" \in behind'
  PROVE  TableInv'
<1>1. DraftsFit'
  BY DEF TableInv, DraftsFit, Drafted
<1>2. Drafted(active)' = Drafted(active)
  BY DEF Drafted
<1> QED
  BY <1>1, <1>2 DEF TableInv, TableIsDrafts

LEMMA PlayingFrame ==
  ASSUME PlayingIsStored, UNCHANGED <<saved, drafts, active, at, playing, dirty>>,
         "playing" \in behind => "playing" \in behind'
  PROVE  PlayingIsStored'
BY DEF PlayingIsStored, Read

\* A step that changes nothing but the request.
LEMMA OnlyRequest ==
  ASSUME IInv, UNCHANGED <<flash, memory, edits>>, op' \in Ops, OpInv'
  PROVE  IInv'
<1> USE DEF IInv, flash, memory
<1>1. TypeOK'
  BY Types, TypesNext
<1> QED
  BY <1>1, TableFrame, PlayingFrame

-----------------------------------------------------------------------------
(* Each operation keeps the invariant.                                     *)

LEMMA PutKeeps ==
  ASSUME IInv, NEW k \in Patches, Put(k)
  PROVE  IInv'
<1> USE DEF IInv
<1>1. active \in Profiles /\ active # NoProfile
  BY Types, ConfigAssumption DEF Put, ConfigAssumption
<1>2. edits \in Nat /\ edits' = edits + 1 /\ edits + 1 \in Nat /\ edits + 1 # 0
  BY Types DEF Put, NewEdit
<1>3. /\ drafts' \in Files /\ drafts'[active][k] = edits + 1
      /\ \A q \in Profiles, j \in Patches : (q # active \/ j # k) => drafts'[q][j] = drafts[q][j]
  BY <1>1, <1>2, Types DEF Put, Files
<1>4. dirty' = dirty \cup {k} /\ active' = active
  BY DEF Put
<1>5. Cardinality(dirty') <= DraftsMax
  <2>1. dirty \in SUBSET Patches /\ Cardinality(dirty) <= DraftsMax
    BY Types
  <2> QED
    BY <1>4, <2>1, OneMoreFits DEF Put, RoomFor
<1>6. TypeOK'
  BY <1>2, <1>3, <1>4, <1>5, Types, TypesNext DEF Put
<1>7. OpInv'
  BY OpOver DEF Put, Idle
<1>8. Drafted(active)' = Drafted(active) \cup {k}
  BY <1>1, <1>2, <1>3, <1>4 DEF Drafted
<1>9. TableInv'
  <2>1. DraftsFit'
    <3> SUFFICES ASSUME NEW q \in Profiles PROVE Cardinality(Drafted(q)') <= DraftsMax
      BY DEF DraftsFit
    <3>1. CASE q = active
      <4>1. Drafted(q)' = Drafted(active) \cup {k}
        BY <1>1, <1>2, <1>3, <3>1 DEF Drafted
      <4>2. dirty' \in SUBSET Patches /\ Drafted(q)' \in SUBSET dirty'
        BY <1>1, <1>4, <4>1, Types DEF TableInv
      <4> QED
        BY <1>5, <4>2, PartFits
    <3>2. CASE q # active
      BY <1>3, <3>2 DEF Drafted, TableInv, DraftsFit
    <3> QED
      BY <3>1, <3>2
  <2> QED
    BY <1>1, <1>4, <1>8, <2>1 DEF TableInv, TableIsDrafts, Put
<1>10. PlayingIsStored'
  <2>1. CASE at = k
    BY <1>3, <1>4, <2>1 DEF Put, PlayingIsStored, Read
  <2>2. CASE at # k
    <3>1. Read(at)' = Read(at)
      BY <1>1, <1>3, <1>4, <2>2, Types DEF Put, Read
    <3> QED
      BY <1>4, <2>2, <3>1 DEF Put, PlayingIsStored
  <2> QED
    BY <2>1, <2>2
<1> QED
  BY <1>6, <1>7, <1>9, <1>10

LEMMA PutNamedKeeps ==
  ASSUME IInv, NEW p \in Profiles, NEW k \in Patches, PutNamed(p, k)
  PROVE  IInv'
<1> USE DEF IInv
<1>1. edits \in Nat /\ edits' = edits + 1 /\ edits + 1 \in Nat
  BY Types DEF PutNamed, NewEdit
<1>2. /\ saved' \in Files
      /\ \A q \in Profiles, j \in Patches : (q # p \/ j # k) => saved'[q][j] = saved[q][j]
  BY <1>1, Types DEF PutNamed, Files
<1>3. behind' \subseteq {"table", "playing"} /\ behind \subseteq behind'
  BY Types DEF PutNamed
<1>4. TypeOK'
  BY <1>1, <1>2, <1>3, Types, TypesNext DEF PutNamed
<1>5. OpInv'
  BY OpOver DEF PutNamed, Idle
<1>6. TableInv'
  BY <1>3, TableFrame DEF PutNamed
<1>7. PlayingIsStored'
  <2>1. CASE p = active /\ k = at /\ k \notin dirty
    BY <2>1 DEF PutNamed, PlayingIsStored
  <2>2. CASE ~(p = active /\ k = at /\ k \notin dirty)
    BY <1>2, <2>2, Types DEF PutNamed, PlayingIsStored, Read
  <2> QED
    BY <2>1, <2>2
<1> QED
  BY <1>4, <1>5, <1>6, <1>7

LEMMA SelectKeeps ==
  ASSUME IInv, NEW k \in Patches, Select(k)
  PROVE  IInv'
<1> USE DEF IInv, flash
<1>1. active \in Profiles /\ Read(k) \in Nat
  BY Types DEF Select, Read, Files
<1>2. TypeOK'
  BY <1>1, Types, TypesNext DEF Select
<1>3. OpInv'
  BY OpOver DEF Select, Idle
<1>4. TableInv'
  BY TableFrame DEF Select
<1>5. PlayingIsStored'
  BY DEF Select, PlayingIsStored, Read
<1> QED
  BY <1>2, <1>3, <1>4, <1>5

LEMMA SettleKeeps ==
  ASSUME IInv, NEW kind \in {"save", "discard"}, NEW K \in SUBSET Patches, Settle(kind, K)
  PROVE  IInv'
<1>1. active \in Profiles
  BY Types DEF Settle, IInv, TableInv
<1>2. op' \in Ops /\ op'.kind # "delete" /\ op'.profile = active /\ op'.written = {}
  BY <1>1, RequestType DEF Settle, Kinds
<1>3. OpInv'
  BY <1>1, <1>2 DEF OpInv, Settle, memory
<1> QED
  BY <1>2, <1>3, OnlyRequest DEF Settle

LEMMA WriteTargetKeeps ==
  ASSUME IInv, NEW k \in Patches, WriteTarget(k)
  PROVE  IInv'
<1> USE DEF IInv
<1>1. /\ active \in Profiles /\ op.profile = active /\ k \in dirty
      /\ op \in Ops /\ saved \in Files /\ drafts \in Files
  BY Types DEF WriteTarget, OpInv, Rest
<1>2. /\ saved' \in Files /\ saved'[active][k] = drafts[active][k]
      /\ \A q \in Profiles, j \in Patches : (q # active \/ j # k) => saved'[q][j] = saved[q][j]
  BY <1>1 DEF WriteTarget, Files
<1>3. /\ op' \in Ops /\ op'.kind = op.kind /\ op'.profile = op.profile
      /\ op'.keys = op.keys /\ op'.written = {k}
  BY <1>1, WrittenType DEF WriteTarget
<1>4. UNCHANGED <<manifest, pointer, drafts, active, at, playing, dirty, behind, edits>>
  BY DEF WriteTarget, memory
<1>5. TypeOK'
  BY <1>2, <1>3, <1>4, Types, TypesNext
<1>6. OpInv'
  BY <1>1, <1>2, <1>3, <1>4 DEF OpInv, Rest, WriteTarget
<1>7. TableInv'
  BY <1>4, TableFrame
<1>8. PlayingIsStored'
  BY <1>1, <1>2, <1>4, Types DEF PlayingIsStored, Read
<1> QED
  BY <1>5, <1>6, <1>7, <1>8

LEMMA DropSavedKeeps ==
  ASSUME IInv, NEW k \in Patches, DropSaved(k)
  PROVE  IInv'
<1> USE DEF IInv
<1>1. active \in Profiles /\ saved[active][k] = drafts[active][k] /\ k \in dirty
  BY DEF DropSaved, OpInv, Rest
<1>2. /\ drafts' = [drafts EXCEPT ![active][k] = 0] /\ dirty' = dirty \ {k}
      /\ UNCHANGED <<manifest, pointer, saved, active, at, playing, behind, edits>>
  BY DEF DropSaved
<1>3. drafts' \in Files
  BY <1>1, <1>2, DraftRemoved
<1>4. dirty' \subseteq Patches /\ Cardinality(dirty') <= DraftsMax /\ TableInv'
  BY <1>1, <1>2, DraftDropped
<1>5. op' \in Ops /\ OpInv'
  BY <1>2, NextDraft DEF DropSaved
<1>6. TypeOK'
  BY <1>2, <1>3, <1>4, <1>5, Types, TypesNext
<1>7. PlayingIsStored'
  <2>1. \A j \in Patches : j # k => drafts'[active][j] = drafts[active][j]
    BY <1>1, <1>2, DraftRemoved
  <2>2. Read(at)' = Read(at)
    BY <1>1, <1>2, <2>1, Types DEF Read
  <2> QED
    BY <1>2, <2>2 DEF PlayingIsStored
<1> QED
  BY <1>4, <1>5, <1>6, <1>7

LEMMA DropUnsavedKeeps ==
  ASSUME IInv, NEW k \in Patches, DropUnsaved(k)
  PROVE  IInv'
<1> USE DEF IInv
<1>1. active \in Profiles
  BY DEF DropUnsaved, OpInv
<1>2. /\ drafts' = [drafts EXCEPT ![active][k] = 0] /\ dirty' = dirty \ {k}
      /\ UNCHANGED <<manifest, pointer, saved, active, at, edits>>
      /\ behind' \subseteq behind /\ ("table" \in behind' <=> "table" \in behind)
  BY DEF DropUnsaved
<1>3. drafts' \in Files
  BY <1>1, <1>2, DraftRemoved
<1>4. dirty' \subseteq Patches /\ Cardinality(dirty') <= DraftsMax /\ TableInv'
  BY <1>1, <1>2, DraftDropped
<1>5. op' \in Ops /\ OpInv'
  BY <1>2, NextDraft DEF DropUnsaved
<1>6. playing' \in Nat
  BY <1>1, Types DEF DropUnsaved, Files
<1>7. TypeOK'
  BY <1>2, <1>3, <1>4, <1>5, <1>6, Types, TypesNext
<1>8. PlayingIsStored'
  <2>1. CASE at = k
    BY <1>2, <2>1 DEF DropUnsaved, PlayingIsStored, Read
  <2>2. CASE at # k
    <3>1. \A j \in Patches : j # k => drafts'[active][j] = drafts[active][j]
      BY <1>1, <1>2, DraftRemoved
    <3>2. Read(at)' = Read(at)
      BY <1>2, <2>2, <3>1, Types DEF Read
    <3> QED
      BY <1>2, <2>2, <3>2 DEF DropUnsaved, PlayingIsStored
  <2> QED
    BY <2>1, <2>2
<1> QED
  BY <1>4, <1>5, <1>7, <1>8

LEMMA RemoveKeeps ==
  ASSUME IInv, NEW k \in Patches, Remove(k)
  PROVE  IInv'
<1> USE DEF IInv
<1>1. active \in Profiles /\ active # NoProfile
  BY Types DEF Remove
<1>2. /\ saved' \in Files /\ saved'[active][k] = 0
      /\ \A q \in Profiles, j \in Patches : (q # active \/ j # k) => saved'[q][j] = saved[q][j]
  BY <1>1, Types DEF Remove, Files
<1>3. UNCHANGED <<manifest, pointer, drafts, active, at, dirty, edits>>
  BY DEF Remove
<1>4. behind' \subseteq behind /\ ("table" \in behind' <=> "table" \in behind) /\ playing' \in Nat
  BY Types DEF Remove
<1>5. op' \in Ops /\ OpInv'
  <2>1. CASE k \in dirty
    <3>1. op' \in Ops /\ op'.kind = "remove" /\ op'.profile = active
      BY <1>1, <2>1, RequestType DEF Remove, Kinds
    <3> QED
      BY <1>1, <1>3, <3>1 DEF OpInv
  <2>2. CASE k \notin dirty
    BY <2>2, OpOver, NoOpType DEF Remove, Idle
  <2> QED
    BY <2>1, <2>2
<1>6. TypeOK'
  BY <1>2, <1>3, <1>4, <1>5, Types, TypesNext
<1>7. TableInv'
  BY <1>3, <1>4, TableFrame
<1>8. PlayingIsStored'
  <2>1. CASE k \in dirty
    <3>1. Read(at)' = Read(at)
      BY <1>1, <1>2, <1>3, <2>1, Types DEF Read
    <3> QED
      BY <1>3, <2>1, <3>1 DEF Remove, PlayingIsStored
  <2>2. CASE k \notin dirty /\ at = k
    BY <1>2, <1>3, <2>2 DEF Remove, PlayingIsStored, Read
  <2>3. CASE k \notin dirty /\ at # k
    <3>1. Read(at)' = Read(at)
      BY <1>1, <1>2, <1>3, <2>3, Types DEF Read
    <3> QED
      BY <1>3, <2>3, <3>1 DEF Remove, PlayingIsStored
  <2> QED
    BY <2>1, <2>2, <2>3
<1> QED
  BY <1>5, <1>6, <1>7, <1>8

LEMMA CreateKeeps ==
  ASSUME IInv, NEW p \in Profiles, Create(p)
  PROVE  IInv'
<1> USE DEF IInv, memory
<1>1. TypeOK'
  BY Types, TypesNext DEF Create
<1>2. OpInv'
  BY OpOver DEF Create, Idle
<1>3. TableInv' /\ PlayingIsStored'
  BY TableFrame, PlayingFrame DEF Create
<1> QED
  BY <1>1, <1>2, <1>3

LEMMA ActivateKeeps ==
  ASSUME IInv, NEW p \in Profiles, Activate(p)
  PROVE  IInv'
<1>1. /\ active' \in Profiles /\ at' \in Patches /\ playing' \in Nat
      /\ dirty' \subseteq Patches /\ Cardinality(dirty') <= DraftsMax
      /\ behind' \subseteq {"table", "playing"}
      /\ TableInv' /\ PlayingIsStored'
  BY LoadedInv DEF Activate
<1>2. TypeOK'
  BY <1>1, Types, TypesNext DEF Activate, IInv
<1>3. OpInv'
  BY OpOver DEF Activate, Idle
<1> QED
  BY <1>1, <1>2, <1>3 DEF IInv

LEMMA DeleteKeeps ==
  ASSUME IInv, NEW p \in Profiles, Delete(p)
  PROVE  IInv'
<1>1. op' \in Ops /\ op'.kind = "delete" /\ op'.keys = Patches
  BY RequestType DEF Delete, Kinds
<1>2. OpInv'
  BY <1>1 DEF OpInv
<1> QED
  BY <1>1, <1>2, OnlyRequest DEF Delete

LEMMA DeleteFileKeeps ==
  ASSUME IInv, NEW p \in Profiles, DeleteFile(p)
  PROVE  IInv'
<1> USE DEF IInv
<1>1. UNCHANGED <<pointer, active, at, playing, dirty, op, edits>>
  BY DEF DeleteFile
<1>2. OpInv'
  BY <1>1 DEF DeleteFile, OpInv
<1>3. CASE manifest' = manifest \ {p} /\ UNCHANGED <<saved, drafts, behind>>
  <2>1. TypeOK'
    BY <1>1, <1>3, Types, TypesNext
  <2> QED
    BY <1>1, <1>2, <1>3, <2>1, TableFrame, PlayingFrame
<1>4. ASSUME NEW k \in Patches, manifest' = manifest,
             \/ saved' = [saved EXCEPT ![p][k] = 0] /\ UNCHANGED drafts
             \/ drafts' = [drafts EXCEPT ![p][k] = 0] /\ UNCHANGED saved,
             behind' = IF p = active THEN {"table", "playing"} ELSE behind
      PROVE  IInv'
  <2>1. saved' \in Files /\ drafts' \in Files
    <3>1. CASE saved' = [saved EXCEPT ![p][k] = 0] /\ UNCHANGED drafts
      BY <3>1, Types DEF Files
    <3>2. CASE drafts' = [drafts EXCEPT ![p][k] = 0] /\ UNCHANGED saved
      BY <3>2, Types, DraftRemoved
    <3> QED
      BY <1>4, <3>1, <3>2
  <2>2. \A q \in Profiles : Drafted(q)' \subseteq Drafted(q)
    BY <1>4, DraftRemoved DEF Drafted
  <2>3. \A q \in Profiles : q # p => saved'[q] = saved[q] /\ drafts'[q] = drafts[q]
    BY <1>4, Types DEF Files
  <2>4. TypeOK'
    BY <1>1, <1>4, <2>1, Types, TypesNext
  <2>5. DraftsFit'
    BY <2>2, FewerDrafts DEF TableInv
  <2>6. active # NoProfile => Drafted(active)' \subseteq Drafted(active)
    BY <1>1, <2>2, Types DEF Drafted
  <2>7. TableInv'
    <3>1. CASE p = active
      BY <1>1, <1>4, <2>5, <2>6, <3>1 DEF TableInv, TableIsDrafts
    <3>2. CASE p # active
      <4>1. active # NoProfile => Drafted(active)' = Drafted(active)
        BY <1>1, <2>3, <3>2, Types DEF Drafted
      <4> QED
        BY <1>1, <1>4, <2>5, <3>2, <4>1 DEF TableInv, TableIsDrafts
    <3> QED
      BY <3>1, <3>2
  <2>8. PlayingIsStored'
    <3>1. CASE p = active
      BY <1>4, <3>1 DEF PlayingIsStored
    <3>2. CASE p # active
      BY <1>1, <1>4, <2>3, <3>2, Types DEF PlayingIsStored, Read
    <3> QED
      BY <3>1, <3>2
  <2> QED
    BY <1>2, <2>4, <2>7, <2>8
<1> QED
  BY <1>3, <1>4 DEF DeleteFile

LEMMA DeleteEndsKeeps ==
  ASSUME IInv, NEW p \in Profiles, DeleteEnds(p)
  PROVE  IInv'
<1> USE DEF IInv
<1>1. op' \in Ops /\ OpInv'
  BY OpOver, NoOpType DEF DeleteEnds
<1>2. CASE p = active
  <2>1. /\ active' = NoProfile /\ at' \in Patches /\ playing' \in Nat
        /\ dirty' \subseteq Patches /\ Cardinality(dirty') <= DraftsMax
        /\ behind' \subseteq {"table", "playing"}
        /\ TableInv' /\ PlayingIsStored'
    BY <1>2, NothingLoadedInv DEF DeleteEnds
  <2>2. TypeOK'
    BY <1>1, <1>2, <2>1, Types, TypesNext DEF DeleteEnds
  <2> QED
    BY <1>1, <2>1, <2>2
<1>3. CASE p # active
  <2>1. UNCHANGED <<manifest, pointer, saved, drafts, active, at, playing, dirty, behind, edits>>
    BY <1>3 DEF DeleteEnds, memory
  <2>2. TypeOK'
    BY <1>1, <2>1, Types, TypesNext
  <2> QED
    BY <1>1, <2>1, <2>2, TableFrame, PlayingFrame
<1> QED
  BY <1>2, <1>3

LEMMA StepFailsKeeps ==
  ASSUME IInv, StepFails
  PROVE  IInv'
BY OnlyRequest, OpOver, NoOpType DEF StepFails

LEMMA RestartKeeps ==
  ASSUME IInv, Restart
  PROVE  IInv'
<1>1. op' \in Ops /\ OpInv'
  BY OpOver, NoOpType DEF Restart
<1>2. UNCHANGED <<manifest, pointer, saved, drafts, edits>>
  BY DEF Restart, flash
<1>3. /\ active' \in Profiles \cup {NoProfile} /\ at' \in Patches /\ playing' \in Nat
      /\ dirty' \subseteq Patches /\ Cardinality(dirty') <= DraftsMax
      /\ behind' \subseteq {"table", "playing"}
      /\ TableInv' /\ PlayingIsStored'
  <2>1. CASE pointer # NoProfile /\ CanLoad(pointer) /\ Load(pointer)
    <3>1. pointer \in Profiles
      BY <2>1, Types DEF IInv
    <3> QED
      BY <1>2, <2>1, <3>1, LoadedInv
  <2>2. CASE LoadNothing
    BY <1>2, <2>2, NothingLoadedInv
  <2> QED
    BY <2>1, <2>2 DEF Restart
<1>4. TypeOK'
  BY <1>1, <1>2, <1>3, Types, TypesNext DEF IInv
<1> QED
  BY <1>1, <1>3, <1>4 DEF IInv

-----------------------------------------------------------------------------
(* The invariants.                                                         *)

LEMMA Initially == Init => IInv
<1> SUFFICES ASSUME Init PROVE IInv
  OBVIOUS
<1>1. Cardinality({}) = 0 /\ 0 <= DraftsMax /\ First \in Patches
  BY ConfigAssumption, FS_EmptySet DEF ConfigAssumption
<1>2. TypeOK
  BY <1>1, Types, NoOpType DEF Init, Files
<1>3. OpInv
  BY NoOpType DEF Init, OpInv
<1>4. DraftsFit
  <2>1. \A q \in Profiles : Drafted(q) = {}
    BY DEF Init, Drafted
  <2> QED
    BY <1>1, <2>1 DEF DraftsFit
<1>5. TableInv /\ PlayingIsStored
  BY <1>4 DEF Init, TableInv, TableIsDrafts, PlayingIsStored
<1> QED
  BY <1>2, <1>3, <1>5 DEF IInv

LEMMA Inductive == IInv /\ [Next]_vars => IInv'
<1> SUFFICES ASSUME IInv, [Next]_vars PROVE IInv'
  OBVIOUS
<1>1. ASSUME NEW k \in Patches, Put(k) \/ PutBinding(k) PROVE IInv'
  BY <1>1, PutKeeps DEF PutBinding
<1>2. ASSUME NEW k \in Patches, Select(k) PROVE IInv'
  BY <1>2, SelectKeeps
<1>3. ASSUME NEW k \in Patches, Remove(k) PROVE IInv'
  BY <1>3, RemoveKeeps
<1>4. ASSUME NEW k \in Patches, Autosave(k) PROVE IInv'
  BY <1>4, SettleKeeps DEF Autosave
<1>5. ASSUME NEW k \in Patches, WriteTarget(k) PROVE IInv'
  BY <1>5, WriteTargetKeeps
<1>6. ASSUME NEW k \in Patches, DropSaved(k) PROVE IInv'
  BY <1>6, DropSavedKeeps
<1>7. ASSUME NEW k \in Patches, DropUnsaved(k) PROVE IInv'
  BY <1>7, DropUnsavedKeeps
<1>8. ASSUME NEW p \in Profiles, NEW k \in Patches, PutNamed(p, k) PROVE IInv'
  BY <1>8, PutNamedKeeps
<1>9. ASSUME NEW kind \in {"save", "discard"}, NEW K \in Selections, Settle(kind, K) PROVE IInv'
  <2>1. K \in SUBSET Patches
    BY DEF Selections
  <2> QED
    BY <1>9, <2>1, SettleKeeps
<1>10. ASSUME NEW p \in Profiles, Create(p) PROVE IInv'
  BY <1>10, CreateKeeps
<1>11. ASSUME NEW p \in Profiles, Activate(p) PROVE IInv'
  BY <1>11, ActivateKeeps
<1>12. ASSUME NEW p \in Profiles, Delete(p) PROVE IInv'
  BY <1>12, DeleteKeeps
<1>13. ASSUME NEW p \in Profiles, DeleteFile(p) PROVE IInv'
  BY <1>13, DeleteFileKeeps
<1>14. ASSUME NEW p \in Profiles, DeleteEnds(p) PROVE IInv'
  BY <1>14, DeleteEndsKeeps
<1>15. CASE StepFails
  BY <1>15, StepFailsKeeps
<1>16. CASE Restart
  BY <1>16, RestartKeeps
<1>17. CASE UNCHANGED vars
  <2>1. OpInv'
    BY <1>17 DEF IInv, OpInv, Rest, vars, flash, memory
  <2>2. op' \in Ops
    BY <1>17, Types DEF IInv, vars
  <2> QED
    BY <1>17, <2>1, <2>2, OnlyRequest DEF vars
<1> QED
  BY <1>1, <1>2, <1>3, <1>4, <1>5, <1>6, <1>7, <1>8, <1>9, <1>10, <1>11, <1>12, <1>13,
     <1>14, <1>15, <1>16, <1>17 DEF Next

LEMMA Invariant == Spec => []IInv
BY Initially, Inductive, PTL DEF Spec

\* Every value keeps its type, and the table of drafts never grows past its array
\* (config.c: bosun_config_put_patch, dirty_count).
THEOREM TypeCorrect == Spec => []TypeOK
<1>1. IInv => TypeOK
  BY DEF IInv
<1> QED
  BY <1>1, Invariant, PTL

\* No profile ever has more drafts on the flash than the table takes, so that one with
\* unsaved edits can be loaded again (config.c: catalog, bosun_config_activate).
THEOREM DraftsAlwaysFit == Spec => []DraftsFit
<1>1. IInv => DraftsFit
  BY DEF IInv, TableInv
<1> QED
  BY <1>1, Invariant, PTL

\* The table of drafts is the drafts on the flash, whatever step of a save, a discard or a
\* removal fails and wherever the power is lost (config.c: bosun_config_save, activate).
THEOREM TableExact == Spec => []TableIsDrafts
<1>1. IInv => TableIsDrafts
  BY DEF IInv, TableInv
<1> QED
  BY <1>1, Invariant, PTL

\* The pedal plays what GET_PATCH answers (config.c: bosun_config_read_patch, config.patch).
THEOREM PlaysWhatIsStored == Spec => []PlayingIsStored
<1>1. IInv => PlayingIsStored
  BY DEF IInv
<1> QED
  BY <1>1, Invariant, PTL

-----------------------------------------------------------------------------
(* The promise.  Each step is one of PatchStore, or changes nothing in it. *)

LEMMA ShownIs ==
  /\ \A p \in Profiles, k \in Patches :
       Shown[p][k] = IF drafts[p][k] # 0 THEN drafts[p][k] ELSE saved[p][k]
  /\ \A p \in Profiles, k \in Patches :
       Shown'[p][k] = IF drafts'[p][k] # 0 THEN drafts'[p][k] ELSE saved'[p][k]
BY DEF Shown

\* What is shown is a table of versions like the files, and so are files and drafts after a step.
LEMMA ShownFiles == (IInv => Shown \in Files) /\ (IInv' => Shown' \in Files /\ saved' \in Files)
<1>1. IInv => saved \in Files /\ drafts \in Files
  BY Types DEF IInv
<1>2. IInv' => saved' \in Files /\ drafts' \in Files
  BY TypesNext DEF IInv
<1> QED
  BY <1>1, <1>2 DEF Shown, Files

\* A table of versions is known by its entries.
LEMMA OneEntry ==
  ASSUME NEW g \in Files, NEW h \in Files, NEW p \in Profiles, NEW k \in Patches,
         \A q \in Profiles, j \in Patches : (q # p \/ j # k) => h[q][j] = g[q][j]
  PROVE  h = [g EXCEPT ![p][k] = h[p][k]]
<1>1. \A q \in Profiles : g[q] \in [Patches -> Nat] /\ h[q] \in [Patches -> Nat]
  BY DEF Files
<1>2. \A q \in Profiles : q # p => h[q] = g[q]
  BY <1>1
<1>3. h[p] = [g[p] EXCEPT ![k] = h[p][k]]
  BY <1>1
<1> QED
  BY <1>2, <1>3 DEF Files

LEMMA BecomesIs ==
  ASSUME IInv, IInv', NEW p \in Profiles, NEW k \in Patches,
         \A q \in Profiles, j \in Patches : (q # p \/ j # k) =>
           saved'[q][j] = saved[q][j] /\ drafts'[q][j] = drafts[q][j]
  PROVE  Promise!Becomes(p, k, Shown'[p][k], saved'[p][k])
<1>1. \A q \in Profiles, j \in Patches : (q # p \/ j # k) => Shown'[q][j] = Shown[q][j]
  BY ShownIs
<1>2. Shown' = [Shown EXCEPT ![p][k] = Shown'[p][k]]
  BY <1>1, ShownFiles, OneEntry
<1>3. saved \in Files /\ saved' \in Files
  BY Types, ShownFiles DEF IInv
<1>4. saved' = [saved EXCEPT ![p][k] = saved'[p][k]]
  BY <1>3, OneEntry
<1> QED
  BY <1>2, <1>4 DEF Promise!Becomes

LEMMA ServingIs ==
  /\ op = NoOp => Serving = Promise!NoRequest
  /\ op' = NoOp => Serving' = Promise!NoRequest
  /\ op' = op => Serving' = Serving
  /\ Serving.kind = op.kind /\ Serving.profile = op.profile /\ Serving.keys = op.keys
BY DEF Serving, NoOp, Request, Promise!NoRequest

LEMMA NextServing ==
  ASSUME op \in Ops, op' = NoOp \/ \E W \in SUBSET Patches : op' = [op EXCEPT !.written = W]
  PROVE  Serving' \in {Serving, Promise!NoRequest}
<1>1. CASE op' = NoOp
  BY <1>1, ServingIs
<1>2. ASSUME NEW W \in SUBSET Patches, op' = [op EXCEPT !.written = W]
      PROVE  Serving' = Serving
  <2>1. op'.kind = op.kind /\ op'.profile = op.profile /\ op'.keys = op.keys
    BY <1>2, WrittenType
  <2> QED
    BY <2>1 DEF Serving
<1> QED
  BY <1>1, <1>2

Kept == Promise!Next \/ UNCHANGED Promise!promised

\* What changes no file and no request changes nothing that is promised.
LEMMA NothingPromised ==
  ASSUME UNCHANGED <<saved, drafts, edits, op>>
  PROVE  Kept
BY ServingIs DEF Kept, Promise!promised, Shown, Serving

\* A request that is over.
LEMMA OverIsKept ==
  ASSUME UNCHANGED <<saved, drafts, edits>>, op' = NoOp
  PROVE  Kept
<1>1. UNCHANGED <<saved, Shown>>
  BY DEF Shown
<1>2. Promise!Over
  BY <1>1, ServingIs DEF Promise!Over, Promise!SameVersions
<1> QED
  BY <1>2 DEF Kept, Promise!Next

\* A request that is accepted.
LEMMA AcceptIsKept ==
  ASSUME UNCHANGED <<saved, drafts, edits>>, op = NoOp,
         NEW kind \in {"save", "discard", "delete"}, NEW p \in Profiles, NEW K \in SUBSET Patches,
         op' = Request(kind, p, K)
  PROVE  Kept
<1>1. UNCHANGED <<saved, Shown>>
  BY DEF Shown
<1>2. Serving' = [kind |-> kind, profile |-> p, keys |-> K]
  BY DEF Serving, Request
<1>3. Promise!Accept
  BY <1>1, <1>2, ServingIs DEF Promise!Accept, Promise!SameVersions
<1> QED
  BY <1>3 DEF Kept, Promise!Next

LEMMA PutIsKept ==
  ASSUME IInv, IInv', NEW k \in Patches, Put(k)
  PROVE  Kept
<1>1. active \in Profiles
  BY Types DEF Put, IInv
<1>2. edits' = edits + 1 /\ edits + 1 # 0 /\ UNCHANGED <<saved, op>> /\ op = NoOp
  BY Types DEF Put, NewEdit, IInv, Idle
<1>3. /\ drafts'[active][k] = edits + 1
      /\ \A q \in Profiles, j \in Patches : (q # active \/ j # k) => drafts'[q][j] = drafts[q][j]
  BY <1>1, Types DEF Put, Files, IInv
<1>4. Promise!Edit(active, k)
  <2>1. Shown'[active][k] = edits + 1 /\ saved'[active][k] = saved[active][k]
    BY <1>1, <1>2, <1>3, ShownIs
  <2>2. Promise!Becomes(active, k, edits + 1, saved[active][k])
    BY <1>1, <1>2, <1>3, <2>1, BecomesIs
  <2> QED
    BY <1>2, <2>2, ServingIs DEF Promise!Edit
<1> QED
  BY <1>1, <1>4 DEF Kept, Promise!Next

LEMMA PutNamedIsKept ==
  ASSUME IInv, IInv', NEW p \in Profiles, NEW k \in Patches, PutNamed(p, k)
  PROVE  Kept
<1>1. edits' = edits + 1 /\ UNCHANGED <<drafts, op>> /\ op = NoOp
  BY DEF PutNamed, NewEdit, Idle
<1>2. /\ saved'[p][k] = edits + 1
      /\ \A q \in Profiles, j \in Patches : (q # p \/ j # k) => saved'[q][j] = saved[q][j]
  BY Types DEF PutNamed, Files, IInv
<1>3. Shown'[p][k] \in {Shown[p][k], edits + 1}
  BY <1>1, <1>2, ShownIs
<1>4. Promise!Becomes(p, k, Shown'[p][k], edits + 1)
  BY <1>1, <1>2, BecomesIs
<1>5. Promise!SaveAs(p, k)
  BY <1>1, <1>3, <1>4, ServingIs DEF Promise!SaveAs
<1> QED
  BY <1>5 DEF Kept, Promise!Next

LEMMA WriteTargetIsKept ==
  ASSUME IInv, IInv', NEW k \in Patches, WriteTarget(k)
  PROVE  Kept
<1>1. active \in Profiles /\ op.profile = active /\ op.kind = "save" /\ k \in op.keys
  BY DEF WriteTarget, OpInv, Rest, IInv
<1>2. UNCHANGED <<drafts, edits>> /\ drafts[active][k] # 0
  BY DEF WriteTarget
<1>3. /\ saved'[active][k] = drafts[active][k]
      /\ \A q \in Profiles, j \in Patches : (q # active \/ j # k) => saved'[q][j] = saved[q][j]
  BY <1>1, Types DEF WriteTarget, Files, IInv
<1>4. Serving' \in {Serving, Promise!NoRequest}
  BY NextServing, Types DEF WriteTarget, IInv
<1>5. Promise!Becomes(active, k, Shown[active][k], Shown[active][k])
  <2>1. Shown'[active][k] = Shown[active][k] /\ saved'[active][k] = Shown[active][k]
    BY <1>1, <1>2, <1>3, ShownIs
  <2> QED
    BY <1>1, <1>2, <1>3, <2>1, BecomesIs
<1>6. Promise!Save(active, k)
  BY <1>1, <1>2, <1>4, <1>5, ServingIs DEF Promise!Save, Promise!Serving, Promise!MayBeOver
<1> QED
  BY <1>1, <1>6 DEF Kept, Promise!Next

LEMMA DropSavedIsKept ==
  ASSUME IInv, IInv', NEW k \in Patches, DropSaved(k)
  PROVE  Kept
<1>1. /\ active \in Profiles /\ op.profile = active /\ op.kind = "save" /\ k \in op.keys
      /\ saved[active][k] = drafts[active][k]
  BY DEF DropSaved, OpInv, Rest, IInv
<1>2. UNCHANGED <<saved, edits>>
  BY DEF DropSaved
<1>3. /\ drafts'[active][k] = 0
      /\ \A q \in Profiles, j \in Patches : (q # active \/ j # k) => drafts'[q][j] = drafts[q][j]
  BY <1>1, DraftRemoved DEF DropSaved, IInv
<1>4. Serving' \in {Serving, Promise!NoRequest}
  BY NextServing, Types DEF DropSaved, Next1, IInv
<1>5. Promise!Becomes(active, k, Shown[active][k], Shown[active][k])
  <2>1. Shown'[active][k] = Shown[active][k] /\ saved'[active][k] = Shown[active][k]
    BY <1>1, <1>2, <1>3, ShownIs
  <2> QED
    BY <1>1, <1>2, <1>3, <2>1, BecomesIs
<1>6. Promise!Save(active, k)
  BY <1>1, <1>2, <1>4, <1>5, ServingIs DEF Promise!Save, Promise!Serving, Promise!MayBeOver
<1> QED
  BY <1>1, <1>6 DEF Kept, Promise!Next

\* A draft removed by a request that gives it up.
LEMMA DraftGivenUp ==
  ASSUME IInv, IInv', NEW p \in Profiles, NEW k \in Patches, UNCHANGED <<saved, edits>>,
         op.kind \in {"discard", "remove", "delete"}, op.profile = p, k \in op.keys,
         drafts' = [drafts EXCEPT ![p][k] = 0], Serving' \in {Serving, Promise!NoRequest}
  PROVE  Kept
<1>1. /\ drafts'[p][k] = 0
      /\ \A q \in Profiles, j \in Patches : (q # p \/ j # k) => drafts'[q][j] = drafts[q][j]
  BY DraftRemoved DEF IInv
<1>2. Promise!Becomes(p, k, saved[p][k], saved[p][k])
  <2>1. Shown'[p][k] = saved[p][k] /\ saved'[p][k] = saved[p][k]
    BY <1>1, ShownIs
  <2> QED
    BY <1>1, <2>1, BecomesIs
<1>3. Promise!Discard(p, k)
  BY <1>2, ServingIs DEF Promise!Discard, Promise!Serving, Promise!MayBeOver
<1> QED
  BY <1>3 DEF Kept, Promise!Next

LEMMA DropUnsavedIsKept ==
  ASSUME IInv, IInv', NEW k \in Patches, DropUnsaved(k)
  PROVE  Kept
<1>1. active \in Profiles /\ op.profile = active /\ k \in op.keys
  BY DEF DropUnsaved, OpInv, Rest, IInv
<1>2. Serving' \in {Serving, Promise!NoRequest}
  BY NextServing, Types DEF DropUnsaved, Next1, IInv
<1> QED
  BY <1>1, <1>2, DraftGivenUp DEF DropUnsaved

\* A saved file removed.
LEMMA FileErased ==
  ASSUME IInv, IInv', NEW p \in Profiles, NEW k \in Patches, UNCHANGED <<drafts, edits>>,
         saved' = [saved EXCEPT ![p][k] = 0]
  PROVE  Promise!Erased(p, k)
<1>1. /\ saved'[p][k] = 0
      /\ \A q \in Profiles, j \in Patches : (q # p \/ j # k) => saved'[q][j] = saved[q][j]
  BY Types DEF Files, IInv
<1>2. Shown'[p][k] \in {Shown[p][k], 0}
  BY <1>1, ShownIs
<1>3. Promise!Becomes(p, k, Shown'[p][k], 0)
  BY <1>1, BecomesIs
<1> QED
  BY <1>2, <1>3 DEF Promise!Erased

LEMMA RemoveIsKept ==
  ASSUME IInv, IInv', NEW k \in Patches, Remove(k)
  PROVE  Kept
<1>1. active \in Profiles
  BY Types DEF Remove, IInv
<1>2. Promise!Erased(active, k)
  BY <1>1, FileErased DEF Remove
<1>3. op = NoOp /\ (op' = NoOp \/ op' = Request("remove", active, {k}))
  BY DEF Remove, Idle
<1>4. Serving' \in {Promise!NoRequest, [kind |-> "remove", profile |-> active, keys |-> {k}]}
  BY <1>3, ServingIs DEF Serving, Request
<1>5. Promise!Remove(active, k)
  BY <1>2, <1>3, <1>4, ServingIs DEF Promise!Remove
<1> QED
  BY <1>1, <1>5 DEF Kept, Promise!Next

LEMMA DeleteFileIsKept ==
  ASSUME IInv, IInv', NEW p \in Profiles, DeleteFile(p)
  PROVE  Kept
<1>1. op.kind = "delete" /\ op.profile = p /\ op.keys = Patches /\ UNCHANGED <<op, edits>>
  BY DEF DeleteFile, IInv, OpInv
<1>2. CASE UNCHANGED <<saved, drafts>>
  BY <1>1, <1>2, NothingPromised
<1>3. ASSUME NEW k \in Patches, saved' = [saved EXCEPT ![p][k] = 0], UNCHANGED drafts
      PROVE  Kept
  <2>1. Promise!Delete(p, k)
    BY <1>1, <1>3, FileErased, ServingIs DEF Promise!Delete, Promise!Serving, Promise!MayBeOver
  <2> QED
    BY <2>1 DEF Kept, Promise!Next
<1>4. ASSUME NEW k \in Patches, drafts' = [drafts EXCEPT ![p][k] = 0], UNCHANGED saved
      PROVE  Kept
  BY <1>1, <1>4, DraftGivenUp, ServingIs
<1> QED
  BY <1>2, <1>3, <1>4 DEF DeleteFile

LEMMA StepKept == IInv /\ [Next]_vars => Kept
<1> SUFFICES ASSUME IInv, IInv', [Next]_vars PROVE Kept
  BY Inductive
<1>1. ASSUME NEW k \in Patches, Put(k) \/ PutBinding(k) PROVE Kept
  BY <1>1, PutIsKept DEF PutBinding
<1>2. ASSUME NEW k \in Patches, Select(k) PROVE Kept
  BY <1>2, NothingPromised DEF Select, flash
<1>3. ASSUME NEW k \in Patches, Remove(k) PROVE Kept
  BY <1>3, RemoveIsKept
<1>4. ASSUME NEW kind \in {"save", "discard"}, NEW K \in SUBSET Patches, Settle(kind, K) PROVE Kept
  <2>1. active \in Profiles
    BY <1>4, Types DEF Settle, IInv, TableInv
  <2> QED
    BY <1>4, <2>1, AcceptIsKept DEF Settle, Idle, flash
<1>5. ASSUME NEW k \in Patches, Autosave(k) PROVE Kept
  BY <1>4, <1>5 DEF Autosave
<1>6. ASSUME NEW k \in Patches, WriteTarget(k) PROVE Kept
  BY <1>6, WriteTargetIsKept
<1>7. ASSUME NEW k \in Patches, DropSaved(k) PROVE Kept
  BY <1>7, DropSavedIsKept
<1>8. ASSUME NEW k \in Patches, DropUnsaved(k) PROVE Kept
  BY <1>8, DropUnsavedIsKept
<1>9. ASSUME NEW p \in Profiles, NEW k \in Patches, PutNamed(p, k) PROVE Kept
  BY <1>9, PutNamedIsKept
<1>10. ASSUME NEW p \in Profiles, Create(p) \/ Activate(p) PROVE Kept
  BY <1>10, NothingPromised DEF Create, Activate
<1>11. ASSUME NEW p \in Profiles, Delete(p) PROVE Kept
  BY <1>11, AcceptIsKept DEF Delete, Idle, flash
<1>12. ASSUME NEW p \in Profiles, DeleteFile(p) PROVE Kept
  BY <1>12, DeleteFileIsKept
<1>13. ASSUME NEW p \in Profiles, DeleteEnds(p) PROVE Kept
  BY <1>13, OverIsKept DEF DeleteEnds
<1>14. CASE StepFails \/ Restart
  BY <1>14, OverIsKept DEF StepFails, Restart, flash
<1>15. CASE UNCHANGED vars
  BY <1>15, NothingPromised DEF vars, flash
<1>16. \A K \in Selections : K \in SUBSET Patches
  BY DEF Selections
<1> QED
  BY <1>1, <1>2, <1>3, <1>4, <1>5, <1>6, <1>7, <1>8, <1>9, <1>10, <1>11, <1>12, <1>13,
     <1>14, <1>15, <1>16 DEF Next

LEMMA PromiseInitially == Init => Promise!Init
BY ServingIs DEF Init, Promise!Init, Shown

\* The flash keeps the promise of PatchStore: through failed steps and losses of power, what is
\* shown of a patch is its last accepted edit or its saved version, and only the request in
\* progress changes it (config.c: bosun_config_put_patch, save, remove_patch, delete, init).
THEOREM PromiseKept == Spec => StoreIsKept
<1>1. IInv /\ [Next]_vars => [Promise!Next]_(Promise!promised)
  BY StepKept DEF Kept
<1> QED
  BY <1>1, PromiseInitially, Invariant, PTL DEF Spec, StoreIsKept, Promise!Spec

=============================================================================
