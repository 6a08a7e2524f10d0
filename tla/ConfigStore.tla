----------------------------- MODULE ConfigStore -----------------------------
(***************************************************************************)
(* The patches of the Captain: saved files and drafts on its flash, and in *)
(* memory the active profile, the table of its drafts and the patch that   *)
(* is played.  The firmware serves one request at a time.  A request that  *)
(* changes several files does so one after the other, each atomically; any *)
(* of these steps may fail, which ends the request, and the power may be   *)
(* lost between them.                                                      *)
(*                                                                         *)
(* A patch is the number of the edit that made it, and 0 is no file.  The  *)
(* order of the table of drafts is left out: a save takes those it is for  *)
(* in any order.                                                           *)
(***************************************************************************)
EXTENDS Naturals, FiniteSets

CONSTANTS
  Profiles,    \* the profiles that may exist
  NoProfile,   \* no profile
  Patches,     \* (bank, slot)
  First,       \* bank 1, slot 1
  DraftsMax,   \* BOSUN_DIRTY_PATCHES
  MaxEdits     \* bound on the edits

ASSUME ConfigAssumption ==
  /\ NoProfile \notin Profiles
  /\ IsFiniteSet(Patches) /\ First \in Patches
  /\ DraftsMax \in Nat /\ MaxEdits \in Nat

VARIABLES
  manifest,    \* the profiles with a manifest.json
  pointer,     \* active_profile.json
  saved,       \* the files under patches/ of each profile
  drafts,      \* the files under native-drafts/
  active,      \* config.profile
  at,          \* config.bank and config.slot
  playing,     \* config.patch, 0 without has_patch
  dirty,       \* config.dirty
  op,          \* the request in progress
  edits,       \* the edits made so far
  behind       \* history: what in memory does not follow the flash any more

flash  == <<manifest, pointer, saved, drafts>>
memory == <<active, at, playing, dirty, behind>>
vars   == <<flash, memory, op, edits>>

\* The files a request is for, and the draft whose target it has written.
Request(kind, p, K) == [kind |-> kind, profile |-> p, keys |-> K, written |-> {}]
NoOp == Request("none", NoProfile, {})
Kinds == {"none", "save", "discard", "remove", "delete"}

TypeOK ==
  /\ manifest \subseteq Profiles
  /\ pointer \in Profiles \cup {NoProfile}
  /\ saved \in [Profiles -> [Patches -> Nat]]
  /\ drafts \in [Profiles -> [Patches -> Nat]]
  /\ active \in Profiles \cup {NoProfile}
  /\ at \in Patches
  /\ playing \in Nat
  /\ dirty \subseteq Patches /\ Cardinality(dirty) <= DraftsMax
  /\ op \in [kind : Kinds, profile : Profiles \cup {NoProfile},
             keys : SUBSET Patches, written : SUBSET Patches]
  /\ edits \in Nat
  /\ behind \subseteq {"table", "playing"}

Init ==
  /\ manifest = {}
  /\ pointer = NoProfile
  /\ saved = [p \in Profiles |-> [k \in Patches |-> 0]]
  /\ drafts = saved
  /\ active = NoProfile
  /\ at = First
  /\ playing = 0
  /\ dirty = {}
  /\ op = NoOp
  /\ edits = 0
  /\ behind = {}

(***************************************************************************)
(* Reading.                                                                *)
(***************************************************************************)
Drafted(p) == {k \in Patches : drafts[p][k] # 0}

\* What GET_PATCH answers for the active profile.
Read(k) == IF k \in dirty THEN drafts[active][k] ELSE saved[active][k]

Idle == op = NoOp

\* Mutant: the drafts of an earlier session are not looked for.
LoadSaved(p) ==
  /\ active' = p
  /\ at' = First
  /\ playing' = saved[p][First]
  /\ dirty' = {}
  /\ behind' = {}

Load(p) ==
  /\ active' = p
  /\ at' = First
  /\ playing' = IF First \in Drafted(p) THEN drafts[p][First] ELSE saved[p][First]
  /\ dirty' = Drafted(p)
  /\ behind' = {}

CanLoad(p) == p \in manifest /\ Cardinality(Drafted(p)) <= DraftsMax

LoadNothing ==
  /\ active' = NoProfile
  /\ at' = First
  /\ playing' = 0
  /\ dirty' = {}
  /\ behind' = {}

(***************************************************************************)
(* Edits.                                                                  *)
(***************************************************************************)
NewEdit == edits < MaxEdits /\ edits' = edits + 1

\* Mutant: the table takes one draft too many.
RoomForMore(k) == k \in dirty \/ Cardinality(dirty) <= DraftsMax
RoomFor(k) == k \in dirty \/ Cardinality(dirty) < DraftsMax

Put(k) ==
  /\ Idle
  /\ active \in manifest
  /\ RoomFor(k)
  /\ NewEdit
  /\ drafts' = [drafts EXCEPT ![active][k] = edits + 1]
  /\ dirty' = dirty \cup {k}
  /\ \/ at = k /\ playing' = edits + 1 /\ behind' = behind \ {"playing"}
     \/ at # k /\ UNCHANGED <<playing, behind>>
  /\ UNCHANGED <<manifest, pointer, saved, active, at, op>>

\* A binding is put into the patch as it is read.
PutBinding(k) == active # NoProfile /\ Read(k) # 0 /\ Put(k)

\* Under the name of a profile a patch is saved at once, and memory does not look.
PutNamed(p, k) ==
  /\ Idle
  /\ p \in manifest
  /\ NewEdit
  /\ saved' = [saved EXCEPT ![p][k] = edits + 1]
  /\ \/ p = active /\ k = at /\ k \notin dirty /\ behind' = behind \cup {"playing"}
     \/ ~(p = active /\ k = at /\ k \notin dirty) /\ UNCHANGED behind
  /\ UNCHANGED <<manifest, pointer, drafts, active, at, playing, dirty, op>>

Select(k) ==
  /\ Idle
  /\ active # NoProfile
  /\ Read(k) # 0
  /\ at' = k
  /\ playing' = Read(k)
  /\ behind' = behind \ {"playing"}
  /\ UNCHANGED <<flash, active, dirty, op, edits>>

(***************************************************************************)
(* Saving, discarding and removing.  One draft is settled after the other. *)
(***************************************************************************)
Rest == dirty \cap op.keys
Next1(k) == op' = IF Rest \ {k} = {} THEN NoOp ELSE [op EXCEPT !.written = {}]

\* A selection is one patch or all.
Selections == {{k} : k \in Patches} \cup {Patches}

Settle(kind, K) ==
  /\ Idle
  /\ dirty \cap K # {}
  /\ op' = Request(kind, active, K)
  /\ UNCHANGED <<flash, memory, edits>>

\* The pedal saves a draft by itself some time after its last edit.
Autosave(k) == k \in dirty /\ Settle("save", {k})

\* Mutant: the draft is removed first.
DropBeforeWrite(k) ==
  /\ op.kind = "save" /\ op.written = {}
  /\ k \in Rest
  /\ drafts[active][k] # 0
  /\ drafts' = [drafts EXCEPT ![active][k] = 0]
  /\ op' = [op EXCEPT !.written = {k}]
  /\ UNCHANGED <<manifest, pointer, saved, memory, edits>>

WriteTarget(k) ==
  /\ op.kind = "save" /\ op.written = {}
  /\ k \in Rest
  /\ drafts[active][k] # 0
  /\ saved' = [saved EXCEPT ![active][k] = drafts[active][k]]
  /\ op' = [op EXCEPT !.written = {k}]
  /\ UNCHANGED <<manifest, pointer, drafts, memory, edits>>

DropSaved(k) ==
  /\ op.kind = "save" /\ k \in op.written
  /\ drafts' = [drafts EXCEPT ![active][k] = 0]
  /\ dirty' = dirty \ {k}
  /\ Next1(k)
  /\ UNCHANGED <<manifest, pointer, saved, active, at, playing, behind, edits>>

\* Mutant: the patch that is played is not loaded again.
DropUnplayed(k) ==
  /\ op.kind \in {"discard", "remove"}
  /\ k \in Rest
  /\ drafts' = [drafts EXCEPT ![active][k] = 0]
  /\ dirty' = dirty \ {k}
  /\ Next1(k)
  /\ UNCHANGED <<manifest, pointer, saved, active, at, playing, behind, edits>>

DropUnsaved(k) ==
  /\ op.kind \in {"discard", "remove"}
  /\ k \in Rest
  /\ drafts' = [drafts EXCEPT ![active][k] = 0]
  /\ dirty' = dirty \ {k}
  /\ \/ at = k /\ playing' = saved[active][k] /\ behind' = behind \ {"playing"}
     \/ at # k /\ UNCHANGED <<playing, behind>>
  /\ Next1(k)
  /\ UNCHANGED <<manifest, pointer, saved, active, at, edits>>

\* The saved file goes first, and then its draft.
Remove(k) ==
  /\ Idle
  /\ active # NoProfile
  /\ saved' = [saved EXCEPT ![active][k] = 0]
  /\ \/ /\ k \in dirty
        /\ op' = Request("remove", active, {k})
        /\ UNCHANGED <<playing, behind>>
     \/ /\ k \notin dirty
        /\ UNCHANGED op
        /\ \/ at = k /\ playing' = 0 /\ behind' = behind \ {"playing"}
           \/ at # k /\ UNCHANGED <<playing, behind>>
  /\ UNCHANGED <<manifest, pointer, drafts, active, at, dirty, edits>>

(***************************************************************************)
(* Profiles.  The manifest is what makes one visible.                      *)
(***************************************************************************)
Create(p) ==
  /\ Idle
  /\ p \notin manifest
  /\ manifest' = manifest \cup {p}
  /\ UNCHANGED <<pointer, saved, drafts, memory, op, edits>>

Activate(p) ==
  /\ Idle
  /\ CanLoad(p)
  /\ pointer' = p
  /\ Load(p)
  /\ UNCHANGED <<manifest, saved, drafts, op, edits>>

Delete(p) ==
  /\ Idle
  /\ op' = Request("delete", p, Patches)
  /\ UNCHANGED <<flash, memory, edits>>

\* The files of a profile are removed in the order in which they are listed: any.
DeleteFile(p) ==
  /\ op.kind = "delete" /\ op.profile = p
  /\ \/ manifest' = manifest \ {p} /\ UNCHANGED <<saved, drafts, behind>>
     \/ \E k \in Patches :
          /\ UNCHANGED manifest
          /\ \/ saved' = [saved EXCEPT ![p][k] = 0] /\ UNCHANGED drafts
             \/ drafts' = [drafts EXCEPT ![p][k] = 0] /\ UNCHANGED saved
          /\ behind' = IF p = active THEN {"table", "playing"} ELSE behind
  /\ UNCHANGED <<pointer, active, at, playing, dirty, op, edits>>

Deleted(p) == /\ p \notin manifest
              /\ \A k \in Patches : saved[p][k] = 0 /\ drafts[p][k] = 0

DeleteEnds(p) ==
  /\ op.kind = "delete" /\ op.profile = p
  /\ Deleted(p)
  /\ op' = NoOp
  /\ \/ p = active /\ pointer' = NoProfile /\ LoadNothing
     \/ p # active /\ UNCHANGED <<pointer, memory>>
  /\ UNCHANGED <<manifest, saved, drafts, edits>>

\* A file cannot be read, written or removed: the request ends where it is.
StepFails ==
  /\ ~Idle
  /\ op' = NoOp
  /\ UNCHANGED <<flash, memory, edits>>

\* The power is lost, and the pedal starts with what is on the flash, or with
\* nothing when that cannot be read.
Restart ==
  /\ op' = NoOp
  /\ \/ pointer # NoProfile /\ CanLoad(pointer) /\ Load(pointer)
     \/ LoadNothing
  /\ UNCHANGED <<flash, edits>>

Next ==
  \/ \E k \in Patches : \/ Put(k) \/ PutBinding(k) \/ Select(k) \/ Remove(k) \/ Autosave(k)
                        \/ WriteTarget(k) \/ DropSaved(k) \/ DropUnsaved(k)
                        \/ \E p \in Profiles : PutNamed(p, k)
  \/ \E kind \in {"save", "discard"}, K \in Selections : Settle(kind, K)
  \/ \E p \in Profiles : Create(p) \/ Activate(p) \/ Delete(p) \/ DeleteFile(p) \/ DeleteEnds(p)
  \/ StepFails
  \/ Restart

Spec == Init /\ [][Next]_vars
-----------------------------------------------------------------------------
(***************************************************************************)
(* Properties.                                                             *)
(***************************************************************************)

\* The flash never holds more drafts of a profile than the table has room for, so that the
\* profile can always be loaded again with all of them (config.c: catalog, bosun_config_activate).
DraftsFit == \A p \in Profiles : Cardinality(Drafted(p)) <= DraftsMax

\* The table lists exactly the drafts on the flash, through failed and interrupted saves,
\* discards and removals, unless files of the active profile are being deleted or their deletion failed.
TableIsDrafts == active # NoProfile /\ "table" \notin behind => dirty = Drafted(active)

\* The pedal plays what GET_PATCH answers, unless the file was replaced under the name of
\* the profile, or the profile deleted.
PlayingIsStored == active # NoProfile /\ "playing" \notin behind => playing = Read(at)

Shown == [p \in Profiles |-> [k \in Patches |->
            IF drafts[p][k] # 0 THEN drafts[p][k] ELSE saved[p][k]]]
Serving == [kind |-> op.kind, profile |-> op.profile, keys |-> op.keys]

Promise == INSTANCE PatchStore WITH shown <- Shown, request <- Serving

\* The files on the flash keep the promise of PatchStore: no accepted edit and no saved patch
\* is lost or goes back to an older version because a step failed or the power was lost.
StoreIsKept == Promise!Spec
=============================================================================
