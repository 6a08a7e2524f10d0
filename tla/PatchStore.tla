----------------------------- MODULE PatchStore -----------------------------
(***************************************************************************)
(* What the pedal promises of the patches in its profiles.  Each patch has *)
(* a saved version and the version that is shown, which differs from it    *)
(* while there is an unsaved edit.  Only a request changes either: there   *)
(* is no table of drafts, no file that is half done, and neither a loss of *)
(* power nor a write that fails changes anything that was accepted.        *)
(***************************************************************************)
EXTENDS Naturals

CONSTANTS Profiles,    \* the profiles
          Patches,     \* (bank, slot)
          NoProfile    \* no profile

VARIABLES shown,       \* the version of each patch of each profile; 0 is no patch
          saved,       \* its saved version
          edits,       \* the versions numbered so far
          request      \* the request being served that takes more than one step

promised == <<shown, saved, edits, request>>

NoRequest == [kind |-> "none", profile |-> NoProfile, keys |-> {}]

Serving(kind, p, k) == request.kind = kind /\ request.profile = p /\ k \in request.keys

Init == /\ shown = [p \in Profiles |-> [k \in Patches |-> 0]]
        /\ saved = shown
        /\ edits = 0
        /\ request = NoRequest

\* One patch has new versions; a request may be over with it.
Becomes(p, k, s, f) ==
  /\ saved' = [saved EXCEPT ![p][k] = f]
  /\ shown' = [shown EXCEPT ![p][k] = s]
SameVersions == UNCHANGED <<saved, shown>>
MayBeOver == request' \in {request, NoRequest}

Accept == /\ request = NoRequest
          /\ request' \in [kind : {"save", "discard", "delete"}, profile : Profiles,
                           keys : SUBSET Patches]
          /\ UNCHANGED edits
          /\ SameVersions

\* Served, given up after an error, or forgotten with the power.
Over == request' = NoRequest /\ UNCHANGED edits /\ SameVersions

Edit(p, k) == /\ request = NoRequest
              /\ edits' = edits + 1
              /\ Becomes(p, k, edits + 1, saved[p][k])
              /\ UNCHANGED request

\* A version saved under the profile's name; an unsaved edit stays in front of it.
SaveAs(p, k) == /\ request = NoRequest
                /\ edits' = edits + 1
                /\ \E s \in {shown[p][k], edits + 1} : Becomes(p, k, s, edits + 1)
                /\ UNCHANGED request

Save(p, k) == /\ Serving("save", p, k)
              /\ Becomes(p, k, shown[p][k], shown[p][k])
              /\ UNCHANGED edits
              /\ MayBeOver

Discard(p, k) == /\ \E kind \in {"discard", "remove", "delete"} : Serving(kind, p, k)
                 /\ Becomes(p, k, saved[p][k], saved[p][k])
                 /\ UNCHANGED edits
                 /\ MayBeOver

Erased(p, k) == /\ \E s \in {shown[p][k], 0} : Becomes(p, k, s, 0)
                /\ UNCHANGED edits

Remove(p, k) == /\ request = NoRequest
                /\ Erased(p, k)
                /\ request' \in {NoRequest, [kind |-> "remove", profile |-> p, keys |-> {k}]}

Delete(p, k) == /\ Serving("delete", p, k)
                /\ Erased(p, k)
                /\ MayBeOver

Next == \/ Over
        \/ Accept
        \/ \E p \in Profiles, k \in Patches :
             Edit(p, k) \/ SaveAs(p, k) \/ Save(p, k) \/ Discard(p, k) \/ Remove(p, k) \/ Delete(p, k)

Spec == Init /\ [][Next]_promised
=============================================================================
