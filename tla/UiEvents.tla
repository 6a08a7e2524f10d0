------------------------------ MODULE UiEvents ------------------------------
(***************************************************************************)
(* The events by which the Captain tells a client what it did not ask for: *)
(* a foot, the Kemper and the autosave change the configuration between    *)
(* requests, and other clients behind the same hub by theirs.  protocol.c  *)
(* compares the configuration with what it saw last, keeps what it still   *)
(* has to tell as bits, and sends an event when no answer is under way.    *)
(*                                                                         *)
(* A client is told as soon as a line is complete: lines are sent in order *)
(* and none is lost within a session.                                      *)
(***************************************************************************)
EXTENDS Integers, FiniteSets

CONSTANTS
  Locations,       \* a bank and a slot each
  FirstLocation,   \* where a profile starts
  MaxChanges       \* bound on changes of the configuration

ASSUME UiAssumption ==
  FirstLocation \in Locations /\ IsFiniteSet(Locations) /\ MaxChanges \in Nat

VARIABLES
  conf,     \* bosun_config_t: profile, drafts, position, and its two counters
  ui,       \* what bosun_protocol_t remembers of it and has to tell
  linked,   \* a session is open
  sending,  \* the output is taken by an answer or an event
  changes,  \* number of changes
  \* history
  edition,  \* of what is played: the number of the change that made it so
  last,     \* how a location's last draft of the session ended, in this profile
  client    \* what a client that reads and listens has been told; {} is nothing

uiVars == <<conf, ui, linked, sending, changes, edition, last, client>>

ProfileNames == {"", "a", "b"}       \* "": none is loaded
Endings == {"none", "saved", "discarded"}
EventKinds == {"global", "patch", "saved", "discarded", "dirty"}

UiTypeOK ==
  /\ conf \in [profile : ProfileNames, at : Locations, drafts : SUBSET Locations,
               revision : Nat, patch : Nat]
  /\ ui \in [observed : BOOLEAN, profile : ProfileNames, at : Locations, drafts : SUBSET Locations,
             revision : Nat, patch : Nat, events : SUBSET EventKinds,
             saved : SUBSET Locations, discarded : SUBSET Locations, fired : SUBSET (0..MaxChanges)]
  /\ linked \in BOOLEAN /\ sending \in BOOLEAN
  /\ changes \in 0..MaxChanges /\ edition \in 0..MaxChanges
  /\ last \in [Locations -> Endings]
  /\ client \in [at : SUBSET Locations, edition : SUBSET (0..MaxChanges),
                 drafts : SUBSET SUBSET Locations, ending : [Locations -> Endings]]

NoEnding == [l \in Locations |-> "none"]
Stranger == [at |-> {}, edition |-> {}, drafts |-> {}, ending |-> NoEnding]

\* The drafts a profile has on the flash when it is loaded.
Loaded(name, drafts, revision, patch) ==
  [profile |-> name, at |-> FirstLocation, drafts |-> drafts, revision |-> revision, patch |-> patch]
NotLoaded == Loaded("", {}, 0, 0)
-----------------------------------------------------------------------------
(* What protocol.c sees and keeps.                                         *)

\* observe_changes: what changed since the last look becomes events to send.
Observe(u, c, discarded) ==
  LET moved == u.profile # c.profile
      removed == IF moved THEN {} ELSE u.drafts \ c.drafts
      replayed == moved \/ u.patch # c.patch \/ u.at # c.at
      told == IF moved THEN {"global", "dirty"}
              ELSE u.events \cup (IF removed = {} THEN {} ELSE IF discarded THEN {"discarded"} ELSE {"saved"})
                            \cup (IF u.drafts = c.drafts THEN {} ELSE {"dirty"})
      seen == [u EXCEPT !.observed = TRUE, !.profile = c.profile, !.at = c.at, !.drafts = c.drafts,
                        !.revision = c.revision, !.patch = c.patch]
  IN IF ~u.observed THEN seen
     ELSE IF u.revision = c.revision THEN u
     ELSE [seen EXCEPT
             !.events = told \cup (IF replayed THEN {"patch"} ELSE {}),
             !.saved = IF moved THEN {} ELSE IF discarded THEN @ \ removed ELSE @ \cup removed,
             !.discarded = IF moved THEN {} ELSE IF discarded THEN @ \cup removed ELSE @ \ removed,
             !.fired = IF replayed THEN {} ELSE @]

\* bosun_protocol_session, at the end of a session and at the start of one.
Forgotten(u, c) ==
  Observe([u EXCEPT !.observed = FALSE, !.events = {}, !.saved = {}, !.discarded = {}, !.fired = {}],
          c, FALSE)

UiInit ==
  /\ conf \in {NotLoaded, Loaded("a", {FirstLocation}, 1, 1)}
  /\ ui = [observed |-> FALSE, profile |-> "", at |-> FirstLocation, drafts |-> {}, revision |-> 0,
           patch |-> 0, events |-> {}, saved |-> {}, discarded |-> {}, fired |-> {}]
  /\ linked = FALSE /\ sending = FALSE
  /\ changes = 0 /\ edition = 0
  /\ last = NoEnding
  /\ client = Stranger
-----------------------------------------------------------------------------
(* Changes of the configuration, by what they leave of it.  A record       *)
(* [conf, replays, ended, how] says also whether another patch, or other   *)
(* contents of it, is played, and which drafts ended how.                  *)

Plain(c, replays) == [conf |-> c, replays |-> replays, ended |-> {}, how |-> "none"]

Here(done) == IF conf.at \in done THEN 1 ELSE 0

\* c has changed n times, and k times what it plays.
Advanced(c, n, k) == [c EXCEPT !.revision = @ + n, !.patch = @ + k]

\* bosun_config_select_checked.
Selected(l) == Plain([Advanced(conf, 1, 1) EXCEPT !.at = l], TRUE)

\* bosun_config_put_patch, on its own or for a binding.
Edited(l) == Plain([Advanced(conf, 1, Here({l})) EXCEPT !.drafts = @ \cup {l}], l = conf.at)

\* bosun_config_save settles drafts one by one, and may stop at one that fails.
Settled(done, how) ==
  LET here == IF how = "discarded" THEN Here(done) ELSE 0
  IN [conf |-> [Advanced(conf, Cardinality(done), here) EXCEPT !.drafts = @ \ done],
      replays |-> here > 0, ended |-> done, how |-> how]

\* bosun_config_remove_patch discards the draft first; the file is gone already.
Removed(l) ==
  LET ended == {l} \cap conf.drafts
  IN [conf |-> [Advanced(conf, 1 + Cardinality(ended), Here({l}) + Here(ended)) EXCEPT !.drafts = @ \ ended],
      replays |-> l = conf.at, ended |-> ended, how |-> "discarded"]

\* bosun_config_activate.  Only its own profile is known to have the drafts of now.
Activated(name, drafts) == Plain(Loaded(name, drafts, conf.revision + 1, conf.patch + 1), TRUE)

\* bosun_config_put_device.
Reconfigured == Plain(Advanced(conf, 1, 0), FALSE)

\* The change x of the configuration, and what history knows of it.
Becomes(x) ==
  /\ changes < MaxChanges
  /\ conf' = x.conf
  /\ changes' = changes + 1
  /\ edition' = IF x.replays THEN changes' ELSE edition
  /\ last' = IF x.conf.profile # conf.profile THEN NoEnding
             ELSE [l \in Locations |-> IF l \in x.ended THEN x.how ELSE last[l]]
-----------------------------------------------------------------------------
(* Between two requests.                                                   *)

\* A foot or the Kemper selects a patch: bosun_runtime_switch_patch.
SelectedByFoot ==
  /\ conf.profile # ""
  /\ \E l \in Locations : Becomes(Selected(l))
  /\ UNCHANGED <<ui, linked, sending, client>>

SavedByItself ==
  /\ \E l \in conf.drafts : Becomes(Settled({l}, "saved"))
  /\ UNCHANGED <<ui, linked, sending, client>>

\* A binding of the patch that is played was admitted: binding_fired.
Fired(u) == [u EXCEPT !.fired = {edition}]

BindingFires ==
  /\ linked /\ conf.profile # ""
  /\ ui' = Fired(Observe(ui, conf, FALSE))
  /\ UNCHANGED <<conf, linked, sending, changes, edition, last, client>>

\* A session ends or begins.
SessionChanges ==
  /\ linked' = ~linked
  /\ ui' = Forgotten(ui, conf)
  /\ sending' = FALSE
  /\ last' = NoEnding
  /\ client' = Stranger
  /\ UNCHANGED <<conf, changes, edition>>

OutputSent ==
  /\ sending /\ sending' = FALSE
  /\ UNCHANGED <<conf, ui, linked, changes, edition, last, client>>
-----------------------------------------------------------------------------
(* A request: handle() looks at the start and at the end.                  *)

NotBefore(u) == u
Before(u) == Observe(u, conf, FALSE)

Served == linked /\ ~sending /\ sending' = TRUE /\ UNCHANGED linked

\* The request x, one of DISCARD and DELETE_PATCH or another.
Requested(x, discards) ==
  /\ Served
  /\ Becomes(x)
  /\ ui' = Observe(Before(ui), x.conf, discards)
  /\ UNCHANGED client

EditRequest == \E l \in Locations : Requested(Edited(l), FALSE)
SelectRequest == \E l \in Locations : Requested(Selected(l), FALSE)
SaveRequest == \E done \in (SUBSET conf.drafts) \ {{}} : Requested(Settled(done, "saved"), FALSE)
DiscardRequest == \E done \in (SUBSET conf.drafts) \ {{}} : Requested(Settled(done, "discarded"), TRUE)
RemoveRequest == \E l \in Locations : Requested(Removed(l), TRUE)

PutGlobal ==
  /\ Served
  /\ Becomes(Reconfigured)
  /\ ui' = LET u == Before(ui)
           IN Observe([u EXCEPT !.events = @ \cup {"global"}], conf', FALSE)
  /\ UNCHANGED client

OnProfile ==
  /\ conf.profile # ""
  /\ EditRequest \/ SelectRequest \/ SaveRequest \/ DiscardRequest \/ RemoveRequest \/ PutGlobal

SwitchProfile ==
  \E name \in ProfileNames \ {""}, drafts \in SUBSET Locations :
    /\ name = conf.profile => drafts = conf.drafts
    /\ Requested(Activated(name, drafts), FALSE)

\* The counters start again.
DeleteProfile == conf.profile # "" /\ Requested(Plain(NotLoaded, TRUE), FALSE)

\* A request that changes nothing, or is refused; what it reads the client knows.
Reads ==
  /\ Served
  /\ ui' = Before(ui)
  /\ client' \in {client, [client EXCEPT !.drafts = {conf.drafts}, !.at = {conf.at}, !.edition = {edition}]}
  /\ UNCHANGED <<conf, changes, edition, last>>
-----------------------------------------------------------------------------
(* bosun_protocol_tick and emit_ui_event.                                  *)

Told(u, kind) == [u EXCEPT !.events = @ \ {kind}]

\* In this order; a binding when there is nothing else.
Emitted(u) ==
  IF "global" \in u.events THEN <<Told(u, "global"), client>>
  ELSE IF "patch" \in u.events THEN
    <<Told(u, "patch"), [client EXCEPT !.at = {conf.at}, !.edition = {}]>>
  ELSE IF "saved" \in u.events THEN
    <<[Told(u, "saved") EXCEPT !.saved = {}],
      [client EXCEPT !.ending = [l \in Locations |-> IF l \in u.saved THEN "saved" ELSE @[l]]]>>
  ELSE IF "discarded" \in u.events THEN
    <<[Told(u, "discarded") EXCEPT !.discarded = {}],
      [client EXCEPT !.ending = [l \in Locations |-> IF l \in u.discarded THEN "discarded" ELSE @[l]]]>>
  ELSE IF "dirty" \in u.events THEN
    <<Told(u, "dirty"), [client EXCEPT !.drafts = {conf.drafts}]>>
  ELSE <<[u EXCEPT !.fired = {}], client>>

ProtocolTick ==
  /\ linked
  /\ LET u == Observe(ui, conf, FALSE)
     IN IF sending \/ (u.events = {} /\ u.fired = {})
        THEN ui' = u /\ UNCHANGED <<sending, client>>
        ELSE ui' = Emitted(u)[1] /\ client' = Emitted(u)[2] /\ sending' = TRUE
  /\ UNCHANGED <<conf, linked, changes, edition, last>>

\* One tick of the application does them in one order, but each may have nothing to do.
UiNext ==
  \/ SelectedByFoot \/ SavedByItself \/ BindingFires \/ SessionChanges \/ OutputSent
  \/ OnProfile \/ SwitchProfile \/ DeleteProfile \/ Reads
  \/ ProtocolTick

UiSpec == UiInit /\ [][UiNext]_uiVars
-----------------------------------------------------------------------------
(***************************************************************************)
(* Properties.                                                             *)
(***************************************************************************)

Seen == linked /\ ui.revision = conf.revision

\* What is still to be told is true of the last draft of each location, however often it
\* was saved, edited again and discarded, and no binding is told of a patch that is no
\* longer played (protocol.c:165-187).
PendingIsTrue ==
  Seen => /\ \A l \in ui.saved : last[l] = "saved"
          /\ \A l \in ui.discarded : last[l] = "discarded"
          /\ ui.fired \subseteq {edition}

\* A client that was told everything knows the position, the drafts, the contents it has
\* read, and how every draft ended, unless it was told to read again.
ClientKnows ==
  Seen /\ ui.events = {} =>
    /\ client.at \subseteq {conf.at} /\ client.edition \subseteq {edition}
    /\ client.drafts \subseteq {conf.drafts}
    /\ \A l \in Locations : last[l] # "none" => client.ending[l] = last[l]

EventsTell == UiTypeOK /\ PendingIsTrue /\ ClientKnows
=============================================================================
