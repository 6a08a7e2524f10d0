---------------------------- MODULE DeviceSnapshot ----------------------------
(***************************************************************************)
(* How the installer reads the configuration of the Captain: one request   *)
(* after the other over the data port, each with an id of its own, on a    *)
(* stream that also carries events and answers to requests given up.  The  *)
(* list of the patches comes in pages.                                     *)
(*                                                                         *)
(* A line is two fragments of bytes, the last of which ends it.  There is  *)
(* one profile, and a patch is its place in it.  The Captain may change    *)
(* between two requests: nothing here relies on being alone.               *)
(***************************************************************************)
EXTENDS Naturals, Sequences, SequencesExt

CONSTANTS Catalogs,     \* the lists of patches there may be, by their places
          First,        \* the one there is at first
          PageSize,     \* what a page holds
          MaxChanges,   \* bound on the changes of the configuration
          MaxTraffic    \* bound on the snapshots taken and the events sent, together

ASSUME SnapshotAssumption ==
  /\ Catalogs \subseteq Seq(Nat) /\ First \in Catalogs /\ PageSize \in Nat \ {0}
  /\ {MaxChanges, MaxTraffic} \subseteq Nat

VARIABLES
  \* the Captain
  paged,     \* it sends the list in pages
  patches,   \* its patches
  dirty,     \* it has edits that are not saved
  profiles,  \* the version of its list of profiles
  revision,  \* catalog_revision
  was,       \* history: every list of patches since the snapshot began
  todo,      \* requests it has not answered
  wire,      \* what it has sent
  events,    \* events sent so far
  \* the installer
  sessions,  \* snapshots begun so far
  request,   \* the request it is at, or the result
  asked,     \* it waits for the answer
  pending,   \* _ProtocolClient._pending
  listed,    \* the list of profiles it has read
  read,      \* the patches listed so far
  page,      \* revision and total of the first page
  fetched,   \* how many of them it has got
  malformed  \* a line that could not be read has ended it

captainVars  == <<paged, patches, dirty, profiles, revision, was, todo, wire, events>>
configVars   == <<paged, patches, dirty, profiles, revision, was>>
resultVars   == <<listed, read, page, fetched, malformed>>
snapshotVars == <<captainVars, sessions, request, asked, pending, resultVars>>
-----------------------------------------------------------------------------
Requests == {"ping", "info", "dirty", "list", "global", "page", "patch", "list again", "dirty again"}
Results  == {"idle", "done", "failed"}

Fragment(x, last) == [of |-> x, last |-> last]
Bytes(x) == <<Fragment(x, FALSE), Fragment(x, TRUE)>>

\* The id of a request, random in the code, tells it from every other.
Id == <<sessions, request, Len(read), fetched>>
NoPage == [revision |-> 0, total |-> 0]

SnapshotInit ==
  /\ paged \in BOOLEAN /\ patches = First /\ dirty = FALSE /\ profiles = 0 /\ revision = 0
  /\ was = {First} /\ todo = <<>> /\ wire = <<>> /\ events = 0
  /\ sessions = 0 /\ request = "idle" /\ asked = FALSE /\ pending = <<>>
  /\ listed = 0 /\ read = <<>> /\ page = NoPage /\ fetched = 0 /\ malformed = FALSE
-----------------------------------------------------------------------------
(***************************************************************************)
(* The Captain.                                                            *)
(***************************************************************************)
\* LIST_PATCHES: what follows the patches the installer has, at most a page.
PageFrom(offset) ==
  LET end == IF paged /\ offset + PageSize < Len(patches) THEN offset + PageSize ELSE Len(patches)
  IN [patches |-> SubSeq(patches, offset + 1, end), revision |-> revision, total |-> Len(patches),
      next |-> IF end < Len(patches) THEN end ELSE 0]

Answer(id) ==
  CASE id[2] \in {"dirty", "dirty again"} -> dirty
    [] id[2] \in {"list", "list again"}   -> profiles
    [] id[2] = "page"                     -> PageFrom(id[3])
    [] id[2] = "patch"                    -> ToSet(patches)
    [] OTHER                              -> "ok"

Answers ==
  /\ todo # <<>>
  /\ wire' = wire \o Bytes([id |-> Head(todo), body |-> Answer(Head(todo))])
  /\ todo' = Tail(todo)
  /\ UNCHANGED <<configVars, events, sessions, request, asked, pending, resultVars>>

Event ==
  /\ sessions + events < MaxTraffic /\ events' = events + 1
  /\ wire' = wire \o Bytes([id |-> <<>>, body |-> events])
  /\ UNCHANGED <<configVars, todo, sessions, request, asked, pending, resultVars>>

\* Patches come and go, the profiles change, or a patch is edited.
Change ==
  /\ revision < MaxChanges /\ revision' = revision + 1
  /\ \/ /\ patches' \in Catalogs \ {patches} /\ was' = was \cup {patches'}
        /\ UNCHANGED <<profiles, dirty>>
     \/ profiles' = profiles + 1 /\ UNCHANGED <<patches, dirty, was>>
     \/ ~dirty /\ dirty' = TRUE /\ UNCHANGED <<patches, profiles, was>>
  /\ UNCHANGED <<paged, todo, wire, events, sessions, request, asked, pending, resultVars>>

Saved ==
  /\ dirty /\ dirty' = FALSE
  /\ UNCHANGED <<paged, patches, profiles, revision, was, todo, wire, events, sessions, request,
                 asked, pending, resultVars>>
-----------------------------------------------------------------------------
(***************************************************************************)
(* The data port.                                                          *)
(***************************************************************************)
\* The port is opened and its input dropped, a line cut anywhere.
Open ==
  /\ request \in Results /\ sessions + events < MaxTraffic
  /\ sessions' = sessions + 1 /\ request' = "ping" /\ asked' = FALSE
  /\ pending' = <<>>
  /\ \E n \in 0 .. Len(wire) : wire' = SubSeq(wire, n + 1, Len(wire))
  /\ was' = {patches}
  /\ read' = <<>> /\ page' = NoPage /\ fetched' = 0 /\ malformed' = FALSE
  /\ UNCHANGED <<paged, patches, dirty, profiles, revision, todo, events, listed>>

Ask ==
  /\ request \in Requests /\ ~asked
  /\ asked' = TRUE /\ todo' = Append(todo, Id)
  /\ UNCHANGED <<configVars, wire, events, sessions, request, pending, resultVars>>

Lines(b) == {i \in 1 .. Len(b) : b[i].last}

\* A read returns any part of what has come.
Receive ==
  /\ asked /\ Lines(pending) = {}
  /\ \E n \in 1 .. Len(wire) :
        /\ pending' = pending \o SubSeq(wire, 1, n)
        /\ wire' = SubSeq(wire, n + 1, Len(wire))
  /\ UNCHANGED <<configVars, todo, events, sessions, request, asked, resultVars>>

LineEnd == CHOOSE n \in Lines(pending) : \A i \in Lines(pending) : n <= i
Message == pending[LineEnd].of
Whole == LineEnd = 2 /\ pending[1] = Fragment(Message, FALSE)

\* What follows a line in the same read is kept.
Remainder == SubSeq(pending, LineEnd + 1, Len(pending))

Fails == request' = "failed" /\ asked' = FALSE

\* A line that is no answer to this request, or the end of one while the
\* stream is still being found.
Skip ==
  /\ asked /\ Lines(pending) # {}
  /\ IF Whole THEN Message.id # Id ELSE request = "ping"
  /\ pending' = Remainder
  /\ UNCHANGED <<captainVars, sessions, request, asked, resultVars>>

Malformed ==
  /\ asked /\ Lines(pending) # {}
  /\ ~Whole /\ request # "ping"
  /\ Fails /\ malformed' = TRUE
  /\ UNCHANGED <<captainVars, sessions, pending, listed, read, page, fetched>>

\* No answer for 15 seconds, or the port is gone.
GiveUp ==
  /\ request \in Requests
  /\ Fails
  /\ UNCHANGED <<captainVars, sessions, pending, resultVars>>
-----------------------------------------------------------------------------
(***************************************************************************)
(* LinuxInstallIO.snapshot, answer by answer.                              *)
(***************************************************************************)
Answered(s) ==
  /\ asked /\ request = s /\ Lines(pending) # {} /\ Whole /\ Message.id = Id
  /\ pending' = Remainder
GoOn(s) == request' = s /\ asked' = FALSE

Found ==
  \E s \in {"ping", "info", "global"} :
     /\ Answered(s)
     /\ GoOn(CASE s = "ping" -> "info" [] s = "info" -> "dirty" [] s = "global" -> "page")
     /\ UNCHANGED <<captainVars, sessions, resultVars>>

\* The changed firmware, which would be refused, is not modelled.
NotDirty ==
  \E s \in {"dirty", "dirty again"} :
     /\ Answered(s)
     /\ IF Message.body THEN Fails ELSE GoOn(IF s = "dirty" THEN "list" ELSE "done")
     /\ UNCHANGED <<captainVars, sessions, resultVars>>

Listed ==
  /\ Answered("list")
  /\ listed' = Message.body
  /\ GoOn("global")
  /\ UNCHANGED <<captainVars, sessions, read, page, fetched, malformed>>

Got(p) == read' = read \o p.patches
Complete == GoOn(IF read' = <<>> THEN "list again" ELSE "patch")

\* Mutant: pages are only counted.
PageCounted ==
  /\ Answered("page") /\ paged
  /\ LET p == Message.body
     IN /\ page' = IF read = <<>> THEN [revision |-> p.revision, total |-> p.total] ELSE page
        /\ Got(p)
        /\ IF p.total # page'.total THEN Fails
           ELSE IF p.next = 0 THEN Complete ELSE GoOn("page")
  /\ UNCHANGED <<captainVars, sessions, listed, fetched, malformed>>

\* _patch_inventory: the pages have one revision and one total, and nothing is
\* missing or left over.
Page ==
  /\ Answered("page") /\ paged
  /\ LET p == Message.body
         n == Len(read) + Len(p.patches)
     IN /\ page' = IF read = <<>> THEN [revision |-> p.revision, total |-> p.total] ELSE page
        /\ Got(p)
        /\ IF p.revision # page'.revision \/ p.total # page'.total \/ n > p.total THEN Fails
           ELSE IF p.next = 0 /\ n = p.total THEN Complete
           ELSE IF p.patches = <<>> \/ n >= p.total \/ p.next # n THEN Fails
           ELSE GoOn("page")
  /\ UNCHANGED <<captainVars, sessions, listed, fetched, malformed>>

\* A firmware that does not page sends it all.
WholeList ==
  /\ Answered("page") /\ ~paged
  /\ Got(Message.body) /\ Complete
  /\ UNCHANGED <<captainVars, sessions, listed, page, fetched, malformed>>

\* A patch that is gone, or listed twice, fails.
GotPatch ==
  /\ Answered("patch")
  /\ IF \/ read[fetched + 1] \notin Message.body
        \/ read[fetched + 1] \in {read[i] : i \in 1 .. fetched}
     THEN Fails /\ UNCHANGED fetched
     ELSE /\ fetched' = fetched + 1
          /\ GoOn(IF fetched' = Len(read) THEN "list again" ELSE "patch")
  /\ UNCHANGED <<captainVars, sessions, listed, read, page, malformed>>

ListedAgain ==
  /\ Answered("list again")
  /\ IF Message.body = listed THEN GoOn("dirty again") ELSE Fails
  /\ UNCHANGED <<captainVars, sessions, resultVars>>

Progress ==
  \/ Found \/ NotDirty \/ Listed \/ Page \/ WholeList \/ GotPatch \/ ListedAgain

SnapshotNext ==
  \/ Answers \/ Event \/ Change \/ Saved
  \/ Open \/ Ask \/ Receive \/ Skip \/ Malformed \/ GiveUp \/ Progress

SnapshotSpec == SnapshotInit /\ [][SnapshotNext]_snapshotVars

SnapshotTypeOK ==
  /\ {paged, dirty, asked, malformed} \subseteq BOOLEAN
  /\ patches \in Catalogs /\ was \subseteq Catalogs
  /\ profiles \in 0 .. MaxChanges /\ revision \in 0 .. MaxChanges /\ listed \in 0 .. MaxChanges
  /\ {events, sessions} \subseteq 0 .. MaxTraffic
  /\ request \in Requests \cup Results
  /\ asked => request \in Requests
  /\ read \in Seq(Nat) /\ fetched \in 0 .. Len(read)
  /\ page \in [revision : 0 .. MaxChanges, total : Nat]
  /\ Len(todo) <= sessions
-----------------------------------------------------------------------------
\* A snapshot that is taken lists the patches as they were at one moment since
\* it began, every one once and each one read, however the Captain changes
\* between two pages ("Never back up a partial or mixed-revision catalog",
\* firmware_install.py:37); and once a first answer is found in the stream, no
\* line of a Captain that sends whole lines is taken for a broken one
\* (firmware_install.py:376-378).
SnapshotWhole ==
  /\ request = "done" => read \in was /\ IsInjective(read) /\ fetched = Len(read)
  /\ ~malformed
=============================================================================
