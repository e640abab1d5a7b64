--------------------------- MODULE EventsNetwork ---------------------------
(***************************************************************************)
(* The network event registry of libcperciva/events/events_network.c.      *)
(*                                                                         *)
(* The code keeps two arrays that point at each other: the socket list S,  *)
(* indexed by descriptor, and the array fds handed to poll(2), which is    *)
(* kept dense by moving its last entry into every hole.  The scan of       *)
(* events_network_get walks down fds while callbacks, run between two of   *)
(* its calls, register and cancel events and so reshuffle the array.       *)
(*                                                                         *)
(* The two structs are held as one function per field:                     *)
(*     S[i].reader, S[i].writer   S[i]["POLLIN"], S[i]["POLLOUT"]          *)
(*     S[i].pollpos               pollpos[i]  (SizeMax is (size_t)(-1))    *)
(*     fds[j].fd, .events, .revents   fd[j], events[j], revents[j]         *)
(* A bit mask is the set of its bits; POLLERR and POLLHUP, which the code  *)
(* tests only together, are the single bit "POLLHUP".  A record that       *)
(* growsocketlist has not created yet reads as the one it would create.    *)
(* A call that fails (EEXIST, ENOENT, no memory) leaves the state as it    *)
(* is: it is a stuttering step.                                            *)
(***************************************************************************)
EXTENDS Integers

CONSTANTS
    Fd,         \* socket descriptors
    Rec,        \* event records (struct eventrec *)
    NULL,       \* no record
    SizeMax,    \* SIZE_MAX, the value of (size_t)(-1)
    InitAlloc,  \* entries in the first allocation of fds (16 in the code)
    MaxAlloc    \* SIZE_MAX / sizeof(struct pollfd)

ASSUME NullAssumption == NULL \notin Rec

ASSUME SizeAssumption ==
    /\ SizeMax \in Nat
    /\ InitAlloc \in Nat \ {0}
    /\ MaxAlloc \in Nat
    /\ InitAlloc <= MaxAlloc
    /\ MaxAlloc < SizeMax

VARIABLES
    S,          \* S[i][op]: the record registered for descriptor i and op
    pollpos,    \* pollpos[i]: index in fds of descriptor i
    fd,         \* fd[j]: descriptor of the poll entry j
    events,     \* events[j]: bits polled for
    revents,    \* revents[j]: bits that are ready and not yet handed out
    nfds,       \* number of poll entries
    fds_alloc,  \* number of poll entries allocated
    fdscanpos,  \* position to which events_network_get has scanned
    stayed      \* history: descriptors polled by the last poll(2) that have
                \* been in fds ever since

netvars == <<S, pollpos, fd, events, revents, nfds, fds_alloc, fdscanpos,
             stayed>>

Op == {"POLLIN", "POLLOUT"}

PollBit == Op \cup {"POLLHUP"}

Entries == 0 .. nfds - 1

init ==
    /\ S = [i \in Fd |-> [op \in Op |-> NULL]]
    /\ pollpos = [i \in Fd |-> SizeMax]
    /\ nfds = 0
    /\ fd = [j \in {} |-> NULL]
    /\ events = [j \in {} |-> {}]
    /\ revents = [j \in {} |-> {}]
    /\ fds_alloc = 0
    /\ fdscanpos = 0
    /\ stayed = {}

-----------------------------------------------------------------------------
(* The field f of fds with one more entry, which holds x.                  *)
Appended(f, x) == [j \in 0 .. nfds |-> IF j = nfds THEN x ELSE f[j]]

(* Mutant: the new entry keeps the revents left in its slot.               *)
growpollfd_stale(i, op) ==
    /\ fds_alloc' = IF fds_alloc = nfds THEN MaxAlloc ELSE fds_alloc
    /\ fd' = Appended(fd, i)
    /\ events' = Appended(events, {op})
    /\ \E stale \in SUBSET {op} : revents' = Appended(revents, stale)
    /\ pollpos' = [pollpos EXCEPT ![i] = nfds]
    /\ nfds' = nfds + 1
    /\ UNCHANGED stayed

(* Append an entry for descriptor i, then (in the caller) set the bit op.  *)
growpollfd(i, op) ==
    LET new_fds_alloc == IF fds_alloc = 0 THEN InitAlloc ELSE 2 * fds_alloc
    IN  /\ \/ fds_alloc # nfds /\ UNCHANGED fds_alloc
           \/ /\ fds_alloc = nfds
              /\ new_fds_alloc <= MaxAlloc
              /\ fds_alloc' = new_fds_alloc
        /\ fd' = Appended(fd, i)
        /\ events' = Appended(events, {op})
        /\ revents' = Appended(revents, {})
        /\ pollpos' = [pollpos EXCEPT ![i] = nfds]
        /\ nfds' = nfds + 1
        /\ UNCHANGED stayed

events_network_register(i, op, r) ==
    /\ S[i][op] = NULL
    /\ S' = [S EXCEPT ![i][op] = r]
    /\ \/ pollpos[i] = SizeMax /\ growpollfd(i, op)
       \/ /\ pollpos[i] # SizeMax
          /\ events' = [events EXCEPT ![pollpos[i]] = @ \cup {op}]
          /\ UNCHANGED <<pollpos, fd, revents, nfds, fds_alloc, stayed>>
    /\ UNCHANGED fdscanpos

(* Mutant: the entry moved up keeps its old position.                      *)
Repointed_moved(p) == [pollpos EXCEPT ![fd[p]] = SizeMax]

(* pollpos once entry p is removed and the last entry has taken its place. *)
Repointed(p) ==
    [i \in Fd |-> IF i = fd[p] THEN SizeMax
                  ELSE IF i = fd[nfds - 1] THEN p
                  ELSE pollpos[i]]

(* revents without the bit op of entry p.                                  *)
Cleared(p, op, rev) == [rev EXCEPT ![p] = @ \ {op}]

(* Clear the bit op of entry p; rev is revents as the caller has left it.   *)
(* An entry whose mask becomes empty is overwritten by the last one.        *)
clearbit(p, op, rev) ==
    IF events[p] # {op}
    THEN /\ events' = [events EXCEPT ![p] = @ \ {op}]
         /\ revents' = Cleared(p, op, rev)
         /\ UNCHANGED <<pollpos, fd, nfds, stayed>>
    ELSE LET last == nfds - 1
             Src(j) == IF j = p THEN last ELSE j
         IN  /\ fd' = [j \in 0 .. nfds - 2 |-> fd[Src(j)]]
             /\ events' = [j \in 0 .. nfds - 2 |-> events[Src(j)]]
             /\ revents' = [j \in 0 .. nfds - 2 |-> rev[Src(j)]]
             /\ pollpos' = Repointed(p)
             /\ nfds' = nfds - 1
             /\ stayed' = stayed \ {fd[p]}

events_network_cancel(i, op) ==
    /\ S[i][op] # NULL
    /\ S' = [S EXCEPT ![i][op] = NULL]
    /\ clearbit(pollpos[i], op, revents)
    /\ UNCHANGED <<fds_alloc, fdscanpos>>

-----------------------------------------------------------------------------
(* poll(2), external: any subset of the requested bits, and POLLERR or     *)
(* POLLHUP unasked.                                                        *)
poll(ready) ==
    /\ ready \in [Entries -> SUBSET PollBit]
    /\ \A j \in Entries : ready[j] \subseteq events[j] \cup {"POLLHUP"}

(* Mutant: the scan position is not reset.                                 *)
events_network_select_noscan(ready, interrupted) ==
    /\ poll(ready)
    /\ \/ interrupted /\ UNCHANGED <<revents, stayed>>
       \/ /\ ~interrupted
          /\ revents' = ready
          /\ stayed' = {fd[j] : j \in Entries}
    /\ UNCHANGED <<S, pollpos, fd, events, nfds, fds_alloc, fdscanpos>>

(* One call: poll reports ready, or a signal cuts it short (EINTR with an  *)
(* interrupt requested) and the array keeps what it held.                  *)
events_network_select(ready, interrupted) ==
    /\ poll(ready)
    /\ \/ /\ interrupted
          /\ UNCHANGED <<revents, stayed>>
       \/ /\ ~interrupted
          /\ revents' = ready
          /\ stayed' = {fd[j] : j \in Entries}
    /\ fdscanpos' = IF nfds = 0 THEN SizeMax ELSE nfds - 1
    /\ UNCHANGED <<S, pollpos, fd, events, nfds, fds_alloc>>

(* What the scan makes of revents[j]: an error or a hang-up counts as      *)
(* every bit that is being polled for.                                     *)
Ready(j) ==
    IF "POLLHUP" \in revents[j]
    THEN (revents[j] \ {"POLLHUP"}) \cup events[j]
    ELSE revents[j]

(* revents after the scan has come down from fdscanpos to p.               *)
Scanned(p) ==
    [j \in Entries |-> IF j \in p .. fdscanpos THEN Ready(j) ELSE revents[j]]

(* The scan stops at entry p and hands out its record, reader first.       *)
events_network_get(p) ==
    /\ fdscanpos < nfds
    /\ p \in 0 .. fdscanpos
    /\ Ready(p) # {}
    /\ \A j \in p + 1 .. fdscanpos : Ready(j) = {}
    /\ LET op == IF "POLLIN" \in Ready(p) THEN "POLLIN" ELSE "POLLOUT"
       IN  /\ S' = [S EXCEPT ![fd[p]][op] = NULL]
           /\ clearbit(p, op, Scanned(p))
    /\ fdscanpos' = p
    /\ UNCHANGED fds_alloc

(* The scan finds nothing: fdscanpos runs down past 0 and wraps, unless it *)
(* was outside the array to begin with.                                    *)
events_network_get_none ==
    /\ fdscanpos < nfds => \A j \in 0 .. fdscanpos : Ready(j) = {}
    /\ fdscanpos' = IF fdscanpos < nfds THEN SizeMax ELSE fdscanpos
    /\ revents' = IF fdscanpos < nfds THEN Scanned(0) ELSE revents
    /\ UNCHANGED <<S, pollpos, fd, events, nfds, fds_alloc, stayed>>

(* Frees both arrays at exit if nothing is registered; init starts over.   *)
events_network_shutdown ==
    /\ nfds = 0
    /\ fds_alloc' = 0
    /\ fdscanpos' = 0
    /\ UNCHANGED <<S, pollpos, fd, events, revents, nfds, stayed>>

Next ==
    \/ \E i \in Fd, op \in Op, r \in Rec : events_network_register(i, op, r)
    \/ \E i \in Fd, op \in Op : events_network_cancel(i, op)
    \/ \E ready \in [Entries -> SUBSET PollBit], interrupted \in BOOLEAN :
          events_network_select(ready, interrupted)
    \/ \E p \in Entries : events_network_get(p)
    \/ events_network_get_none
    \/ events_network_shutdown

Spec == init /\ [][Next]_netvars

-----------------------------------------------------------------------------
(* Types; a position is either an index the allocation holds or (size_t)-1.*)
TypeOK ==
    /\ S \in [Fd -> [Op -> Rec \cup {NULL}]]
    /\ nfds \in 0 .. fds_alloc
    /\ fds_alloc \in 0 .. MaxAlloc
    /\ pollpos \in [Fd -> 0 .. SizeMax]
    /\ fd \in [Entries -> Fd]
    /\ events \in [Entries -> SUBSET Op]
    /\ revents \in [Entries -> SUBSET PollBit]
    /\ fdscanpos \in 0 .. SizeMax
    /\ stayed \subseteq Fd

(* Invariant 1 of events_network.c: the initialized entries of S and fds    *)
(* point at each other, whatever order entries were moved up in.            *)
PointersAgree ==
    /\ \A i \in Fd : pollpos[i] < nfds => fd[pollpos[i]] = i
    /\ \A j \in Entries : pollpos[fd[j]] = j

(* Invariants 2 and 3: a descriptor has a poll entry exactly while an event *)
(* is registered for it.                                                    *)
PolledIffRegistered ==
    \A i \in Fd :
        IF \E op \in Op : S[i][op] # NULL
        THEN pollpos[i] < nfds
        ELSE pollpos[i] = SizeMax

(* Invariant 4: poll(2) is asked for exactly the bits that have a record.   *)
MasksMatch ==
    \A i \in Fd : pollpos[i] < nfds =>
        \A op \in Op : S[i][op] # NULL <=> op \in events[pollpos[i]]

(* Invariant 5: no bit is ready that nobody wants, so events_network_get    *)
(* never hands out a NULL record.                                           *)
NoUnwantedReady ==
    \A j \in Entries : (revents[j] \cap Op) \subseteq events[j]

(* The documented invariants 1 to 5 together: the two arrays agree with     *)
(* each other and with what is registered, whatever order events are        *)
(* registered, cancelled and handed out in.                                 *)
RegistryAgrees ==
    PointersAgree /\ PolledIffRegistered /\ MasksMatch /\ NoUnwantedReady

(* Invariant 6 as the scan needs it: an entry that is still ready is at or  *)
(* below fdscanpos, so a scan that came to its end (fdscanpos wrapped to    *)
(* SIZE_MAX) has missed nothing, although entries moved under it.  (The     *)
(* comment in the code has a strict inequality, which the last entry does   *)
(* not satisfy when a scan starts at it.)                                   *)
ReadyNotPassed ==
    \A j \in Entries :
        revents[j] # {} => j <= fdscanpos /\ fdscanpos < SizeMax

(* Readiness is never inherited: an entry is ready only if its descriptor   *)
(* was polled and has been registered without a gap since, so a descriptor  *)
(* that was cancelled, closed and reused does not see its predecessor's     *)
(* events.                                                                  *)
NoInheritedReadiness ==
    \A j \in Entries : revents[j] # {} => fd[j] \in stayed

(* The two together: a scan hands out what is ready, all of it, and only to *)
(* the descriptor that was found ready.                                     *)
ReadinessIsRight == ReadyNotPassed /\ NoInheritedReadiness

(* What the comment at the head of events_network.c promises of the         *)
(* registry, and what the scan over it needs.                               *)
RegistryIsSound == RegistryAgrees /\ ReadinessIsRight
=============================================================================
