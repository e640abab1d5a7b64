--------------------------- MODULE NetworkProofs ---------------------------
(***************************************************************************)
(* The invariants listed in events_network.c hold for every number of      *)
(* descriptors.  They are inductive only together: moving the last poll    *)
(* entry into a hole keeps the masks right because the pointers agree, and *)
(* keeps the scan right because every entry above fdscanpos is idle.       *)
(*                                                                         *)
(* The buffered reader above it keeps its promises for every size of its   *)
(* buffer, every length waited for and every stream.  Holds says where the *)
(* data lies: the buffer, consumed part included, is a piece of the stream *)
(* that ends where the bytes of the read in progress begin, and those end  *)
(* where the stream has been taken to.  Moving the data or giving it a     *)
(* larger buffer changes how much of the consumed part is kept, and        *)
(* nothing else (MovedFacts).                                              *)
(***************************************************************************)
EXTENDS EventsNetwork, NetbufReader, SequenceTheorems, TLAPS

(* The inductive invariant: the conjunction of the module's invariants.     *)
Inv ==
    /\ TypeOK
    /\ PointersAgree
    /\ PolledIffRegistered
    /\ MasksMatch
    /\ NoUnwantedReady
    /\ ReadyNotPassed
    /\ NoInheritedReadiness

(* The part of Inv that does not speak of the position of the scan.         *)
RegistryInv ==
    /\ TypeOK
    /\ PointersAgree
    /\ PolledIffRegistered
    /\ MasksMatch

(* A poll entry is never kept for an empty mask (clearbit removes it).      *)
LEMMA EntriesWanted ==
    ASSUME RegistryInv
    PROVE  \A j \in Entries : events[j] # {}
<1> SUFFICES ASSUME NEW j \in Entries
             PROVE  events[j] # {}
    OBVIOUS
<1>1. /\ fd[j] \in Fd
      /\ pollpos[fd[j]] = j
      /\ nfds \in Nat /\ nfds < SizeMax
      /\ j < nfds
    BY SizeAssumption DEF RegistryInv, TypeOK, PointersAgree, Entries
<1>2. j # SizeMax
    BY <1>1, SizeAssumption DEF Entries
<1>3. \E op \in Op : S[fd[j]][op] # NULL
    BY <1>1, <1>2 DEF RegistryInv, PolledIffRegistered
<1> QED
    BY <1>1, <1>3 DEF RegistryInv, MasksMatch

(* Initially nothing is registered and the poll array is empty (init).      *)
LEMMA InitInv == init => Inv
<1> SUFFICES ASSUME init
             PROVE  Inv
    OBVIOUS
<1> USE SizeAssumption DEF init, Entries
<1>0. Entries = {}
    OBVIOUS
<1>1. TypeOK
    <2>1. S \in [Fd -> [Op -> Rec \cup {NULL}]]
        OBVIOUS
    <2>2. fd \in [Entries -> Fd] /\ events \in [Entries -> SUBSET Op]
                                 /\ revents \in [Entries -> SUBSET PollBit]
        BY <1>0
    <2> QED
        BY <2>1, <2>2 DEF TypeOK
<1>2. PointersAgree /\ PolledIffRegistered /\ MasksMatch
    BY <1>0 DEF PointersAgree, PolledIffRegistered, MasksMatch
<1>3. NoUnwantedReady /\ ReadyNotPassed /\ NoInheritedReadiness
    BY <1>0 DEF NoUnwantedReady, ReadyNotPassed, NoInheritedReadiness
<1> QED
    BY <1>1, <1>2, <1>3 DEF Inv

-----------------------------------------------------------------------------
(* Registering an event keeps every invariant: a new entry is appended idle *)
(* at the end (growpollfd), an old one only gains a wanted bit.             *)
LEMMA RegisterInv ==
    ASSUME Inv, NEW i \in Fd, NEW op \in Op, NEW r \in Rec,
           events_network_register(i, op, r)
    PROVE  Inv'
<1> USE SizeAssumption, NullAssumption DEF Entries
<1>0. /\ TypeOK /\ PointersAgree /\ PolledIffRegistered /\ MasksMatch
      /\ NoUnwantedReady /\ ReadyNotPassed /\ NoInheritedReadiness
    BY DEF Inv
<1>1. /\ nfds \in Nat /\ nfds <= fds_alloc
      /\ fds_alloc \in Nat /\ fds_alloc <= MaxAlloc
      /\ fdscanpos \in 0 .. SizeMax
    BY <1>0 DEF TypeOK
<1>2. S' = [S EXCEPT ![i][op] = r] /\ r # NULL /\ fdscanpos' = fdscanpos
    BY DEF events_network_register
<1>3. /\ S' \in [Fd -> [Op -> Rec \cup {NULL}]]
      /\ S'[i][op] # NULL
      /\ \A k \in Fd : \A o \in Op : k # i \/ o # op => S'[k][o] = S[k][o]
    BY <1>0, <1>2 DEF TypeOK
<1>4. CASE pollpos[i] = SizeMax
    <2>1. growpollfd(i, op)
        BY <1>4 DEF events_network_register
    <2>2. /\ nfds' = nfds + 1 /\ stayed' = stayed
          /\ pollpos' = [pollpos EXCEPT ![i] = nfds]
          /\ fd' = [j \in 0 .. nfds |-> IF j = nfds THEN i ELSE fd[j]]
          /\ events' = [j \in 0 .. nfds |-> IF j = nfds THEN {op} ELSE events[j]]
          /\ revents' = [j \in 0 .. nfds |-> IF j = nfds THEN {} ELSE revents[j]]
        BY <2>1 DEF growpollfd, Appended
    <2>3. nfds' \in 0 .. fds_alloc' /\ fds_alloc' \in 0 .. MaxAlloc
        BY <1>1, <2>1 DEF growpollfd, Appended
    <2>4. TypeOK'
        <3>1. fd' \in [Entries' -> Fd]
            BY <1>0, <1>1, <2>2 DEF TypeOK
        <3>2. events' \in [Entries' -> SUBSET Op]
            BY <1>0, <1>1, <2>2 DEF TypeOK
        <3>3. revents' \in [Entries' -> SUBSET PollBit]
            BY <1>0, <1>1, <2>2 DEF TypeOK
        <3>4. pollpos' \in [Fd -> 0 .. SizeMax]
            BY <1>0, <1>1, <2>2 DEF TypeOK
        <3> QED
            BY <1>0, <1>1, <1>2, <1>3, <2>2, <2>3, <3>1, <3>2, <3>3, <3>4
            DEF TypeOK
    <2>5. \A o \in Op : S[i][o] = NULL
        BY <1>0, <1>1, <1>4 DEF PolledIffRegistered
    <2>a. /\ pollpos'[i] = nfds /\ fd'[nfds] = i /\ events'[nfds] = {op}
          /\ revents'[nfds] = {}
          /\ \A k \in Fd : k # i => pollpos'[k] = pollpos[k]
          /\ \A j \in 0 .. nfds - 1 : /\ fd'[j] = fd[j] /\ events'[j] = events[j]
                                      /\ revents'[j] = revents[j]
        BY <1>0, <1>1, <2>2 DEF TypeOK
    <2>b. \A k \in Fd : /\ pollpos[k] \in 0 .. SizeMax
                        /\ pollpos[k] < nfds \/ pollpos[k] = SizeMax
        BY <1>0 DEF PolledIffRegistered, TypeOK
    <2>c. \A j \in 0 .. nfds - 1 : fd[j] \in Fd /\ fd[j] # i
        BY <1>0, <1>1, <1>4 DEF TypeOK, PointersAgree
    <2>6. PointersAgree'
        <3>1. ASSUME NEW k \in Fd, pollpos'[k] < nfds'
              PROVE  fd'[pollpos'[k]] = k
            BY <1>0, <1>1, <2>2, <2>a, <2>b, <3>1 DEF PointersAgree
        <3>2. ASSUME NEW j \in Entries'
              PROVE  pollpos'[fd'[j]] = j
            BY <1>0, <1>1, <2>2, <2>a, <2>c, <3>2 DEF PointersAgree
        <3> QED
            BY <3>1, <3>2 DEF PointersAgree
    <2>7. PolledIffRegistered'
        <3> SUFFICES ASSUME NEW k \in Fd
                     PROVE  IF \E o \in Op : S'[k][o] # NULL
                            THEN pollpos'[k] < nfds'
                            ELSE pollpos'[k] = SizeMax
            BY DEF PolledIffRegistered
        <3>1. CASE k = i
            BY <1>1, <1>3, <2>2, <2>a, <3>1
        <3>2. CASE k # i
            <4>1. \A o \in Op : S'[k][o] = S[k][o]
                BY <1>3, <3>2
            <4>2. IF \E o \in Op : S'[k][o] # NULL
                  THEN pollpos[k] < nfds ELSE pollpos[k] = SizeMax
                BY <1>0, <4>1 DEF PolledIffRegistered
            <4>3. pollpos'[k] = pollpos[k] /\ pollpos[k] \in Nat
                BY <2>a, <2>b, <3>2
            <4> QED
                BY <1>1, <2>2, <4>2, <4>3
        <3> QED
            BY <3>1, <3>2
    <2>8. MasksMatch'
        <3> SUFFICES ASSUME NEW k \in Fd, pollpos'[k] < nfds', NEW o \in Op
                     PROVE  S'[k][o] # NULL <=> o \in events'[pollpos'[k]]
            BY DEF MasksMatch
        <3>1. CASE k = i
            BY <1>3, <2>5, <2>a, <3>1
        <3>2. CASE k # i
            <4>1. pollpos[k] \in 0 .. nfds - 1 /\ pollpos'[k] = pollpos[k]
                BY <1>1, <2>2, <2>a, <2>b, <3>2
            <4>2. S'[k][o] = S[k][o] /\ events'[pollpos'[k]] = events[pollpos[k]]
                BY <1>3, <2>a, <3>2, <4>1
            <4> QED
                BY <1>0, <1>1, <4>1, <4>2 DEF MasksMatch
        <3> QED
            BY <3>1, <3>2
    <2>9. NoUnwantedReady' /\ ReadyNotPassed' /\ NoInheritedReadiness'
        <3>1. \A j \in Entries' : j \in Entries \/ revents'[j] = {}
            BY <1>1, <2>2, <2>a
        <3>2. ASSUME NEW j \in Entries'
              PROVE  (revents'[j] \cap Op) \subseteq events'[j]
            BY <1>0, <2>a, <3>1 DEF NoUnwantedReady
        <3>3. ASSUME NEW j \in Entries', revents'[j] # {}
              PROVE  j <= fdscanpos' /\ fdscanpos' < SizeMax /\ fd'[j] \in stayed'
            <4>1. j \in Entries /\ revents[j] # {} /\ fd'[j] = fd[j]
                BY <2>a, <3>1, <3>3
            <4> QED
                BY <1>0, <1>2, <2>2, <4>1 DEF ReadyNotPassed, NoInheritedReadiness
        <3> QED
            BY <3>2, <3>3 DEF NoUnwantedReady, ReadyNotPassed, NoInheritedReadiness
    <2> QED
        BY <2>4, <2>6, <2>7, <2>8, <2>9 DEF Inv
<1>5. CASE pollpos[i] # SizeMax
    <2>1. /\ events' = [events EXCEPT ![pollpos[i]] = @ \cup {op}]
          /\ UNCHANGED <<pollpos, fd, revents, nfds, fds_alloc, stayed>>
        BY <1>5 DEF events_network_register
    <2>2. pollpos[i] \in Entries
        BY <1>0, <1>1, <1>5 DEF PolledIffRegistered, TypeOK
    <2>3. TypeOK'
        BY <1>0, <1>2, <1>3, <2>1, <2>2 DEF TypeOK
    <2>4. PointersAgree' /\ ReadyNotPassed' /\ NoInheritedReadiness'
        BY <1>0, <1>2, <2>1 DEF PointersAgree, ReadyNotPassed, NoInheritedReadiness
    <2>5. PolledIffRegistered'
        BY <1>0, <1>3, <2>1, <2>2 DEF PolledIffRegistered, TypeOK
    <2>6. MasksMatch'
        <3> SUFFICES ASSUME NEW k \in Fd, pollpos'[k] < nfds', NEW o \in Op
                     PROVE  S'[k][o] # NULL <=> o \in events'[pollpos'[k]]
            BY DEF MasksMatch
        <3>0. pollpos[k] \in Entries /\ fd[pollpos[k]] = k
            BY <1>0, <2>1 DEF TypeOK, PointersAgree
        <3>1. CASE k = i
            BY <1>0, <1>1, <1>3, <2>1, <2>2, <3>1 DEF TypeOK, MasksMatch
        <3>2. CASE k # i
            <4>1. pollpos[k] # pollpos[i]
                BY <1>0, <1>1, <2>2, <3>0, <3>2 DEF PointersAgree, TypeOK
            <4> QED
                BY <1>0, <1>1, <1>3, <2>1, <2>2, <3>0, <3>2, <4>1
                DEF MasksMatch, TypeOK
        <3> QED
            BY <3>1, <3>2
    <2>7. NoUnwantedReady'
        BY <1>0, <2>1, <2>2 DEF NoUnwantedReady, TypeOK
    <2> QED
        BY <2>3, <2>4, <2>5, <2>6, <2>7 DEF Inv
<1> QED
    BY <1>4, <1>5

-----------------------------------------------------------------------------
(* After clearbit(p, op, rev), entry j is the former entry k: the same one, *)
(* or the last one moved down to p.                                         *)
ComesFrom(j, k, p, op, rev) ==
    /\ k = j \/ (j = p /\ k = nfds - 1 /\ k # p)
    /\ fd'[j] = fd[k]
    /\ fd[k] \in stayed => fd'[j] \in stayed'
    /\ \/ revents'[j] = rev[k] /\ events'[j] = events[k]
       \/ revents'[j] = rev[k] \ {op} /\ events'[j] = events[k] \ {op}

(* clearbit, called by events_network_cancel and events_network_get after   *)
(* the record has been taken: it keeps the registry consistent, and every   *)
(* entry that is still ready comes from an entry that was ready at the same *)
(* place, or from the last one.                                             *)
LEMMA ClearbitInv ==
    ASSUME RegistryInv, NEW p \in Entries, NEW op \in Op, op \in events[p],
           NEW rev \in [Entries -> SUBSET PollBit],
           S' = [S EXCEPT ![fd[p]][op] = NULL],
           clearbit(p, op, rev),
           UNCHANGED fds_alloc, fdscanpos' \in 0 .. SizeMax
    PROVE  /\ RegistryInv'
           /\ nfds' <= nfds
           /\ \A j \in Entries' : \E k \in Entries : ComesFrom(j, k, p, op, rev)
<1> USE SizeAssumption, NullAssumption DEF Entries
<1>0. TypeOK /\ PointersAgree /\ PolledIffRegistered /\ MasksMatch
    BY DEF RegistryInv
<1>1. /\ nfds \in Nat /\ nfds <= fds_alloc
      /\ fds_alloc \in Nat /\ fds_alloc <= MaxAlloc
      /\ fd[p] \in Fd /\ pollpos[fd[p]] = p
      /\ p < nfds
    BY <1>0 DEF TypeOK, PointersAgree
<1>a. S[fd[p]][op] # NULL
    BY <1>0, <1>1 DEF MasksMatch
<1>2. /\ S' \in [Fd -> [Op -> Rec \cup {NULL}]]
      /\ S'[fd[p]][op] = NULL
      /\ \A k \in Fd : \A o \in Op : k # fd[p] \/ o # op => S'[k][o] = S[k][o]
    BY <1>0, <1>1 DEF TypeOK
<1>3. CASE events[p] # {op}
    <2>1. /\ events' = [events EXCEPT ![p] = @ \ {op}]
          /\ revents' = [rev EXCEPT ![p] = @ \ {op}]
          /\ UNCHANGED <<pollpos, fd, nfds, stayed>>
        BY <1>3 DEF clearbit, Repointed, Cleared
    <2>2. TypeOK'
        BY <1>0, <1>2, <2>1 DEF TypeOK
    <2>3. PointersAgree'
        BY <1>0, <2>1 DEF PointersAgree
    <2>4. \E o \in Op : o # op /\ o \in events[p]
        BY <1>0, <1>3 DEF TypeOK
    <2>5. PolledIffRegistered'
        <3>1. \E o \in Op : S'[fd[p]][o] # NULL
            BY <1>0, <1>1, <1>2, <2>4 DEF MasksMatch
        <3>2. ASSUME NEW k \in Fd, k # fd[p]
              PROVE  \A o \in Op : S'[k][o] = S[k][o]
            BY <1>2, <3>2
        <3> QED
            BY <1>0, <1>1, <2>1, <3>1, <3>2 DEF PolledIffRegistered
    <2>6. MasksMatch'
        <3> SUFFICES ASSUME NEW k \in Fd, pollpos'[k] < nfds', NEW o \in Op
                     PROVE  S'[k][o] # NULL <=> o \in events'[pollpos'[k]]
            BY DEF MasksMatch
        <3>0. pollpos[k] \in Entries /\ fd[pollpos[k]] = k
            BY <1>0, <2>1 DEF TypeOK, PointersAgree
        <3>1. CASE k = fd[p]
            <4>1. pollpos'[k] = p /\ events'[p] = events[p] \ {op}
                BY <1>0, <1>1, <2>1, <3>1 DEF TypeOK
            <4>2. o # op => (S[k][o] # NULL <=> o \in events[p])
                BY <1>0, <1>1, <3>1 DEF MasksMatch
            <4> QED
                BY <1>2, <3>1, <4>1, <4>2
        <3>2. CASE k # fd[p]
            BY <1>0, <1>1, <1>2, <2>1, <3>0, <3>2 DEF TypeOK, MasksMatch
        <3> QED
            BY <3>1, <3>2
    <2>7. ASSUME NEW j \in Entries'
          PROVE  /\ j \in Entries
                 /\ fd'[j] = fd[j] /\ stayed' = stayed
                 /\ \/ revents'[j] = rev[j] /\ events'[j] = events[j]
                    \/ revents'[j] = rev[j] \ {op} /\ events'[j] = events[j] \ {op}
        BY <1>0, <2>1 DEF TypeOK
    <2>8. ASSUME NEW j \in Entries'
          PROVE  \E k \in Entries : ComesFrom(j, k, p, op, rev)
        BY <2>7 DEF ComesFrom
    <2> QED
        BY <1>1, <2>1, <2>2, <2>3, <2>5, <2>6, <2>8 DEF RegistryInv
<1>4. CASE events[p] = {op}
    <2> DEFINE last == nfds - 1
               Src(j) == IF j = p THEN last ELSE j
    <2>1. /\ fd' = [j \in 0 .. nfds - 2 |-> fd[Src(j)]]
          /\ events' = [j \in 0 .. nfds - 2 |-> events[Src(j)]]
          /\ revents' = [j \in 0 .. nfds - 2 |-> rev[Src(j)]]
          /\ pollpos' = [i \in Fd |-> IF i = fd[p] THEN SizeMax
                                      ELSE IF i = fd[last] THEN p
                                      ELSE pollpos[i]]
          /\ nfds' = nfds - 1
          /\ stayed' = stayed \ {fd[p]}
        BY <1>4 DEF clearbit, Repointed, Cleared
    <2>2. /\ Entries' = 0 .. nfds - 2
          /\ last \in Entries /\ p \in Entries
          /\ \A j \in 0 .. nfds - 2 :
                /\ Src(j) \in Entries /\ Src(j) # p
                /\ fd[Src(j)] \in Fd /\ fd[Src(j)] # fd[p]
        <3>1. /\ Entries' = 0 .. nfds - 2
              /\ last \in Entries /\ p \in Entries
              /\ \A j \in 0 .. nfds - 2 : Src(j) \in Entries /\ Src(j) # p
            BY <1>1, <2>1
        <3> QED
            BY <1>0, <1>1, <3>1 DEF TypeOK, PointersAgree
    <2>3. \A o \in Op : S'[fd[p]][o] = NULL
        BY <1>0, <1>1, <1>2, <1>4 DEF MasksMatch
    <2>4. ASSUME NEW k \in Fd, k # fd[p]
          PROVE  \A o \in Op : S'[k][o] = S[k][o]
        BY <1>2, <2>4
    <2>5. TypeOK'
        <3>1. fd' \in [Entries' -> Fd] /\ events' \in [Entries' -> SUBSET Op]
            BY <1>0, <2>1, <2>2 DEF TypeOK
        <3>2. revents' \in [Entries' -> SUBSET PollBit]
            BY <2>1, <2>2
        <3>3. pollpos' \in [Fd -> 0 .. SizeMax]
            BY <1>0, <1>1, <2>1 DEF TypeOK
        <3>4. stayed' \subseteq Fd
            BY <1>0, <2>1 DEF TypeOK
        <3>5. nfds' \in 0 .. fds_alloc' /\ fds_alloc' \in 0 .. MaxAlloc
            <4>1. nfds \in 0 .. fds_alloc /\ fds_alloc \in 0 .. MaxAlloc
                BY ONLY <1>0 DEF TypeOK
            <4>2. nfds' \in Nat
                BY ONLY <1>1, <2>1, <4>1, SizeAssumption
            <4> QED
                BY ONLY <2>1, <4>1, <4>2, SizeAssumption, UNCHANGED fds_alloc
        <3> QED
            BY ONLY <1>2, <3>1, <3>2, <3>3, <3>4, <3>5, fdscanpos' \in 0 .. SizeMax,
                    Zenon DEF TypeOK
    <2>6. ASSUME NEW k \in Fd, k # fd[p]
          PROVE  /\ pollpos[k] < nfds => /\ pollpos'[k] \in 0 .. nfds - 2
                                         /\ Src(pollpos'[k]) = pollpos[k]
                 /\ pollpos[k] >= nfds => pollpos'[k] = pollpos[k]
        <3>1. pollpos[k] \in 0 .. SizeMax /\ fd[last] \in Fd
            BY <1>0, <2>2 DEF TypeOK
        <3>2. CASE k = fd[last]
            <4>1. pollpos[k] = last /\ p # last
                BY <1>0, <2>2, <2>6, <3>2 DEF PointersAgree
            <4> QED
                BY <1>1, <2>1, <2>2, <2>6, <3>2, <4>1
        <3>3. CASE k # fd[last]
            <4>1. pollpos'[k] = pollpos[k]
                BY <2>1, <2>6, <3>3
            <4>2. pollpos[k] < nfds => pollpos[k] # p /\ pollpos[k] # last
                BY <1>0, <1>1, <2>6, <3>1, <3>3 DEF PointersAgree
            <4>3. pollpos[k] < nfds => /\ pollpos[k] \in 0 .. nfds - 2
                                       /\ Src(pollpos[k]) = pollpos[k]
                BY <1>1, <3>1, <4>2
            <4> QED
                BY <4>1, <4>3
        <3> QED
            BY <3>2, <3>3
    <2>7. PointersAgree'
        <3>1. ASSUME NEW k \in Fd, pollpos'[k] < nfds'
              PROVE  fd'[pollpos'[k]] = k
            <4>1. k # fd[p]
                BY <1>1, <2>1, <3>1
            <4>2. pollpos[k] \in Nat /\ pollpos[k] < nfds
                BY <1>0, <1>1, <2>1, <2>6, <3>1, <4>1 DEF TypeOK
            <4>3. fd'[pollpos'[k]] = fd[pollpos[k]]
                BY <2>1, <2>6, <4>1, <4>2
            <4> QED
                BY <1>0, <4>2, <4>3 DEF PointersAgree
        <3>2. ASSUME NEW j \in Entries'
              PROVE  pollpos'[fd'[j]] = j
            <4>1. /\ fd'[j] = fd[Src(j)] /\ fd'[j] \in Fd /\ fd'[j] # fd[p]
                  /\ Src(j) \in Entries
                BY <2>1, <2>2, <3>2
            <4>2. pollpos[fd'[j]] = Src(j)
                BY <1>0, <4>1 DEF PointersAgree
            <4>3. CASE j = p
                BY <2>1, <4>1, <4>3
            <4>4. CASE j # p
                <5>1. j # last /\ Src(j) = j
                    BY <1>1, <2>1, <2>2, <3>2, <4>4
                <5>2. fd'[j] # fd[last]
                    BY <1>0, <2>2, <4>2, <5>1 DEF PointersAgree
                <5> QED
                    BY <2>1, <4>1, <4>2, <5>1, <5>2
            <4> QED
                BY <4>3, <4>4
        <3> QED
            BY <3>1, <3>2 DEF PointersAgree
    <2>8. PolledIffRegistered'
        <3> SUFFICES ASSUME NEW k \in Fd
                     PROVE  IF \E o \in Op : S'[k][o] # NULL
                            THEN pollpos'[k] < nfds'
                            ELSE pollpos'[k] = SizeMax
            BY DEF PolledIffRegistered
        <3>1. CASE k = fd[p]
            BY <2>1, <2>3, <3>1
        <3>2. CASE k # fd[p]
            <4>1. IF \E o \in Op : S'[k][o] # NULL
                  THEN pollpos[k] < nfds ELSE pollpos[k] = SizeMax
                BY <1>0, <2>4, <3>2 DEF PolledIffRegistered
            <4>2. pollpos[k] < nfds => pollpos'[k] < nfds'
                BY <1>1, <2>1, <2>6, <3>2
            <4>3. pollpos[k] = SizeMax => pollpos'[k] = SizeMax
                BY <1>1, <2>6, <3>2
            <4> QED
                BY <4>1, <4>2, <4>3
        <3> QED
            BY <3>1, <3>2
    <2>9. MasksMatch'
        <3> SUFFICES ASSUME NEW k \in Fd, pollpos'[k] < nfds', NEW o \in Op
                     PROVE  S'[k][o] # NULL <=> o \in events'[pollpos'[k]]
            BY DEF MasksMatch
        <3>1. k # fd[p]
            BY <1>1, <2>1
        <3>2. pollpos[k] \in Nat /\ pollpos[k] < nfds
            BY <1>0, <1>1, <2>1, <2>6, <3>1 DEF TypeOK
        <3>3. events'[pollpos'[k]] = events[pollpos[k]]
            BY <2>1, <2>6, <3>1, <3>2
        <3> QED
            BY <1>0, <2>4, <3>1, <3>2, <3>3 DEF MasksMatch
    <2>10. ASSUME NEW j \in Entries'
           PROVE  \E k \in Entries : ComesFrom(j, k, p, op, rev)
        <3>1. /\ fd'[j] = fd[Src(j)] /\ events'[j] = events[Src(j)]
              /\ revents'[j] = rev[Src(j)]
              /\ Src(j) \in Entries /\ Src(j) # p /\ fd[Src(j)] # fd[p]
            BY <2>1, <2>2, <2>10
        <3>2. fd[Src(j)] \in stayed => fd'[j] \in stayed'
            BY <2>1, <3>1
        <3>3. Src(j) = j \/ (j = p /\ Src(j) = nfds - 1)
            OBVIOUS
        <3> HIDE DEF Src, Entries
        <3> QED
            BY <3>1, <3>2, <3>3 DEF ComesFrom
    <2>11. nfds' <= nfds
        BY <1>1, <2>1
    <2> QED
        BY <2>5, <2>7, <2>8, <2>9, <2>10, <2>11 DEF RegistryInv
<1> QED
    BY <1>3, <1>4

(* What clearbit preserves once the caller has said how the scan stands: if *)
(* the entries of rev above the scan position are idle, so are those of     *)
(* revents afterwards.                                                      *)
LEMMA TakeEventInv ==
    ASSUME RegistryInv, NEW p \in Entries, NEW op \in Op, op \in events[p],
           NEW rev \in [Entries -> SUBSET PollBit],
           S' = [S EXCEPT ![fd[p]][op] = NULL],
           clearbit(p, op, rev),
           UNCHANGED fds_alloc, fdscanpos' \in 0 .. SizeMax,
           \A j \in Entries : (rev[j] \cap Op) \subseteq events[j],
           \A j \in Entries : rev[j] # {} =>
               fd[j] \in stayed /\ j <= fdscanpos' /\ fdscanpos' < SizeMax
    PROVE  Inv'
<1>0. TypeOK
    BY DEF RegistryInv
<1>1. /\ RegistryInv'
      /\ nfds' <= nfds
      /\ \A j \in Entries' : \E k \in Entries : ComesFrom(j, k, p, op, rev)
    BY ClearbitInv
<1>2. ASSUME NEW j \in Entries'
      PROVE  /\ (revents'[j] \cap Op) \subseteq events'[j]
             /\ revents'[j] # {} => /\ j <= fdscanpos' /\ fdscanpos' < SizeMax
                                    /\ fd'[j] \in stayed'
    <2>1. PICK k \in Entries : ComesFrom(j, k, p, op, rev)
        BY <1>1, <1>2
    <2>2. (revents'[j] \cap Op) \subseteq events'[j]
        BY <2>1 DEF ComesFrom
    <2>3. revents'[j] # {} => rev[k] # {}
        BY <2>1 DEF ComesFrom
    <2>4. j <= k
        BY <1>0, <2>1 DEF Entries, TypeOK, ComesFrom
    <2>5. k <= fdscanpos' => j <= fdscanpos'
        BY <1>0, <2>1, <2>4, SizeAssumption DEF Entries, TypeOK
    <2> QED
        BY <2>1, <2>2, <2>3, <2>5 DEF ComesFrom
<1> QED
    BY <1>1, <1>2
    DEF Inv, RegistryInv, NoUnwantedReady, ReadyNotPassed, NoInheritedReadiness

(* Cancelling an event keeps every invariant.                               *)
LEMMA CancelInv ==
    ASSUME Inv, NEW i \in Fd, NEW op \in Op, events_network_cancel(i, op)
    PROVE  Inv'
<1>0. RegistryInv /\ NoUnwantedReady /\ ReadyNotPassed /\ NoInheritedReadiness
    BY DEF Inv, RegistryInv
<1>1. /\ S[i][op] # NULL
      /\ S' = [S EXCEPT ![i][op] = NULL]
      /\ clearbit(pollpos[i], op, revents)
      /\ UNCHANGED fds_alloc
      /\ fdscanpos' = fdscanpos
    BY DEF events_network_cancel
<1>a. pollpos[i] < nfds
    BY <1>0, <1>1 DEF RegistryInv, PolledIffRegistered
<1>2. /\ pollpos[i] \in Entries /\ fd[pollpos[i]] = i
      /\ revents \in [Entries -> SUBSET PollBit]
      /\ fdscanpos' \in 0 .. SizeMax
    BY <1>0, <1>1, <1>a, SizeAssumption DEF RegistryInv, TypeOK, PointersAgree, Entries
<1>3. op \in events[pollpos[i]]
    BY <1>0, <1>1, <1>a DEF RegistryInv, MasksMatch
<1>4. S' = [S EXCEPT ![fd[pollpos[i]]][op] = NULL]
    BY <1>1, <1>2
<1>5. /\ \A j \in Entries : (revents[j] \cap Op) \subseteq events[j]
      /\ \A j \in Entries : revents[j] # {} =>
             fd[j] \in stayed /\ j <= fdscanpos' /\ fdscanpos' < SizeMax
    BY <1>0, <1>1 DEF NoUnwantedReady, ReadyNotPassed, NoInheritedReadiness
<1> QED
    BY <1>0, <1>1, <1>2, <1>3, <1>4, <1>5, TakeEventInv

(* A call of select that returns: whatever poll(2) reports, the scan starts *)
(* at the last entry.                                                       *)
LEMMA SelectInv ==
    ASSUME Inv, NEW ready, NEW interrupted,
           events_network_select(ready, interrupted)
    PROVE  Inv'
<1> USE SizeAssumption DEF Entries
<1>0. /\ TypeOK /\ PointersAgree /\ PolledIffRegistered /\ MasksMatch
      /\ NoUnwantedReady /\ ReadyNotPassed /\ NoInheritedReadiness
    BY DEF Inv
<1>1. /\ UNCHANGED <<S, pollpos, fd, events, nfds, fds_alloc>>
      /\ fdscanpos' = IF nfds = 0 THEN SizeMax ELSE nfds - 1
      /\ ready \in [Entries -> SUBSET PollBit]
      /\ \A j \in Entries : ready[j] \subseteq events[j] \cup {"POLLHUP"}
      /\ \/ UNCHANGED <<revents, stayed>>
         \/ revents' = ready /\ stayed' = {fd[j] : j \in Entries}
    BY DEF events_network_select, poll
<1>2. nfds \in Nat /\ nfds < SizeMax
    BY <1>0 DEF TypeOK
<1>3. /\ fdscanpos' \in 0 .. SizeMax
      /\ \A j \in Entries : j <= fdscanpos' /\ fdscanpos' < SizeMax
    BY <1>1, <1>2
<1>4. /\ revents' \in [Entries -> SUBSET PollBit]
      /\ stayed' \subseteq Fd
    BY <1>0, <1>1 DEF TypeOK
<1>5. TypeOK'
    BY <1>0, <1>1, <1>3, <1>4 DEF TypeOK
<1>6. PointersAgree' /\ PolledIffRegistered' /\ MasksMatch'
    BY <1>0, <1>1 DEF PointersAgree, PolledIffRegistered, MasksMatch
<1>7. NoUnwantedReady'
    <2> SUFFICES ASSUME NEW j \in Entries
                 PROVE  (revents'[j] \cap Op) \subseteq events[j]
        BY <1>1 DEF NoUnwantedReady
    <2>1. "POLLHUP" \notin Op
        BY DEF Op
    <2> QED
        BY <1>0, <1>1, <2>1 DEF NoUnwantedReady
<1>8. ReadyNotPassed'
    BY <1>1, <1>3 DEF ReadyNotPassed
<1>9. NoInheritedReadiness'
    BY <1>0, <1>1 DEF NoInheritedReadiness
<1> QED
    BY <1>5, <1>6, <1>7, <1>8, <1>9 DEF Inv

(* events_network_get hands out a record: it exists (the bit is polled for, *)
(* hence registered), and the entries above the new position are idle.      *)
LEMMA GetInv ==
    ASSUME Inv, NEW p \in Entries, events_network_get(p)
    PROVE  Inv'
<1>0. /\ RegistryInv /\ TypeOK
      /\ NoUnwantedReady /\ ReadyNotPassed /\ NoInheritedReadiness
    BY DEF Inv, RegistryInv
<1> DEFINE op == IF "POLLIN" \in Ready(p) THEN "POLLIN" ELSE "POLLOUT"
<1>1. /\ fdscanpos < nfds /\ p \in 0 .. fdscanpos
      /\ Ready(p) # {}
      /\ \A j \in p + 1 .. fdscanpos : Ready(j) = {}
      /\ S' = [S EXCEPT ![fd[p]][op] = NULL]
      /\ clearbit(p, op, Scanned(p))
      /\ fdscanpos' = p
      /\ UNCHANGED fds_alloc
    BY DEF events_network_get
<1>2. \A j \in Entries : /\ Ready(j) \subseteq events[j] \/ revents[j] = {}
                         /\ Ready(j) \subseteq Op
                         /\ Ready(j) # {} => revents[j] # {}
    <2> SUFFICES ASSUME NEW j \in Entries
                 PROVE  /\ Ready(j) \subseteq events[j] \/ revents[j] = {}
                        /\ Ready(j) \subseteq Op
                        /\ Ready(j) # {} => revents[j] # {}
        OBVIOUS
    <2>1. /\ revents[j] \in SUBSET PollBit /\ events[j] \in SUBSET Op
          /\ (revents[j] \cap Op) \subseteq events[j]
        BY <1>0 DEF TypeOK, NoUnwantedReady
    <2>2. revents[j] \ {"POLLHUP"} \subseteq events[j]
        BY <2>1 DEF PollBit
    <2> QED
        BY <2>1, <2>2 DEF Ready
<1>3. /\ \A j \in Entries : Ready(j) \subseteq events[j]
      /\ \A j \in Entries : Ready(j) \subseteq Op
    BY <1>2 DEF Ready
<1>4. op \in Op /\ op \in events[p]
    BY <1>1, <1>3 DEF Op
<1>5. /\ Scanned(p) \in [Entries -> SUBSET PollBit]
      /\ \A j \in Entries : Scanned(p)[j] = IF j \in p .. fdscanpos
                                            THEN Ready(j) ELSE revents[j]
    BY <1>0, <1>3 DEF Scanned, TypeOK, PollBit
<1>6. ASSUME NEW j \in Entries
      PROVE  (Scanned(p)[j] \cap Op) \subseteq events[j]
    BY <1>0, <1>3, <1>5 DEF NoUnwantedReady
<1>7. ASSUME NEW j \in Entries, Scanned(p)[j] # {}
      PROVE  fd[j] \in stayed /\ j <= fdscanpos' /\ fdscanpos' < SizeMax
    <2>1. nfds \in Nat /\ nfds < SizeMax /\ fdscanpos \in Nat /\ p \in Nat /\ p < nfds /\ j \in Nat
        BY <1>0, SizeAssumption DEF TypeOK, Entries
    <2>2. revents[j] # {}
        BY <1>2, <1>5, <1>7
    <2>3. fd[j] \in stayed /\ j <= fdscanpos
        BY <1>0, <2>2 DEF ReadyNotPassed, NoInheritedReadiness
    <2>4. j <= p
        <3> SUFFICES ASSUME j > p
                     PROVE  FALSE
            BY <2>1
        <3>1. j \in p .. fdscanpos /\ j \in p + 1 .. fdscanpos
            BY <2>1, <2>3
        <3> QED
            BY <1>1, <1>5, <1>7, <3>1
    <2> QED
        BY <1>1, <2>1, <2>3, <2>4, SizeAssumption
<1>8. fdscanpos' \in 0 .. SizeMax
    BY <1>0, <1>1, SizeAssumption DEF TypeOK, Entries
<1> HIDE DEF op
<1> QED
    BY <1>0, <1>1, <1>4, <1>5, <1>6, <1>7, <1>8, TakeEventInv

(* events_network_get finds nothing: every entry it came past was idle, so  *)
(* if it scanned to the end none is ready.                                  *)
LEMMA GetNoneInv ==
    ASSUME Inv, events_network_get_none
    PROVE  Inv'
<1>0. /\ TypeOK /\ PointersAgree /\ PolledIffRegistered /\ MasksMatch
      /\ NoUnwantedReady /\ ReadyNotPassed /\ NoInheritedReadiness
    BY DEF Inv
<1>1. UNCHANGED <<S, pollpos, fd, events, nfds, fds_alloc, stayed>>
    BY DEF events_network_get_none
<1>2. nfds \in Nat /\ nfds < SizeMax /\ fdscanpos \in 0 .. SizeMax
    BY <1>0, SizeAssumption DEF TypeOK
<1>3. CASE fdscanpos < nfds
    <2>1. /\ fdscanpos' = SizeMax
          /\ revents' = [j \in Entries |-> IF j \in 0 .. fdscanpos
                                           THEN Ready(j) ELSE revents[j]]
          /\ \A j \in 0 .. fdscanpos : Ready(j) = {}
        BY <1>3 DEF events_network_get_none, Scanned
    <2>2. \A j \in Entries : revents'[j] = {}
        BY <1>0, <1>2, <2>1 DEF ReadyNotPassed, Entries
    <2>3. TypeOK'
        BY <1>0, <1>1, <2>1, <2>2, SizeAssumption DEF TypeOK, Entries
    <2>4. PointersAgree' /\ PolledIffRegistered' /\ MasksMatch'
        BY <1>0, <1>1 DEF PointersAgree, PolledIffRegistered, MasksMatch, Entries
    <2>5. NoUnwantedReady' /\ ReadyNotPassed' /\ NoInheritedReadiness'
        BY <1>1, <2>2
        DEF NoUnwantedReady, ReadyNotPassed, NoInheritedReadiness, Entries
    <2> QED
        BY <2>3, <2>4, <2>5 DEF Inv
<1>4. CASE ~(fdscanpos < nfds)
    <2>1. UNCHANGED netvars
        BY <1>1, <1>4 DEF events_network_get_none, netvars
    <2> QED
        BY <1>0, <2>1
        DEF Inv, netvars, TypeOK, PointersAgree, PolledIffRegistered, MasksMatch,
            NoUnwantedReady, ReadyNotPassed, NoInheritedReadiness, Entries
<1> QED
    BY <1>3, <1>4

-----------------------------------------------------------------------------
(* Every call, in any order, preserves the invariants.                      *)
LEMMA NextInv ==
    ASSUME Inv, [Next]_netvars
    PROVE  Inv'
<1>1. ASSUME NEW i \in Fd, NEW op \in Op, NEW r \in Rec,
             events_network_register(i, op, r)
      PROVE  Inv'
    BY <1>1, RegisterInv
<1>2. ASSUME NEW i \in Fd, NEW op \in Op, events_network_cancel(i, op)
      PROVE  Inv'
    BY <1>2, CancelInv
<1>3. ASSUME NEW ready, NEW interrupted, events_network_select(ready, interrupted)
      PROVE  Inv'
    BY <1>3, SelectInv
<1>4. ASSUME NEW p \in Entries, events_network_get(p)
      PROVE  Inv'
    BY <1>4, GetInv
<1>5. CASE events_network_get_none
    BY <1>5, GetNoneInv
<1>6. CASE events_network_shutdown
    BY <1>6, SizeAssumption
    DEF events_network_shutdown, Inv, TypeOK, PointersAgree, PolledIffRegistered,
        MasksMatch, NoUnwantedReady, ReadyNotPassed, NoInheritedReadiness, Entries
<1>7. CASE UNCHANGED netvars
    BY <1>7
    DEF Inv, netvars, TypeOK, PointersAgree, PolledIffRegistered, MasksMatch,
        NoUnwantedReady, ReadyNotPassed, NoInheritedReadiness, Entries
<1> QED
    BY <1>1, <1>2, <1>3, <1>4, <1>5, <1>6, <1>7 DEF Next

(* For every set of descriptors, and every order of calls, the invariants 1 *)
(* to 5 of events_network.c, the scan's invariant 6 (with <= for <) and the *)
(* absence of inherited readiness hold.                                     *)
THEOREM RegistryCorrect ==
    Spec => [](TypeOK /\ RegistryIsSound)
<1>1. init => Inv
    BY InitInv
<1>2. Inv /\ [Next]_netvars => Inv'
    BY NextInv
<1>3. Inv => TypeOK /\ RegistryIsSound
    BY DEF Inv, RegistryIsSound, RegistryAgrees, ReadinessIsRight
<1> QED
    BY <1>1, <1>2, <1>3, PTL DEF Spec

(* Every record handed out by events_network_get is one that was            *)
(* registered: doevent is never called on NULL.                             *)
THEOREM HandedOutWasRegistered ==
    ASSUME Inv, NEW p \in Entries, events_network_get(p)
    PROVE  \E op \in Op : S[fd[p]][op] # NULL /\ S'[fd[p]][op] = NULL
<1>1. RegistryInv
    BY DEF Inv, RegistryInv
<1>2. TypeOK /\ PointersAgree /\ MasksMatch /\ NoUnwantedReady
    BY DEF Inv
<1>3. events[p] \subseteq Op /\ revents[p] \subseteq PollBit /\ fd[p] \in Fd
    BY <1>2 DEF TypeOK
<1>4. Ready(p) \subseteq events[p] /\ Ready(p) # {}
    BY <1>2, <1>3 DEF Ready, NoUnwantedReady, PollBit, events_network_get
<1>5. PICK op \in Op : op \in events[p] /\ S' = [S EXCEPT ![fd[p]][op] = NULL]
    BY <1>3, <1>4 DEF events_network_get, Op
<1>6. pollpos[fd[p]] = p /\ p < nfds
    BY <1>2 DEF PointersAgree, Entries, TypeOK
<1>7. S[fd[p]][op] # NULL
    BY <1>2, <1>3, <1>5, <1>6 DEF MasksMatch
<1>8. S'[fd[p]][op] = NULL
    BY <1>2, <1>3, <1>5 DEF TypeOK
<1> QED
    BY <1>7, <1>8

-----------------------------------------------------------------------------
(* netbuf_read.c                                                           *)

(* The state of a reader.                                                  *)
Reader ==
    [buf : Seq(Nat), bufpos : Nat, buflen : Nat,
     read_cookie : [on : BOOLEAN, got : Seq(Nat), max : Nat, min : Nat],
     immediate_cookie : BOOLEAN]

(* The types of the variables.                                             *)
ReaderTypes ==
    /\ reader \in Reader
    /\ owned \in BOOLEAN
    /\ wanted \in Nat
    /\ answer \in {-1, 0, 1, 2}
    /\ taken \in Nat
    /\ consumed \in Nat
    /\ ended \in BOOLEAN
    /\ spoiled \in BOOLEAN

(* The buffer of R ends at position e of the stream.                       *)
Holds(R, c, t) ==
    LET a == c - R.bufpos
        e == a + Len(R.buf)
    IN  /\ a \in Nat
        /\ e <= t
        /\ R.buf = Bytes(a, e)
        /\ R.read_cookie.got = Bytes(e, t)

(* Only a read that is in progress holds bytes that are not in the buffer  *)
(* yet.                                                                    *)
Unread(R) == ~R.read_cookie.on => R.read_cookie.got = <<>>

(* The inductive invariant of the reader.                                  *)
ReaderInv ==
    /\ ReaderTypes
    /\ ReaderSound(reader)
    /\ Unread(reader)
    /\ ~spoiled => Holds(reader, consumed, taken)
    /\ AsksForMissing
    /\ StatusIsRight
    /\ BufferIsBounded

-----------------------------------------------------------------------------
(* Pieces of the stream                                                    *)

(* A piece of the stream has the length and the bytes it should have.      *)
LEMMA StreamFacts ==
    ASSUME NEW a \in Nat, NEW b \in Nat, a <= b
    PROVE  /\ Bytes(a, b) \in Seq(Nat)
           /\ Len(Bytes(a, b)) = b - a
           /\ \A i \in 1 .. b - a : Bytes(a, b)[i] = a + i
    BY DEF Bytes

(* Adjacent pieces make one.                                               *)
LEMMA StreamConcat ==
    ASSUME NEW a \in Nat, NEW b \in Nat, NEW c \in Nat, a <= b, b <= c
    PROVE  Bytes(a, b) \o Bytes(b, c) = Bytes(a, c)
<1> DEFINE s == Bytes(a, b)
           t == Bytes(b, c)
<1>1. /\ s \in Seq(Nat) /\ Len(s) = b - a
      /\ \A i \in 1 .. b - a : s[i] = a + i
    BY StreamFacts
<1>2. /\ t \in Seq(Nat) /\ Len(t) = c - b
      /\ \A i \in 1 .. c - b : t[i] = b + i
    BY StreamFacts
<1>3. /\ Bytes(a, c) \in Seq(Nat) /\ Len(Bytes(a, c)) = c - a
      /\ \A i \in 1 .. c - a : Bytes(a, c)[i] = a + i
    BY StreamFacts
<1> HIDE DEF s, t
<1>4. /\ s \o t \in Seq(Nat)
      /\ Len(s \o t) = Len(s) + Len(t)
      /\ \A i \in 1 .. Len(s) + Len(t) :
            (s \o t)[i] = IF i <= Len(s) THEN s[i] ELSE t[i - Len(s)]
    BY <1>1, <1>2, ConcatProperties, Zenon
<1>5. \A i \in 1 .. c - a : (s \o t)[i] = a + i
    BY <1>1, <1>2, <1>4
<1>6. /\ Len(s \o t) = Len(Bytes(a, c))
      /\ \A i \in 1 .. Len(s \o t) : (s \o t)[i] = Bytes(a, c)[i]
    <2>1. Len(s) + Len(t) = c - a
      BY <1>1, <1>2
    <2> QED BY <1>3, <1>4, <1>5, <2>1, Zenon
<1>7. s \o t = Bytes(a, c)
    BY <1>3, <1>4, <1>6, SeqEqual, Zenon
<1> QED
    BY <1>7 DEF s, t

(* The rest of a piece is a piece.                                         *)
LEMMA StreamRest ==
    ASSUME NEW a \in Nat, NEW b \in Nat, a <= b, NEW n \in 0 .. b - a
    PROVE  SubSeq(Bytes(a, b), n + 1, b - a) = Bytes(a + n, b)
<1> DEFINE s == Bytes(a, b)
<1>1. /\ s \in Seq(Nat) /\ Len(s) = b - a
      /\ \A i \in 1 .. b - a : s[i] = a + i
    BY StreamFacts
<1>2. /\ Bytes(a + n, b) \in Seq(Nat) /\ Len(Bytes(a + n, b)) = b - a - n
      /\ \A i \in 1 .. b - a - n : Bytes(a + n, b)[i] = a + n + i
    <2>1. a + n \in Nat /\ a + n <= b /\ b - (a + n) = b - a - n
        OBVIOUS
    <2>2. /\ Bytes(a + n, b) \in Seq(Nat) /\ Len(Bytes(a + n, b)) = b - (a + n)
          /\ \A i \in 1 .. b - (a + n) : Bytes(a + n, b)[i] = a + n + i
        BY <2>1, StreamFacts
    <2> QED
        BY <2>1, <2>2
<1> HIDE DEF s
<1>3. /\ SubSeq(s, n + 1, b - a) \in Seq(Nat)
      /\ Len(SubSeq(s, n + 1, b - a)) = b - a - n
      /\ \A i \in 1 .. b - a - n : SubSeq(s, n + 1, b - a)[i] = s[n + i]
    BY <1>1
<1> DEFINE u == SubSeq(s, n + 1, b - a)
           v == Bytes(a + n, b)
<1>4. u \in Seq(Nat) /\ v \in Seq(Nat) /\ Len(u) = Len(v)
    BY <1>2, <1>3
<1>5. \A i \in 1 .. Len(u) : u[i] = v[i]
    BY <1>1, <1>2, <1>3
<1>6. u = v
    <2> HIDE DEF u, v
    <2> QED
        BY <1>4, <1>5, SeqEqual
<1> QED
    BY <1>6 DEF s

-----------------------------------------------------------------------------
(* The data moves to the start of the buffer: the consumed part is gone,   *)
(* and nothing else (the memmove of netbuf_read_wait, the memcpy of        *)
(* netbuf_read_resize_buffer).                                             *)
LEMMA MovedFacts ==
    ASSUME NEW R \in Reader, R.bufpos <= Len(R.buf)
    PROVE  /\ Moved(R) \in Reader
           /\ Moved(R).bufpos = 0
           /\ Len(Moved(R).buf) = Buffered(R)
           /\ Moved(R).buflen = R.buflen
           /\ Moved(R).read_cookie = R.read_cookie
           /\ Moved(R).immediate_cookie = R.immediate_cookie
           /\ \A c, t \in Nat : Holds(R, c, t) => Holds(Moved(R), c, t)
<1> DEFINE p == netbuf_read_peek(R)
<1>1. /\ R.buf \in Seq(Nat) /\ R.bufpos \in Nat /\ Len(R.buf) \in Nat
    BY DEF Reader
<1>2. p \in Seq(Nat) /\ Len(p) = Buffered(R)
    <2>1. \A i \in R.bufpos + 1 .. Len(R.buf) : R.buf[i] \in Nat
        BY <1>1
    <2>2. R.bufpos + 1 \in Int /\ Len(R.buf) \in Int
        BY <1>1
    <2>3. /\ p \in Seq(Nat)
          /\ Len(p) = IF R.bufpos + 1 <= Len(R.buf)
                      THEN Len(R.buf) - (R.bufpos + 1) + 1 ELSE 0
        BY <2>1, <2>2, SubSeqProperties DEF netbuf_read_peek
    <2> QED
        BY <1>1, <2>3 DEF Buffered
<1>3. /\ Moved(R) \in Reader
      /\ Moved(R).bufpos = 0
      /\ Moved(R).buf = p
      /\ Moved(R).buflen = R.buflen
      /\ Moved(R).read_cookie = R.read_cookie
      /\ Moved(R).immediate_cookie = R.immediate_cookie
    BY <1>2, Zenon DEF Moved, Reader
<1>4. ASSUME NEW c \in Nat, NEW t \in Nat, Holds(R, c, t)
      PROVE  Holds(Moved(R), c, t)
    <2> DEFINE a == c - R.bufpos
               e == a + Len(R.buf)
    <2>1. /\ a \in Nat /\ e \in Nat /\ e <= t /\ R.buf = Bytes(a, e)
          /\ R.read_cookie.got = Bytes(e, t)
        BY <1>1, <1>4 DEF Holds
    <2>2. /\ Len(R.buf) = e - a /\ R.bufpos \in 0 .. e - a /\ a <= e
        BY <1>1, <2>1
    <2>3. SubSeq(Bytes(a, e), R.bufpos + 1, e - a) = Bytes(a + R.bufpos, e)
        <3> HIDE DEF a, e
        <3> QED
            BY <2>1, <2>2, StreamRest, Zenon
    <2>4. a + R.bufpos = c
        BY <1>1
    <2>5. p = Bytes(c, e)
        BY <2>1, <2>2, <2>3, <2>4, Zenon DEF netbuf_read_peek
    <2>6. c - 0 + Len(p) = e
        BY <1>1, <1>2 DEF Buffered
    <2> QED
        BY <1>3, <2>1, <2>5, <2>6 DEF Holds
<1> QED
    BY <1>2, <1>3, <1>4

(* What netbuf_read_wait does before it starts the read.                   *)
Resized(R, len) ==
    IF R.buflen < len THEN netbuf_read_resize_buffer(R, len) ELSE R

(* Then the data are moved to the front if they would not fit.             *)
Placed(R, len) ==
    LET Z == Resized(R, len)
    IN  IF Z.buflen - Z.bufpos < len THEN Moved(Z) ELSE Z

(* A larger buffer holds the same data.                                    *)
LEMMA ResizedFacts ==
    ASSUME NEW R \in Reader, R.bufpos <= Len(R.buf), Len(R.buf) <= R.buflen,
           NEW len \in Nat
    PROVE  LET Z == Resized(R, len)
           IN  /\ Z \in Reader
               /\ Z.bufpos <= Len(Z.buf) /\ Len(Z.buf) <= Z.buflen
               /\ Buffered(Z) = Buffered(R)
               /\ Z.buflen >= len
               /\ Z.buflen = R.buflen \/ Z.buflen < 2 * len
               /\ Z.read_cookie = R.read_cookie
               /\ Z.immediate_cookie = R.immediate_cookie
               /\ \A c, t \in Nat : Holds(R, c, t) => Holds(Z, c, t)
<1> DEFINE Z == Resized(R, len)
           M == Moved(R)
           new == IF 2 * R.buflen < len THEN len ELSE 2 * R.buflen
<1>1. /\ R.buflen \in Nat /\ R.bufpos \in Nat /\ Len(R.buf) \in Nat
    BY DEF Reader
<1>2. /\ M \in Reader /\ M.bufpos = 0 /\ Len(M.buf) = Buffered(R)
      /\ M.buflen = R.buflen
      /\ M.read_cookie = R.read_cookie
      /\ M.immediate_cookie = R.immediate_cookie
      /\ \A c, t \in Nat : Holds(R, c, t) => Holds(M, c, t)
    BY MovedFacts
<1>3. CASE R.buflen < len
    <2> HIDE DEF M
    <2>1. Z = [M EXCEPT !.buflen = new]
        BY <1>3 DEF Resized, netbuf_read_resize_buffer, M
    <2>2. new \in Nat /\ new >= len /\ new < 2 * len /\ new >= R.buflen
        BY <1>1, <1>3
    <2> HIDE DEF Z, new
    <2>3. /\ Z \in Reader /\ Z.bufpos = M.bufpos /\ Z.buf = M.buf
          /\ Z.buflen = new
          /\ Z.read_cookie = M.read_cookie
          /\ Z.immediate_cookie = M.immediate_cookie
        BY <1>2, <2>1, <2>2, Zenon DEF Reader
    <2>4. \A c, t \in Nat : Holds(M, c, t) => Holds(Z, c, t)
        BY <2>3 DEF Holds
    <2>5. Buffered(Z) = Buffered(R) /\ Len(Z.buf) <= Z.buflen /\ Buffered(R) \in Nat
        BY <1>1, <1>2, <2>2, <2>3 DEF Buffered
    <2> QED
        BY <1>2, <2>2, <2>3, <2>4, <2>5 DEF Z
<1>4. CASE ~(R.buflen < len)
    BY <1>1, <1>4 DEF Resized
<1> QED
    BY <1>3, <1>4

(* There is room for the bytes that are missing, and the same data.        *)
LEMMA PlacedFacts ==
    ASSUME NEW R \in Reader, R.bufpos <= Len(R.buf), Len(R.buf) <= R.buflen,
           NEW len \in Nat
    PROVE  LET T == Placed(R, len)
           IN  /\ T \in Reader
               /\ T.bufpos <= Len(T.buf) /\ Len(T.buf) <= T.buflen
               /\ Buffered(T) = Buffered(R)
               /\ T.buflen - T.bufpos >= len
               /\ T.buflen = R.buflen \/ T.buflen < 2 * len
               /\ T.read_cookie = R.read_cookie
               /\ T.immediate_cookie = R.immediate_cookie
               /\ \A c, t \in Nat : Holds(R, c, t) => Holds(T, c, t)
<1> DEFINE Z == Resized(R, len)
           T == Placed(R, len)
<1>1. /\ Z \in Reader
      /\ Z.bufpos <= Len(Z.buf) /\ Len(Z.buf) <= Z.buflen
      /\ Buffered(Z) = Buffered(R)
      /\ Z.buflen >= len
      /\ Z.buflen = R.buflen \/ Z.buflen < 2 * len
      /\ Z.read_cookie = R.read_cookie
      /\ Z.immediate_cookie = R.immediate_cookie
      /\ \A c, t \in Nat : Holds(R, c, t) => Holds(Z, c, t)
    BY ResizedFacts
<1> HIDE DEF Z
<1>2. /\ Z.buflen \in Nat /\ Z.bufpos \in Nat /\ Len(Z.buf) \in Nat
    BY <1>1 DEF Reader
<1>3. CASE Z.buflen - Z.bufpos < len
    <2>1. T = Moved(Z)
        BY <1>3 DEF Placed, Z
    <2> HIDE DEF T
    <2>2. /\ T \in Reader /\ T.bufpos = 0 /\ Len(T.buf) = Buffered(Z)
          /\ T.buflen = Z.buflen
          /\ T.read_cookie = Z.read_cookie
          /\ T.immediate_cookie = Z.immediate_cookie
          /\ \A c, t \in Nat : Holds(Z, c, t) => Holds(T, c, t)
        BY <1>1, <2>1, MovedFacts
    <2>3. /\ Buffered(T) = Buffered(Z) /\ T.bufpos <= Len(T.buf)
          /\ Len(T.buf) <= T.buflen /\ T.buflen - T.bufpos >= len
        BY <1>1, <1>2, <2>2 DEF Buffered
    <2> QED
        BY <1>1, <2>2, <2>3 DEF T
<1>4. CASE ~(Z.buflen - Z.bufpos < len)
    <2>1. T = Z
        BY <1>4 DEF Placed, Z
    <2> HIDE DEF T
    <2> QED
        BY <1>1, <1>2, <1>4, <2>1 DEF T
<1> QED
    BY <1>3, <1>4

-----------------------------------------------------------------------------
(* Waiting and failing to wait.  T is the reader with its data in place.   *)
LEMMA WaitStep ==
    ASSUME ReaderInv, NEW len \in Lens, Wait(len) \/ WaitFails(len)
    PROVE  ReaderInv'
<1> DEFINE R == reader
           T == Placed(R, len)
           read == network_read(T.buflen - Len(T.buf), T.bufpos + len - Len(T.buf))
           imm == [R EXCEPT !.immediate_cookie = TRUE]
<1>1. /\ R \in Reader /\ R.bufpos <= Len(R.buf) /\ Len(R.buf) <= R.buflen
      /\ ~R.read_cookie.on /\ ~R.immediate_cookie /\ R.read_cookie.got = <<>>
      /\ len \in Nat /\ Buffered(R) \in Nat
      /\ R.buflen \in Nat /\ R.bufpos \in Nat /\ Len(R.buf) \in Nat
    BY ReaderAssumption
       DEF ReaderInv, ReaderTypes, ReaderSound, Unread, Wait, WaitFails, Idle, Waiting, Buffered, Reader
<1>2. /\ T \in Reader
      /\ T.bufpos <= Len(T.buf) /\ Len(T.buf) <= T.buflen
      /\ Buffered(T) = Buffered(R)
      /\ T.buflen - T.bufpos >= len
      /\ T.buflen = R.buflen \/ T.buflen < 2 * len
      /\ T.read_cookie = R.read_cookie
      /\ T.immediate_cookie = R.immediate_cookie
      /\ \A c, t \in Nat : Holds(R, c, t) => Holds(T, c, t)
    BY <1>1, PlacedFacts
<1>3. netbuf_read_wait(R, len) =
        IF Buffered(R) >= len THEN imm ELSE [T EXCEPT !.read_cookie = read]
    BY DEF netbuf_read_wait, Placed, Resized
<1> HIDE DEF T
<1>4. /\ T.buflen \in Nat /\ T.bufpos \in Nat /\ Len(T.buf) \in Nat
    BY <1>2 DEF Reader
<1>5. /\ wanted' = len /\ owned' = owned /\ taken' = taken /\ consumed' = consumed
      /\ ended' = ended /\ spoiled' = spoiled /\ answer' \in {-1, 2}
    BY DEF Wait, WaitFails
<1>6. /\ owned \in BOOLEAN /\ taken \in Nat /\ consumed \in Nat /\ ended \in BOOLEAN
      /\ spoiled \in BOOLEAN /\ (~spoiled => Holds(R, consumed, taken))
      /\ BufferIsBounded
    BY DEF ReaderInv, ReaderTypes
<1> DEFINE Good ==
        /\ reader' \in Reader
        /\ ReaderSound(reader')
        /\ Unread(reader')
        /\ ~spoiled => Holds(reader', consumed, taken)
        /\ reader'.read_cookie.on =>
              Buffered(reader') + reader'.read_cookie.min = len
        /\ reader'.immediate_cookie => Buffered(reader') >= len
        /\ reader'.buflen = R.buflen \/ reader'.buflen < 2 * len
<1>7. SUFFICES Good
    <2>1. ReaderTypes'
        BY <1>1, <1>5, <1>6, <1>7 DEF ReaderTypes
    <2>2. AsksForMissing' /\ StatusIsRight'
        BY <1>5, <1>7 DEF AsksForMissing, StatusIsRight
    <2>3. BufferIsBounded'
        BY <1>6, <1>7 DEF BufferIsBounded
    <2>4. (~spoiled => Holds(reader, consumed, taken))'
        BY <1>5, <1>7
    <2> QED
        BY <1>7, <2>1, <2>2, <2>3, <2>4 DEF ReaderInv
<1>8. CASE reader' = imm /\ Buffered(R) >= len
    <2>1. /\ imm \in Reader /\ imm.buf = R.buf /\ imm.bufpos = R.bufpos
          /\ imm.buflen = R.buflen /\ imm.read_cookie = R.read_cookie
          /\ imm.immediate_cookie = TRUE
        BY <1>1, Zenon DEF Reader
    <2> HIDE DEF imm
    <2>2. Len(imm.read_cookie.got) = 0
        BY <1>1, <2>1
    <2>3. ReaderSound(imm) /\ Unread(imm)
        <3>1. /\ imm.bufpos <= Len(imm.buf)
              /\ Len(imm.buf) + Len(imm.read_cookie.got) <= imm.buflen
            <4>1. /\ R.bufpos <= Len(R.buf) /\ Len(R.buf) + 0 <= R.buflen
                BY <1>1
            <4>2. imm.buf = R.buf /\ imm.bufpos = R.bufpos /\ imm.buflen = R.buflen
                BY <2>1
            <4> QED
                BY <2>2, <4>1, <4>2
        <3>2. ~imm.read_cookie.on /\ imm.read_cookie.got = <<>>
            BY <1>1, <2>1
        <3> QED
            BY <3>1, <3>2 DEF ReaderSound, Unread
    <2>4. ~spoiled => Holds(imm, consumed, taken)
        BY <1>6, <2>1 DEF Holds
    <2>5. Buffered(imm) = Buffered(R)
        BY <2>1 DEF Buffered
    <2> QED
        BY <1>1, <1>8, <2>1, <2>3, <2>4, <2>5
<1>9. CASE reader' = [T EXCEPT !.read_cookie = read] /\ Buffered(R) < len
    <2>1. /\ T.buflen - Len(T.buf) \in Nat \ {0}
          /\ T.bufpos + len - Len(T.buf) \in 1 .. T.buflen - Len(T.buf)
          /\ Buffered(T) + (T.bufpos + len - Len(T.buf)) = len
        <3>1. Len(T.buf) - T.bufpos < len
            BY <1>2, <1>9 DEF Buffered
        <3>2. /\ len \in Nat /\ T.bufpos <= Len(T.buf) /\ Len(T.buf) <= T.buflen
              /\ T.buflen - T.bufpos >= len
            BY <1>1, <1>2
        <3>3. \A l, p, d, b \in Nat :
                p <= d /\ d <= b /\ b - p >= l /\ d - p < l =>
                    /\ b - d \in Nat \ {0}
                    /\ p + l - d \in 1 .. b - d
                    /\ d - p + (p + l - d) = l
            OBVIOUS
        <3> QED
            BY <1>4, <3>1, <3>2, <3>3, Zenon DEF Buffered
    <2>2. /\ read.on /\ read.got = <<>> /\ read.max = T.buflen - Len(T.buf)
          /\ read.min = T.bufpos + len - Len(T.buf)
          /\ read \in [on : BOOLEAN, got : Seq(Nat), max : Nat, min : Nat]
        BY <2>1 DEF network_read
    <2> HIDE DEF read
    <2>3. /\ reader' \in Reader
          /\ reader'.buf = T.buf /\ reader'.bufpos = T.bufpos
          /\ reader'.buflen = T.buflen /\ reader'.read_cookie = read
          /\ reader'.immediate_cookie = T.immediate_cookie
        BY <1>2, <1>9, <2>2, Zenon DEF Reader
    <2>4. ReaderSound(reader') /\ Unread(reader')
        <3>1. Len(read.got) = 0
            BY <2>2
        <3>2. /\ reader'.bufpos <= Len(reader'.buf)
              /\ Len(reader'.buf) + Len(reader'.read_cookie.got) <= reader'.buflen
              /\ Len(reader'.buf) + reader'.read_cookie.max = reader'.buflen
              /\ reader'.read_cookie.max > 0
              /\ reader'.read_cookie.min \in 1 .. reader'.read_cookie.max
            <4>1. T.bufpos <= Len(T.buf) /\ Len(T.buf) <= T.buflen
                BY <1>2
            <4>2. reader'.buf = T.buf /\ reader'.bufpos = T.bufpos
                  /\ reader'.buflen = T.buflen /\ reader'.read_cookie = read
                BY <2>3
            <4>3. /\ read.max = T.buflen - Len(T.buf)
                  /\ read.min = T.bufpos + len - Len(T.buf)
                BY <2>2
            <4>4. Len(T.buf) + (T.buflen - Len(T.buf)) = T.buflen
                BY <1>4
            <4>5. /\ T.bufpos <= Len(T.buf)
                  /\ Len(T.buf) + Len(read.got) <= T.buflen
                  /\ Len(T.buf) + read.max = T.buflen
                  /\ read.max > 0
                  /\ read.min \in 1 .. read.max
                BY <1>4, <2>1, <3>1, <4>1, <4>3, <4>4
            <4> QED
                BY <4>2, <4>5, Zenon
        <3>3. reader'.read_cookie.on /\ ~reader'.immediate_cookie
            BY <1>1, <1>2, <2>2, <2>3
        <3> QED
            BY <3>2, <3>3, Zenon DEF ReaderSound, Unread
    <2>5. ~spoiled => Holds(reader', consumed, taken)
        BY <1>1, <1>2, <1>6, <2>2, <2>3 DEF Holds
    <2> QED
        BY <1>1, <1>2, <2>1, <2>2, <2>3, <2>4, <2>5 DEF Buffered
<1>10. ASSUME NEW Q \in Reader, Q.bufpos <= Len(Q.buf), Len(Q.buf) <= Q.buflen,
              Q.buflen = R.buflen \/ Q.buflen < 2 * len,
              Q.read_cookie.got = <<>>,
              ~spoiled => Holds(Q, consumed, taken),
              reader' = [Q EXCEPT !.read_cookie = NoRead, !.immediate_cookie = FALSE]
       PROVE  Good
    <2>1. /\ reader' \in Reader
          /\ reader'.buf = Q.buf /\ reader'.bufpos = Q.bufpos
          /\ reader'.buflen = Q.buflen
          /\ reader'.read_cookie.on = FALSE /\ reader'.read_cookie.got = <<>>
          /\ reader'.immediate_cookie = FALSE
        BY <1>10, Zenon DEF Reader, NoRead
    <2>2. Q.buf \in Seq(Nat) /\ Q.buflen \in Nat /\ Len(Q.buf) \in Nat
        BY DEF Reader
    <2>3. ReaderSound(reader') /\ Unread(reader')
        <3>1. Len(reader'.read_cookie.got) = 0
            BY <2>1
        <3>2. Q.bufpos <= Len(Q.buf) /\ Len(Q.buf) <= Q.buflen
            BY <1>10
        <3> QED
            BY <2>1, <2>2, <3>1, <3>2 DEF ReaderSound, Unread
    <2>4. ~spoiled => Holds(reader', consumed, taken)
        BY <1>10, <2>1 DEF Holds
    <2> QED
        BY <1>10, <2>1, <2>3, <2>4
<1>11. CASE reader' = R
    BY <1>1, <1>6, <1>11, Zenon DEF ReaderInv, ReaderSound, Unread
<1>12. CASE reader' = [netbuf_read_wait(R, len) EXCEPT
                        !.read_cookie = NoRead, !.immediate_cookie = FALSE]
    <2>1. \/ reader' = [R EXCEPT !.read_cookie = NoRead, !.immediate_cookie = FALSE]
          \/ reader' = [T EXCEPT !.read_cookie = NoRead, !.immediate_cookie = FALSE]
        <3> HIDE DEF read
        <3> QED
            BY <1>1, <1>2, <1>3, <1>12, Zenon DEF Reader
    <2> HIDE DEF Good
    <2>2. CASE reader' = [R EXCEPT !.read_cookie = NoRead, !.immediate_cookie = FALSE]
        BY <1>1, <1>6, <1>10, <2>2, Zenon
    <2>3. CASE reader' = [T EXCEPT !.read_cookie = NoRead, !.immediate_cookie = FALSE]
        BY <1>1, <1>2, <1>6, <1>10, <2>3, Zenon
    <2> QED
        BY <2>1, <2>2, <2>3
<1>13. CASE Wait(len)
    <2> HIDE DEF Good, read
    <2>1. \/ reader' = imm /\ Buffered(R) >= len
          \/ reader' = [T EXCEPT !.read_cookie = read] /\ Buffered(R) < len
        BY <1>1, <1>3, <1>13 DEF Wait
    <2> QED
        BY <1>8, <1>9, <2>1
<1>14. CASE WaitFails(len)
    <2> HIDE DEF Good
    <2> QED
        BY <1>11, <1>12, <1>14 DEF WaitFails
<1> QED
    BY <1>13, <1>14

-----------------------------------------------------------------------------
(* recv puts the next bytes of the stream behind those it has.             *)
LEMMA RecvFacts ==
    ASSUME NEW R \in Reader, NEW t \in Nat, NEW n \in Nat
    PROVE  LET Q == recv(R, Bytes(t, t + n))
           IN  /\ Q \in Reader
               /\ Q.buf = R.buf /\ Q.bufpos = R.bufpos /\ Q.buflen = R.buflen
               /\ Q.immediate_cookie = R.immediate_cookie
               /\ Q.read_cookie.on = R.read_cookie.on
               /\ Q.read_cookie.max = R.read_cookie.max
               /\ Q.read_cookie.min = R.read_cookie.min
               /\ Len(Q.read_cookie.got) = Len(R.read_cookie.got) + n
               /\ \A c \in Nat : Holds(R, c, t) => Holds(Q, c, t + n)
<1> DEFINE new == Bytes(t, t + n)
           Q == recv(R, new)
           got == R.read_cookie.got
<1>1. new \in Seq(Nat) /\ Len(new) = n
    <2>1. t + n \in Nat /\ t <= t + n /\ (t + n) - t = n
        OBVIOUS
    <2>2. new \in Seq(Nat) /\ Len(new) = (t + n) - t
        BY <2>1, StreamFacts
    <2> QED
        BY <2>1, <2>2
<1>2. got \in Seq(Nat) /\ R.buf \in Seq(Nat) /\ R.bufpos \in Nat /\ Len(R.buf) \in Nat
    BY DEF Reader
<1>3. got \o new \in Seq(Nat) /\ Len(got \o new) = Len(got) + n
    <2> HIDE DEF got, new
    <2> QED
        BY <1>1, <1>2, ConcatProperties, Zenon
<1>4. /\ Q.buf = R.buf /\ Q.bufpos = R.bufpos /\ Q.buflen = R.buflen
      /\ Q.immediate_cookie = R.immediate_cookie
      /\ Q.read_cookie = [R.read_cookie EXCEPT !.got = got \o new]
      /\ Q = [R EXCEPT !.read_cookie = [R.read_cookie EXCEPT !.got = got \o new]]
    BY DEF recv, Reader
<1> HIDE DEF new, Q
<1>5. /\ Q.read_cookie \in [on : BOOLEAN, got : Seq(Nat), max : Nat, min : Nat]
      /\ Q.read_cookie.got = got \o new
      /\ Q.read_cookie.on = R.read_cookie.on
      /\ Q.read_cookie.max = R.read_cookie.max
      /\ Q.read_cookie.min = R.read_cookie.min
    BY <1>3, <1>4, Zenon DEF Reader
<1>6. Q \in Reader
    BY <1>4, <1>5, Zenon DEF Reader
<1>7. ASSUME NEW c \in Nat, Holds(R, c, t)
      PROVE  Holds(Q, c, t + n)
    <2> DEFINE a == c - R.bufpos
               e == a + Len(R.buf)
    <2>1. /\ a \in Nat /\ e \in Nat /\ e <= t /\ R.buf = Bytes(a, e)
          /\ got = Bytes(e, t)
        BY <1>2, <1>7 DEF Holds
    <2>2. Bytes(e, t) \o Bytes(t, t + n) = Bytes(e, t + n)
        <3> HIDE DEF a, e
        <3>1. t + n \in Nat /\ t <= t + n
            OBVIOUS
        <3> QED
            BY <2>1, <3>1, StreamConcat, Zenon
    <2>3. Q.read_cookie.got = Bytes(e, t + n)
        BY <1>5, <2>1, <2>2 DEF new
    <2>4. e <= t + n
        BY <2>1
    <2> QED
        BY <1>4, <2>1, <2>3, <2>4 DEF Holds
<1> QED
    BY <1>3, <1>4, <1>5, <1>6, <1>7, Zenon DEF Q, new

(* A read ends: all it has received becomes part of the buffer, or none.   *)
LEMMA ReadDone ==
    ASSUME NEW R \in Reader, ReaderSound(R), R.read_cookie.on,
           NEW n \in {0, Len(R.read_cookie.got)}
    PROVE  LET Q == callback_read(R, n)
           IN  /\ Q \in Reader /\ ReaderSound(Q) /\ Unread(Q)
               /\ Q.buflen = R.buflen
               /\ ~Q.read_cookie.on /\ ~Q.immediate_cookie
               /\ Buffered(Q) = Buffered(R) + n
               /\ \A c, t \in Nat :
                    Holds(R, c, t) /\ n = Len(R.read_cookie.got) => Holds(Q, c, t)
<1> DEFINE got == R.read_cookie.got
           new == SubSeq(got, 1, n)
           Q == callback_read(R, n)
<1>1. /\ got \in Seq(Nat) /\ R.buf \in Seq(Nat) /\ R.bufpos \in Nat
      /\ Len(R.buf) \in Nat /\ Len(got) \in Nat /\ R.buflen \in Nat
    BY DEF Reader
<1>2. new \in Seq(Nat) /\ Len(new) = n /\ (n = Len(got) => new = got)
    <2>1. CASE n = 0
        <3>1. new = <<>>
            BY <2>1
        <3>2. Len(got) = 0 => got = <<>>
            BY <1>1, EmptySeq
        <3> QED
            BY <2>1, <3>1, <3>2, EmptySeq, Zenon
    <2>2. CASE n = Len(got)
        BY <1>1, <2>2, SubSeqFull
    <2> QED
        BY <2>1, <2>2
<1> HIDE DEF new
<1>3. R.buf \o new \in Seq(Nat) /\ Len(R.buf \o new) = Len(R.buf) + n
    <2>1. R.buf \o new \in Seq(Nat) /\ Len(R.buf \o new) = Len(R.buf) + Len(new)
        BY ONLY <1>1, <1>2, ConcatProperties, Zenon
    <2> QED
        BY ONLY <1>2, <2>1, Zenon
<1>4. /\ Q \in Reader /\ Q.buf = R.buf \o new
      /\ Q.bufpos = R.bufpos /\ Q.buflen = R.buflen
      /\ Q.read_cookie = NoRead /\ Q.immediate_cookie = R.immediate_cookie
    <2>1. Q = [[R EXCEPT !.buf = R.buf \o new] EXCEPT !.read_cookie = NoRead]
        BY DEF callback_read, new
    <2>2. NoRead \in [on : BOOLEAN, got : Seq(Nat), max : Nat, min : Nat]
        BY DEF NoRead
    <2> HIDE DEF Q
    <2> QED
        BY <1>3, <2>1, <2>2, Zenon DEF Reader
<1> HIDE DEF Q
<1>5. Q.read_cookie.on = FALSE /\ Q.read_cookie.got = <<>> /\ Len(Q.read_cookie.got) = 0
    BY <1>4 DEF NoRead
<1>6. /\ R.bufpos <= Len(R.buf) /\ Len(R.buf) + Len(got) <= R.buflen
      /\ ~R.immediate_cookie
    BY Zenon DEF ReaderSound
<1>7. ~Q.immediate_cookie
    BY <1>4, <1>6
<1>8. /\ Q.bufpos <= Len(Q.buf)
      /\ Len(Q.buf) + Len(Q.read_cookie.got) <= Q.buflen
    <2>1. /\ R.bufpos <= Len(R.buf) + n
          /\ Len(R.buf) + n + 0 <= R.buflen
        <3>1. n \in Nat /\ n <= Len(got)
            BY <1>1
        <3>2. \A p, d, g, k, b \in Nat :
                p <= d /\ d + g <= b /\ k <= g => p <= d + k /\ d + k + 0 <= b
            OBVIOUS
        <3>3. /\ R.bufpos \in Nat /\ Len(R.buf) \in Nat /\ Len(got) \in Nat
              /\ R.buflen \in Nat
            BY <1>1
        <3>4. R.bufpos <= Len(R.buf) /\ Len(R.buf) + Len(got) <= R.buflen
            BY <1>6, Zenon
        <3> HIDE DEF got
        <3> QED
            BY <3>1, <3>2, <3>3, <3>4
    <2> QED
        BY <1>3, <1>4, <1>5, <2>1, Zenon
<1>9. ReaderSound(Q) /\ Unread(Q)
    BY <1>5, <1>7, <1>8 DEF ReaderSound, Unread
<1>10. Buffered(Q) = Buffered(R) + n
    BY <1>1, <1>3, <1>4 DEF Buffered
<1>11. ASSUME NEW c \in Nat, NEW t \in Nat, Holds(R, c, t), n = Len(got)
       PROVE  Holds(Q, c, t)
    <2> DEFINE a == c - R.bufpos
               e == a + Len(R.buf)
    <2>1. /\ a \in Nat /\ e \in Nat /\ e <= t /\ R.buf = Bytes(a, e)
          /\ got = Bytes(e, t)
        BY <1>1, <1>11 DEF Holds
    <2>2. Bytes(a, e) \o Bytes(e, t) = Bytes(a, t) /\ Len(Bytes(e, t)) = t - e
        <3>1. a <= e
            BY <1>1
        <3> HIDE DEF a, e
        <3> QED
            BY <2>1, <3>1, StreamConcat, StreamFacts, Zenon
    <2>3. Q.buf = Bytes(a, t)
        BY <1>2, <1>4, <1>11, <2>1, <2>2, Zenon
    <2>4. a + Len(Q.buf) = t
        <3>1. Len(got) = t - e
            BY <2>1, <2>2
        <3>2. a + (Len(R.buf) + Len(got)) = t
            <4>1. \A x, y, z, u \in Nat : y = u - (x + z) => x + (z + y) = u
                OBVIOUS
            <4>2. a \in Nat /\ Len(R.buf) \in Nat /\ Len(got) \in Nat
                BY <1>1, <2>1
            <4>3. Len(got) = t - (a + Len(R.buf))
                BY <3>1
            <4> HIDE DEF got, a
            <4> QED
                BY <4>1, <4>2, <4>3
        <3> QED
            BY <1>3, <1>4, <1>11, <3>2, Zenon
    <2>5. Bytes(t, t) = <<>>
        <3>1. Bytes(t, t) \in Seq(Nat) /\ Len(Bytes(t, t)) = 0
            BY StreamFacts
        <3> QED
            BY <3>1, EmptySeq
    <2>6. Q.read_cookie.got = Bytes(t, t)
        BY <1>5, <2>5
    <2> QED
        BY <1>4, <2>1, <2>3, <2>4, <2>6 DEF Holds
<1> QED
    BY <1>4, <1>5, <1>7, <1>9, <1>10, <1>11 DEF Q

-----------------------------------------------------------------------------
(* The other steps                                                         *)

(* Bytes arrive, and perhaps enough of them.                               *)
LEMMA RecvStep ==
    ASSUME ReaderInv, NEW n \in 1 .. MaxTaken, Recv(n)
    PROVE  ReaderInv'
<1> DEFINE Q == recv(reader, Bytes(taken, taken + n))
           D == callback_read(Q, Len(Q.read_cookie.got))
<1>1. /\ reader \in Reader /\ taken \in Nat /\ consumed \in Nat /\ wanted \in Nat
      /\ n \in Nat /\ taken + n \in Nat
    BY ReaderAssumption DEF ReaderInv, ReaderTypes
<1>2. /\ Q \in Reader
      /\ Q.buf = reader.buf /\ Q.bufpos = reader.bufpos /\ Q.buflen = reader.buflen
      /\ Q.immediate_cookie = reader.immediate_cookie
      /\ Q.read_cookie.on = reader.read_cookie.on
      /\ Q.read_cookie.max = reader.read_cookie.max
      /\ Q.read_cookie.min = reader.read_cookie.min
      /\ Len(Q.read_cookie.got) = Len(reader.read_cookie.got) + n
      /\ \A c \in Nat : Holds(reader, c, taken) => Holds(Q, c, taken + n)
    BY <1>1, RecvFacts, Zenon
<1>3. /\ reader.read_cookie.on /\ n <= reader.read_cookie.max - Len(reader.read_cookie.got)
      /\ taken' = taken + n
      /\ owned' = owned /\ wanted' = wanted /\ consumed' = consumed
      /\ ended' = ended /\ spoiled' = spoiled
      /\ IF KeepGoing(Q) THEN reader' = Q /\ answer' = answer
         ELSE reader' = D /\ answer' = 0
    BY DEF Recv
<1> HIDE DEF Q
<1>4. /\ ReaderSound(reader) /\ (~spoiled => Holds(reader, consumed, taken))
      /\ AsksForMissing /\ StatusIsRight /\ BufferIsBounded
      /\ owned \in BOOLEAN /\ ended \in BOOLEAN /\ spoiled \in BOOLEAN
      /\ answer \in {-1, 0, 1, 2}
    BY DEF ReaderInv, ReaderTypes
<1>5. ReaderSound(Q)
    <2>1. /\ reader.bufpos <= Len(reader.buf)
          /\ reader.read_cookie.on /\ ~reader.immediate_cookie
          /\ reader.read_cookie.max > 0
          /\ Len(reader.buf) + reader.read_cookie.max = reader.buflen
          /\ reader.read_cookie.min \in 1 .. reader.read_cookie.max
        BY <1>3, <1>4 DEF ReaderSound
    <2>2. Len(reader.buf) + (Len(reader.read_cookie.got) + n) <= reader.buflen
        <3>1. \A d, g, k, m, b \in Nat : d + m = b /\ k <= m - g => d + (g + k) <= b
            OBVIOUS
        <3>2. /\ Len(reader.buf) \in Nat /\ Len(reader.read_cookie.got) \in Nat
              /\ reader.read_cookie.max \in Nat /\ reader.buflen \in Nat
            BY <1>1 DEF Reader
        <3> QED
            BY <1>1, <1>3, <2>1, <3>1, <3>2, Zenon
    <2> QED
        BY <1>2, <2>1, <2>2, Zenon DEF ReaderSound
<1>6. Q.read_cookie.on /\ Unread(Q)
    BY <1>2, <1>3 DEF Unread
<1>7. ~spoiled' => Holds(Q, consumed', taken')
    BY <1>1, <1>2, <1>3, <1>4
<1>8. Buffered(Q) = Buffered(reader) /\ Buffered(Q) + Q.read_cookie.min = wanted
    BY <1>2, <1>3, <1>4 DEF Buffered, AsksForMissing
<1>9. CASE KeepGoing(Q)
    <2>1. reader' = Q /\ answer' = answer
        BY <1>3, <1>9
    <2>2. ReaderTypes'
        BY <1>1, <1>2, <1>3, <1>4, <2>1 DEF ReaderTypes
    <2>3. AsksForMissing'
        <3>1. ~Q.immediate_cookie
            BY <1>5, <1>6 DEF ReaderSound
        <3> QED
            BY <1>3, <1>8, <2>1, <3>1 DEF AsksForMissing
    <2>4. StatusIsRight'
        BY <1>3, <1>4, <1>8, <2>1 DEF StatusIsRight
    <2>5. BufferIsBounded'
        BY <1>2, <1>4, <2>1 DEF BufferIsBounded
    <2> QED
        BY <1>5, <1>6, <1>7, <2>1, <2>2, <2>3, <2>4, <2>5 DEF ReaderInv
<1>10. CASE ~KeepGoing(Q)
    <2>1. reader' = D /\ answer' = 0
        BY <1>3, <1>10
    <2>2. /\ D \in Reader /\ ReaderSound(D) /\ Unread(D)
          /\ D.buflen = Q.buflen
          /\ ~D.read_cookie.on /\ ~D.immediate_cookie
          /\ Buffered(D) = Buffered(Q) + Len(Q.read_cookie.got)
          /\ \A c, t \in Nat : Holds(Q, c, t) => Holds(D, c, t)
        BY <1>2, <1>5, <1>6, ReadDone
    <2> HIDE DEF D
    <2>3. ReaderTypes'
        BY <1>1, <1>3, <1>4, <2>1, <2>2 DEF ReaderTypes
    <2>4. AsksForMissing'
        BY <2>1, <2>2 DEF AsksForMissing
    <2>5. StatusIsRight'
        <3>1. /\ Len(Q.read_cookie.got) \in Nat /\ Q.read_cookie.min \in Nat
              /\ Buffered(Q) \in Int
            BY <1>2 DEF Reader, Buffered
        <3>2. Len(Q.read_cookie.got) >= Q.read_cookie.min
            BY <1>10, <3>1 DEF KeepGoing
        <3>3. \A b \in Int : \A g, m, w \in Nat : g >= m /\ b + m = w => b + g >= w
            OBVIOUS
        <3>4. Buffered(D) >= wanted
            BY <1>1, <1>8, <2>2, <3>1, <3>2, <3>3
        <3> QED
            BY <1>3, <2>1, <3>4 DEF StatusIsRight
    <2>6. BufferIsBounded'
        BY <1>2, <1>4, <2>1, <2>2 DEF BufferIsBounded
    <2>7. (~spoiled => Holds(reader, consumed, taken))'
        BY <1>1, <1>3, <1>7, <2>1, <2>2
    <2> QED
        BY <2>1, <2>2, <2>3, <2>4, <2>5, <2>6, <2>7 DEF ReaderInv
<1> QED
    BY <1>9, <1>10

(* The read ends with the stream, or fails.                                *)
LEMMA EndStep ==
    ASSUME ReaderInv, RecvEof \/ RecvFails
    PROVE  ReaderInv'
<1> DEFINE got == reader.read_cookie.got
           D == callback_read(reader, Len(got))
           E == callback_read(reader, 0)
<1>1. /\ reader \in Reader /\ ReaderSound(reader) /\ reader.read_cookie.on
      /\ Len(got) \in Nat /\ Buffered(reader) \in Nat
      /\ (got = <<>> <=> Len(got) = 0)
    <2>1. reader \in Reader /\ ReaderSound(reader) /\ reader.read_cookie.on
        BY DEF ReaderInv, ReaderTypes, RecvEof, RecvFails
    <2>2. Len(got) \in Nat /\ (got = <<>> <=> Len(got) = 0)
        BY <2>1, EmptySeq DEF Reader
    <2>3. Buffered(reader) \in Nat
        BY <2>1 DEF Reader, ReaderSound, Buffered
    <2> QED
        BY <2>1, <2>2, <2>3
<1>2. /\ D \in Reader /\ ReaderSound(D) /\ Unread(D)
      /\ D.buflen = reader.buflen
      /\ ~D.read_cookie.on /\ ~D.immediate_cookie
      /\ Buffered(D) = Buffered(reader) + Len(got)
      /\ \A c, t \in Nat : Holds(reader, c, t) => Holds(D, c, t)
    BY <1>1, ReadDone
<1>3. /\ E \in Reader /\ ReaderSound(E) /\ Unread(E)
      /\ E.buflen = reader.buflen
      /\ ~E.read_cookie.on /\ ~E.immediate_cookie
    BY <1>1, ReadDone
<1>4. got = <<>> => E = D
    BY <1>1
<1> HIDE DEF D, E
<1>5. /\ owned \in BOOLEAN /\ ended \in BOOLEAN /\ spoiled \in BOOLEAN
      /\ taken \in Nat /\ consumed \in Nat /\ wanted \in Nat
      /\ (~spoiled => Holds(reader, consumed, taken)) /\ BufferIsBounded
    BY DEF ReaderInv, ReaderTypes
<1>6. /\ owned' = owned /\ taken' = taken /\ consumed' = consumed /\ wanted' = wanted
    BY DEF RecvEof, RecvFails
<1>7. CASE RecvEof
    <2>1. /\ reader' = D /\ ended' = TRUE /\ spoiled' = spoiled
          /\ answer' = (IF Len(got) > 0 THEN 0 ELSE 1)
        BY <1>7 DEF RecvEof, D
    <2>2. ReaderTypes' /\ AsksForMissing' /\ BufferIsBounded'
        BY <1>2, <1>5, <1>6, <2>1 DEF ReaderTypes, AsksForMissing, BufferIsBounded
    <2>3. StatusIsRight'
        <3>1. Len(got) > 0 => Buffered(D) > 0
            BY <1>1, <1>2
        <3> QED
            BY <1>1, <2>1, <3>1 DEF StatusIsRight
    <2>4. (~spoiled => Holds(reader, consumed, taken))'
        BY <1>2, <1>5, <1>6, <2>1
    <2> QED
        BY <1>2, <2>1, <2>2, <2>3, <2>4 DEF ReaderInv
<1>8. CASE RecvFails
    <2>1. /\ reader' = E /\ ended' = ended /\ answer' = -1
          /\ spoiled' = (spoiled \/ got # <<>>)
        BY <1>8 DEF RecvFails, E
    <2>2. ReaderTypes' /\ AsksForMissing' /\ BufferIsBounded' /\ StatusIsRight'
        BY <1>3, <1>5, <1>6, <2>1 DEF ReaderTypes, AsksForMissing, BufferIsBounded, StatusIsRight
    <2>3. (~spoiled => Holds(reader, consumed, taken))'
        BY <1>2, <1>4, <1>5, <1>6, <2>1, Zenon
    <2> QED
        BY <1>3, <2>1, <2>2, <2>3 DEF ReaderInv
<1> QED
    BY <1>7, <1>8

(* A wait is cancelled, or ends at once because the data was there.        *)
LEMMA QuietStep ==
    ASSUME ReaderInv, Cancel \/ Success
    PROVE  ReaderInv'
<1> DEFINE R == reader
           got == R.read_cookie.got
           X == [[R EXCEPT !.read_cookie = NoRead] EXCEPT !.immediate_cookie = FALSE]
           Y == [R EXCEPT !.immediate_cookie = FALSE]
<1>1. /\ R \in Reader /\ ReaderSound(R) /\ Unread(R)
      /\ owned \in BOOLEAN /\ ended \in BOOLEAN /\ spoiled \in BOOLEAN
      /\ taken \in Nat /\ consumed \in Nat /\ wanted \in Nat
      /\ (~spoiled => Holds(R, consumed, taken)) /\ BufferIsBounded /\ AsksForMissing
    BY DEF ReaderInv, ReaderTypes
<1>2. /\ R.bufpos <= Len(R.buf) /\ Len(R.buf) + Len(got) <= R.buflen
      /\ Len(R.buf) \in Nat /\ Len(got) \in Nat /\ R.buflen \in Nat
    BY <1>1 DEF ReaderSound, Reader
<1>3. /\ owned' = owned /\ taken' = taken /\ consumed' = consumed /\ wanted' = wanted
      /\ ended' = ended
    BY DEF Cancel, Success
<1>4. CASE Cancel
    <2>1. /\ reader' = X /\ answer' = -1 /\ spoiled' = (spoiled \/ got # <<>>)
        BY <1>4 DEF Cancel, netbuf_read_wait_cancel
    <2>2. NoRead \in [on : BOOLEAN, got : Seq(Nat), max : Nat, min : Nat]
        BY DEF NoRead
    <2>3. /\ X \in Reader /\ X.buf = R.buf /\ X.bufpos = R.bufpos
          /\ X.buflen = R.buflen /\ X.read_cookie = NoRead
          /\ X.immediate_cookie = FALSE
        BY <1>1, <2>2, Zenon DEF Reader
    <2> HIDE DEF X
    <2>4. /\ X.read_cookie.on = FALSE /\ X.read_cookie.got = <<>>
          /\ Len(X.read_cookie.got) = 0
        BY <2>3 DEF NoRead
    <2>5. ReaderSound(X) /\ Unread(X)
        <3>1. Len(R.buf) + 0 <= R.buflen
            <4>1. \A d, g, b \in Nat : d + g <= b => d + 0 <= b
                OBVIOUS
            <4> HIDE DEF got
            <4> QED
                BY <1>2, <4>1
        <3>2. X.bufpos <= Len(X.buf) /\ Len(X.buf) + Len(X.read_cookie.got) <= X.buflen
            BY <1>2, <2>3, <2>4, <3>1, Zenon
        <3> QED
            BY <2>4, <3>2 DEF ReaderSound, Unread
    <2>6. ReaderTypes' /\ AsksForMissing' /\ BufferIsBounded' /\ StatusIsRight'
        BY <1>1, <1>3, <2>1, <2>3, <2>4
           DEF ReaderTypes, AsksForMissing, BufferIsBounded, StatusIsRight
    <2>7. (~spoiled => Holds(reader, consumed, taken))'
        BY <1>1, <1>3, <2>1, <2>3, <2>4, Zenon DEF Holds
    <2> QED
        BY <2>1, <2>5, <2>6, <2>7 DEF ReaderInv
<1>5. CASE Success
    <2>1. /\ reader' = Y /\ answer' = 0 /\ spoiled' = spoiled /\ R.immediate_cookie
        BY <1>5 DEF Success, callback_success
    <2>2. /\ Y \in Reader /\ Y.buf = R.buf /\ Y.bufpos = R.bufpos
          /\ Y.buflen = R.buflen /\ Y.read_cookie = R.read_cookie
          /\ Y.immediate_cookie = FALSE
        BY <1>1, Zenon DEF Reader
    <2> HIDE DEF Y
    <2>3. ~R.read_cookie.on
        BY <1>1, <2>1 DEF ReaderSound
    <2>4. ReaderSound(Y) /\ Unread(Y)
        <3>1. Y.bufpos <= Len(Y.buf) /\ Len(Y.buf) + Len(Y.read_cookie.got) <= Y.buflen
            BY <1>2, <2>2, Zenon
        <3> QED
            BY <1>1, <2>2, <2>3, <3>1, Zenon DEF ReaderSound, Unread
    <2>5. Buffered(Y) >= wanted
        <3>1. Buffered(R) >= wanted
            BY <1>1, <2>1 DEF AsksForMissing
        <3> QED
            BY <2>2, <3>1 DEF Buffered
    <2>6. ReaderTypes' /\ AsksForMissing' /\ BufferIsBounded' /\ StatusIsRight'
        BY <1>1, <1>3, <2>1, <2>2, <2>3, <2>5
           DEF ReaderTypes, AsksForMissing, BufferIsBounded, StatusIsRight
    <2>7. (~spoiled => Holds(reader, consumed, taken))'
        BY <1>1, <1>3, <2>1, <2>2 DEF Holds
    <2> QED
        BY <2>1, <2>4, <2>6, <2>7 DEF ReaderInv
<1> QED
    BY <1>4, <1>5

(* The caller consumes data, or frees the reader.                          *)
LEMMA CallerStep ==
    ASSUME ReaderInv, NEW n \in 1 .. MaxTaken, Consume(n) \/ netbuf_read_free
    PROVE  ReaderInv'
<1> DEFINE R == reader
           X == [R EXCEPT !.bufpos = R.bufpos + n]
<1>1. /\ R \in Reader /\ ReaderSound(R) /\ Unread(R)
      /\ owned \in BOOLEAN /\ ended \in BOOLEAN /\ spoiled \in BOOLEAN
      /\ taken \in Nat /\ consumed \in Nat /\ wanted \in Nat /\ n \in Nat
      /\ (~spoiled => Holds(R, consumed, taken)) /\ BufferIsBounded
      /\ answer \in {-1, 0, 1, 2} /\ AsksForMissing /\ StatusIsRight
    BY ReaderAssumption DEF ReaderInv, ReaderTypes
<1>2. CASE Consume(n)
    <2>1. /\ reader' = X /\ consumed' = consumed + n /\ answer' = 2
          /\ owned' = owned /\ taken' = taken /\ wanted' = wanted
          /\ ended' = ended /\ spoiled' = spoiled
          /\ ~R.read_cookie.on /\ ~R.immediate_cookie /\ n <= Buffered(R)
        BY <1>2 DEF Consume, netbuf_read_consume, Idle, Waiting
    <2>2. R.bufpos \in Nat /\ Len(R.buf) \in Nat /\ R.bufpos + n \in Nat
        BY <1>1 DEF Reader
    <2>3. /\ X \in Reader /\ X.buf = R.buf /\ X.bufpos = R.bufpos + n
          /\ X.buflen = R.buflen /\ X.read_cookie = R.read_cookie
          /\ X.immediate_cookie = R.immediate_cookie
        BY <1>1, <2>2, Zenon DEF Reader
    <2> HIDE DEF X
    <2>4. ReaderSound(X) /\ Unread(X)
        <3>1. R.bufpos + n <= Len(R.buf)
            BY <1>1, <2>1, <2>2 DEF Buffered
        <3> QED
            <4>1. ~X.read_cookie.on /\ X.read_cookie.got = <<>>
                BY <1>1, <2>1, <2>3 DEF Unread
            <4>2. /\ X.bufpos <= Len(X.buf)
                  /\ Len(X.buf) + Len(X.read_cookie.got) <= X.buflen
                BY <1>1, <2>3, <3>1, Zenon DEF ReaderSound
            <4> QED
                BY <4>1, <4>2 DEF ReaderSound, Unread
    <2>5. ReaderTypes' /\ AsksForMissing' /\ BufferIsBounded' /\ StatusIsRight'
        BY <1>1, <2>1, <2>3 DEF ReaderTypes, AsksForMissing, BufferIsBounded, StatusIsRight
    <2>6. (~spoiled => Holds(reader, consumed, taken))'
        <3>1. (consumed + n) - (R.bufpos + n) = consumed - R.bufpos
            BY <1>1, <2>2
        <3> QED
            BY <1>1, <2>1, <2>3, <3>1 DEF Holds
    <2> QED
        BY <2>1, <2>4, <2>5, <2>6 DEF ReaderInv
<1>3. CASE netbuf_read_free
    <2>1. ReaderTypes'
        BY <1>1, <1>3, Zenon DEF ReaderTypes, netbuf_read_free
    <2> QED
        BY <1>1, <1>3, <2>1
           DEF ReaderInv, netbuf_read_free, AsksForMissing, StatusIsRight, BufferIsBounded
<1> QED
    BY <1>2, <1>3

(* A new reader is empty.                                                  *)
LEMMA ReaderInitially == ReaderInit => ReaderInv
<1> SUFFICES ASSUME ReaderInit PROVE ReaderInv
    OBVIOUS
<1> DEFINE R == netbuf_read_init
<1>1. /\ R.buf = <<>> /\ R.bufpos = 0 /\ R.buflen = NETBUFLEN
      /\ R.read_cookie.on = FALSE /\ R.read_cookie.got = <<>>
      /\ R.immediate_cookie = FALSE /\ Len(R.buf) = 0 /\ Len(R.read_cookie.got) = 0
      /\ R \in Reader
    BY NetbufAssumption DEF netbuf_read_init, NoRead, Reader
<1>2. /\ reader = R /\ owned \in BOOLEAN /\ wanted = 0 /\ answer = 2
      /\ taken = 0 /\ consumed = 0 /\ ended = FALSE /\ spoiled = FALSE
    BY DEF ReaderInit
<1> HIDE DEF R
<1>3. ReaderTypes
    BY <1>1, <1>2, Zenon DEF ReaderTypes
<1>4. ReaderSound(R) /\ Unread(R)
    BY <1>1, NetbufAssumption DEF ReaderSound, Unread
<1>5. Holds(R, 0, 0)
    <2>1. Bytes(0, 0) = <<>>
        <3>1. Bytes(0, 0) \in Seq(Nat) /\ Len(Bytes(0, 0)) = 0
            BY StreamFacts
        <3> QED
            BY <3>1, EmptySeq
    <2>2. /\ R.bufpos = 0 /\ Len(R.buf) = 0 /\ R.buf = Bytes(0, 0)
          /\ R.read_cookie.got = Bytes(0, 0)
        BY <1>1, <2>1
    <2> QED
        BY <2>2 DEF Holds
<1>6. AsksForMissing /\ StatusIsRight /\ BufferIsBounded
    BY <1>1, <1>2 DEF AsksForMissing, StatusIsRight, BufferIsBounded
<1> QED
    BY <1>2, <1>3, <1>4, <1>5, <1>6 DEF ReaderInv

(* Every step keeps the invariant.                                         *)
LEMMA ReaderStep == ReaderInv /\ [ReaderNext]_readervars => ReaderInv'
<1> SUFFICES ASSUME ReaderInv, [ReaderNext]_readervars PROVE ReaderInv'
    OBVIOUS
<1>1. CASE UNCHANGED readervars
    BY <1>1 DEF ReaderInv, ReaderTypes, AsksForMissing, StatusIsRight, BufferIsBounded, readervars
<1>2. ASSUME NEW len \in Lens, Wait(len) \/ WaitFails(len) PROVE ReaderInv'
    BY <1>2, WaitStep
<1>3. ASSUME NEW n \in 1 .. MaxTaken, Recv(n) PROVE ReaderInv'
    BY <1>3, RecvStep
<1>4. ASSUME NEW n \in 1 .. MaxTaken, Consume(n) PROVE ReaderInv'
    BY <1>4, CallerStep
<1>5. CASE RecvEof \/ RecvFails
    BY <1>5, EndStep
<1>6. CASE Cancel \/ Success
    BY <1>6, QuietStep
<1>7. CASE netbuf_read_free
    BY <1>7, Zenon DEF ReaderInv, ReaderTypes, ReaderSound, AsksForMissing, StatusIsRight,
                BufferIsBounded, netbuf_read_free
<1> QED
    BY <1>1, <1>2, <1>3, <1>4, <1>5, <1>6, <1>7 DEF ReaderNext

-----------------------------------------------------------------------------
(* For every size of the buffer and all lengths waited for, the reader     *)
(* keeps to its buffer, hands out the stream without a gap or a            *)
(* repetition, asks for exactly the bytes that are missing, reports the    *)
(* right status, and lets its buffer grow no further than it must          *)
(* (netbuf_read_wait, netbuf_read_resize_buffer, callback_read).           *)
THEOREM ReaderCorrect == ReaderSpec => []ReaderIsRight
<1>1. ReaderInv => ReaderIsRight
    <2> SUFFICES ASSUME ReaderInv PROVE NothingLost
        BY DEF ReaderInv, ReaderIsRight
    <2> SUFFICES ASSUME ~spoiled
                 PROVE  netbuf_read_peek(reader) \o reader.read_cookie.got =
                            Bytes(consumed, taken)
        BY DEF NothingLost
    <2> DEFINE M == Moved(reader)
    <2>1. /\ reader \in Reader /\ reader.bufpos <= Len(reader.buf)
          /\ taken \in Nat /\ consumed \in Nat /\ Holds(reader, consumed, taken)
        BY DEF ReaderInv, ReaderTypes, ReaderSound
    <2>2. /\ M \in Reader /\ M.bufpos = 0 /\ M.read_cookie = reader.read_cookie
          /\ Holds(M, consumed, taken)
        BY <2>1, MovedFacts
    <2>3. M.buf = netbuf_read_peek(reader)
        BY <2>1 DEF Moved, Reader
    <2> HIDE DEF M
    <2> DEFINE e == consumed + Len(M.buf)
    <2>4. Len(M.buf) \in Nat
        BY <2>2 DEF Reader
    <2>5. /\ e \in Nat /\ consumed <= e /\ e <= taken
          /\ M.buf = Bytes(consumed, e) /\ M.read_cookie.got = Bytes(e, taken)
        <3>1. consumed - 0 = consumed
            BY <2>1
        <3> QED
            BY <2>1, <2>2, <2>4, <3>1 DEF Holds
    <2>6. Bytes(consumed, e) \o Bytes(e, taken) = Bytes(consumed, taken)
        <3> HIDE DEF e
        <3> QED
            BY <2>1, <2>5, StreamConcat, Zenon
    <2> QED
        BY <2>2, <2>3, <2>5, <2>6, Zenon
<1> QED
    BY <1>1, ReaderInitially, ReaderStep, PTL DEF ReaderSpec
=============================================================================
