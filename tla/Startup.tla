------------------------------- MODULE Startup -------------------------------
(***************************************************************************)
(* How a server is started: the first part of spiped/main.c with           *)
(* util/daemonize.c and util/ipc_sync.c.                                   *)
(*                                                                         *)
(* main runs in the process that was started, the parent; daemonize forks  *)
(* a child that goes on while the parent waits for a byte in a pipe.  What *)
(* main does once it accepts connections is module Dispatch.               *)
(***************************************************************************)
EXTENDS Integers, SetUidGid

VARIABLES
    opt,        \* the options given, of those that matter here
    pc,         \* where each process is
    held,       \* how often each thing main frees is allocated
    handed,     \* dispatch has taken over sas_t and s
    fd,         \* the ends of the pipe each process has open
    bytes,      \* bytes in the pipe
    pidfile,    \* the pid of the child was written
    priv,       \* how each process gave up its privileges
    failed,     \* an operation on a descriptor of the pipe has failed
    status      \* how each process ended

vars == <<opt, pc, held, handed, fd, bytes, pidfile, priv, failed, status>>

Process == {"parent", "child"}
Option == {"-b", "-D", "-F", "-u", "-v"}

(* What main allocates, in this order; the label err<n> frees the first n. *)
Resource == <<"pidfilename", "sa_s", "sas_t", "sa_b", "K", "s">>
Index == 1 .. Len(Resource)

Init ==
    /\ opt \in SUBSET Option
    /\ pc = [p \in Process |-> IF p = "parent" THEN "parse" ELSE "none"]
    /\ held = [p \in Process |-> [n \in Index |-> 0]]
    /\ handed = [p \in Process |-> FALSE]
    /\ fd = [p \in Process |-> {}]
    /\ bytes = 0
    /\ pidfile = FALSE
    /\ priv = [p \in Process |-> [asked |-> <<>>]]
    /\ failed = FALSE
    /\ status = [p \in Process |-> IF p = "parent" THEN "running" ELSE "none"]

Goes(p, place) ==
    /\ pc' = [pc EXCEPT ![p] = place]
    /\ UNCHANGED status

(* The kernel closes what is open.                                         *)
Ends(p, how) ==
    /\ pc' = [pc EXCEPT ![p] = "ended"]
    /\ status' = [status EXCEPT ![p] = how]
    /\ fd' = [fd EXCEPT ![p] = {}]

Acquires(p, n) == held' = [held EXCEPT ![p][n] = @ + 1]

(* Pointers that are NULL, and descriptors that are -1, are not freed.     *)
Null(p) == (IF "-b" \in opt THEN {} ELSE {4}) \cup (IF handed[p] THEN {3, 6} ELSE {})

Frees(p, set) ==
    held' = [held EXCEPT ![p] = [n \in Index |-> IF n \in set THEN @[n] - 1 ELSE @[n]]]

(* goto err<n>.                                                            *)
err(p, n) == Frees(p, (1 .. n) \ Null(p)) /\ Ends(p, "exit_1")

-----------------------------------------------------------------------------
(* main                                                                    *)

(* The command line is right, or is not, or asks for the version.          *)
parse(p) ==
    /\ pc[p] = "parse"
    /\ \/ "-v" \in opt /\ Ends(p, "exit_0") /\ UNCHANGED held
       \/ "-v" \notin opt /\ err(p, 0)
       \/ "-v" \notin opt /\ Acquires(p, 1) /\ Goes(p, "early") /\ UNCHANGED fd
    /\ UNCHANGED <<opt, handed, bytes, pidfile, priv, failed>>

(* daemonize is not called here: with -F never, early with -D, late        *)
(* without.                                                                *)
no_daemonize(p) ==
    /\ \/ pc[p] = "early" /\ ("-D" \notin opt \/ "-F" \in opt) /\ Goes(p, "sa_s")
       \/ pc[p] = "late" /\ ("-D" \in opt \/ "-F" \in opt) /\ Goes(p, "setuidgid")
    /\ UNCHANGED <<opt, held, handed, fd, bytes, pidfile, priv, failed>>

(* The n-th resource is allocated at place here, and main goes on at next; *)
(* or that fails.                                                          *)
Step(p, here, n, next) ==
    /\ pc[p] = here
    /\ \/ Acquires(p, n) /\ Goes(p, next) /\ UNCHANGED fd
       \/ err(p, n - 1)
    /\ UNCHANGED <<opt, handed, bytes, pidfile, priv, failed>>

(* With -D a failed lookup is tried again, and again.                      *)
Lookup(p, here, n, next) ==
    /\ pc[p] = here
    /\ \/ Acquires(p, n) /\ Goes(p, next) /\ UNCHANGED fd
       \/ "-D" \notin opt /\ err(p, n - 1)
    /\ UNCHANGED <<opt, handed, bytes, pidfile, priv, failed>>

(* There may be no address.                                                *)
resolve_target_empty(p) ==
    /\ pc[p] = "sas_t[0]"
    /\ err(p, 3) \/ (Goes(p, "sa_b") /\ UNCHANGED <<held, fd>>)
    /\ UNCHANGED <<opt, handed, bytes, pidfile, priv, failed>>

no_bind(p) ==
    /\ pc[p] = "sa_b" /\ "-b" \notin opt
    /\ Goes(p, "K")
    /\ UNCHANGED <<opt, held, handed, fd, bytes, pidfile, priv, failed>>

(* Mutant: err3 is taken where the key cannot be read.                     *)
setup_leak(p) ==
    \/ Lookup(p, "sa_s", 2, "sas_t")
    \/ Lookup(p, "sas_t", 3, "sas_t[0]")
    \/ resolve_target_empty(p)
    \/ no_bind(p)
    \/ "-b" \in opt /\ Lookup(p, "sa_b", 4, "K")
    \/ Step(p, "K", 5, "s")
    \/ pc[p] = "K" /\ err(p, 3) /\ UNCHANGED <<opt, handed, bytes, pidfile, priv, failed>>
    \/ Step(p, "s", 6, "late")

setup(p) ==
    \/ Lookup(p, "sa_s", 2, "sas_t")
    \/ Lookup(p, "sas_t", 3, "sas_t[0]")
    \/ resolve_target_empty(p)
    \/ no_bind(p)
    \/ "-b" \in opt /\ Lookup(p, "sa_b", 4, "K")
    \/ Step(p, "K", 5, "s")
    \/ Step(p, "s", 6, "late")

(* Privileges are dropped: by root or another user, to become anyone.      *)
drop_privileges(p) ==
    /\ pc[p] = "setuidgid" /\ "-u" \in opt
    /\ \E asked \in UserGroup, was \in {root, alice, plain},
          fails \in {{}} \cup {{c} : c \in Call} :
          LET r == setuidgid(asked, LEAVE_WARN, was, fails)
          IN  /\ priv' = [priv EXCEPT ![p] = [asked |-> asked, was |-> was, fails |-> fails,
                                              rc |-> r.rc, now |-> r.cred]]
              /\ IF r.rc # 0 THEN err(p, 6)
                 ELSE Goes(p, "accept") /\ UNCHANGED <<held, fd>>
    /\ UNCHANGED <<opt, handed, bytes, pidfile, failed>>

keep_privileges(p) ==
    /\ pc[p] = "setuidgid" /\ "-u" \notin opt
    /\ Goes(p, "accept")
    /\ UNCHANGED <<opt, held, handed, fd, bytes, pidfile, priv, failed>>

(* dispatch_accept takes over s and sas_t.                                 *)
dispatch_accept(p) ==
    /\ pc[p] = "accept"
    /\ \/ err(p, 6) /\ UNCHANGED handed
       \/ handed' = [handed EXCEPT ![p] = TRUE] /\ Goes(p, "serve") /\ UNCHANGED <<held, fd>>
    /\ UNCHANGED <<opt, bytes, pidfile, priv, failed>>

(* The server ends: dispatch_shutdown frees s and sas_t, main the others.  *)
serve(p) ==
    /\ pc[p] = "serve"
    /\ Frees(p, {3, 6} \cup (Index \ Null(p)))
    /\ Ends(p, "exit_0") \/ Ends(p, "exit_1")
    /\ UNCHANGED <<opt, handed, bytes, pidfile, priv, failed>>

-----------------------------------------------------------------------------
(* daemonize and ipc_sync                                                  *)

(* daemonize returns -1 in the parent.                                     *)
daemonize_fails == IF "-D" \in opt THEN err("parent", 1) ELSE err("parent", 6)

MayDaemonize ==
    /\ "-F" \notin opt
    /\ pc["parent"] = IF "-D" \in opt THEN "early" ELSE "late"

(* The pipe or the child cannot be created.                                *)
fork_fails ==
    /\ MayDaemonize
    /\ daemonize_fails
    /\ UNCHANGED <<opt, handed, bytes, pidfile, priv, failed>>

fork ==
    /\ MayDaemonize
    /\ pc' = [parent |-> "wait", child |-> "setsid"]
    /\ status' = [status EXCEPT !["child"] = "running"]
    /\ fd' = [q \in Process |-> {"R", "W"}]
    /\ held' = [held EXCEPT !["child"] = held["parent"]]
    /\ UNCHANGED <<opt, handed, bytes, pidfile, priv, failed>>

(* Mutant: the parent waits without closing the write end.                 *)
ipc_sync_wait_open ==
    /\ pc["parent"] = "wait"
    /\ Goes("parent", "read")
    /\ UNCHANGED <<opt, held, handed, fd, bytes, pidfile, priv, failed>>

(* The parent closes its write end,                                        *)
ipc_sync_wait ==
    /\ pc["parent"] = "wait"
    /\ \/ /\ fd' = [fd EXCEPT !["parent"] = @ \ {"W"}]
          /\ Goes("parent", "read") /\ UNCHANGED <<held, failed>>
       \/ failed' = TRUE /\ daemonize_fails
    /\ UNCHANGED <<opt, handed, bytes, pidfile, priv>>

(* and waits for a byte, or the end of file, or an error.                  *)
readbyte ==
    /\ pc["parent"] = "read"
    /\ \/ /\ bytes > 0 /\ bytes' = bytes - 1
          /\ Goes("parent", "poked") /\ UNCHANGED <<held, fd, failed>>
       \/ /\ bytes = 0 /\ \A q \in Process : "W" \notin fd[q]
          /\ daemonize_fails /\ UNCHANGED <<bytes, priv, failed>>
       \/ failed' = TRUE /\ daemonize_fails /\ UNCHANGED bytes
    /\ UNCHANGED <<opt, handed, pidfile, priv>>

(* ipc_sync_done, and _exit(0).                                            *)
parent_exits ==
    /\ pc["parent"] = "poked"
    /\ \/ Ends("parent", "_exit_0") /\ UNCHANGED <<held, failed>>
       \/ failed' = TRUE /\ daemonize_fails
    /\ UNCHANGED <<opt, handed, bytes, pidfile, priv>>

(* The label die of the child.                                             *)
die == Ends("child", "_exit_0")

(* Mutant: the parent is told before the pid is written.                   *)
setsid_nopid ==
    /\ pc["child"] = "setsid"
    /\ die \/ (Goes("child", "prep") /\ UNCHANGED fd)
    /\ UNCHANGED <<opt, held, handed, bytes, pidfile, priv, failed>>

setsid ==
    /\ pc["child"] = "setsid"
    /\ die \/ (Goes("child", "writepid") /\ UNCHANGED fd)
    /\ UNCHANGED <<opt, held, handed, bytes, pidfile, priv, failed>>

writepid ==
    /\ pc["child"] = "writepid"
    /\ \/ pidfile' = TRUE /\ Goes("child", "prep") /\ UNCHANGED fd
       \/ die /\ UNCHANGED pidfile
    /\ UNCHANGED <<opt, held, handed, bytes, priv, failed>>

ipc_sync_prep ==
    /\ pc["child"] = "prep"
    /\ \/ fd' = [fd EXCEPT !["child"] = @ \ {"R"}] /\ Goes("child", "write") /\ UNCHANGED failed
       \/ failed' = TRUE /\ die
    /\ UNCHANGED <<opt, held, handed, bytes, pidfile, priv>>

(* When the parent is gone writing kills the child.                        *)
writebyte ==
    /\ pc["child"] = "write"
    /\ \/ /\ \E q \in Process : "R" \in fd[q]
          /\ bytes' = bytes + 1 /\ Goes("child", "done") /\ UNCHANGED <<fd, failed>>
       \/ /\ \A q \in Process : "R" \notin fd[q]
          /\ Ends("child", "killed") /\ UNCHANGED <<bytes, priv, failed>>
       \/ failed' = TRUE /\ die /\ UNCHANGED bytes
    /\ UNCHANGED <<opt, held, handed, pidfile, priv>>

(* ipc_sync_done, and the child goes on in main.                           *)
ipc_sync_done ==
    /\ pc["child"] = "done"
    /\ \/ /\ fd' = [fd EXCEPT !["child"] = {}]
          /\ Goes("child", IF "-D" \in opt THEN "sa_s" ELSE "setuidgid")
          /\ UNCHANGED failed
       \/ failed' = TRUE /\ die
    /\ UNCHANGED <<opt, held, handed, bytes, pidfile, priv>>

(* A signal ends a process that has not installed its handlers.            *)
kill(p) ==
    /\ status[p] = "running"
    /\ pc[p] # "serve"
    /\ Ends(p, "killed")
    /\ UNCHANGED <<opt, held, handed, bytes, pidfile, priv, failed>>

Main(p) ==
    \/ parse(p) \/ no_daemonize(p) \/ setup(p) \/ drop_privileges(p) \/ keep_privileges(p)
    \/ dispatch_accept(p) \/ serve(p)

Parent == fork \/ fork_fails \/ ipc_sync_wait \/ readbyte \/ parent_exits
Child == setsid \/ writepid \/ ipc_sync_prep \/ writebyte \/ ipc_sync_done

Next == Parent \/ Child \/ \E p \in Process : Main(p) \/ kill(p)

-----------------------------------------------------------------------------
Daemon == opt \cap {"-F", "-v"} = {}

(* Whoever started spiped learns the truth.  When the parent ends with 0   *)
(* the child has written its pid, and without -D the socket is listening   *)
(* already; when it ends with 1 no child is running.  This withstands      *)
(* signals, but not a failure to close or read the pipe.                   *)
StatusTellsTruth ==
    Daemon =>
        /\ status["parent"] = "_exit_0" => pidfile
        /\ status["parent"] = "_exit_0" /\ "-D" \notin opt => held["parent"][6] = 1
        /\ status["parent"] = "exit_1" /\ ~failed => status["child"] # "running"

(* However main leaves, in either process, what it has allocated was freed *)
(* once: the labels agree with the order of the allocations, whether       *)
(* dispatch has taken over the socket and the addresses or not.            *)
SetupIsFreed ==
    \A p \in Process :
        /\ status[p] \in {"exit_0", "exit_1"} => held[p] = [n \in Index |-> 0]
        /\ \A n \in Index : held[p][n] \in {0, 1}

(* With -u a server accepts connections only as the user and in the group  *)
(* it was told, and root has left its supplementary groups if the build    *)
(* knows how to;                                                           *)
(* and when root is told to become a user and group that exist it does,    *)
(* unless a call fails: no privilege is given up that the rest needs.      *)
PrivilegesDropped ==
    \A p \in Process : priv[p].asked # <<>> =>
        LET r == priv[p]
            e == string_extract_user_group(r.asked, {})
            ok == r.asked \in {<<"alice">>, <<"7">>, <<":", "staff">>, <<"alice", ":", "staff">>,
                              <<"7", ":", "staff">>}
            uid == CASE e.username = "alice" -> 1 [] e.username = "7" -> 7 [] OTHER -> r.was.uid
            gid == IF e.groupname = "staff" THEN 2 ELSE r.was.gid
        IN  /\ pc[p] \in {"accept", "serve"} =>
                  /\ ok /\ r.now.uid = uid /\ r.now.gid = gid
                  /\ r.was.uid = 0 /\ "NO_SETGROUPS" \notin r.fails => r.now.groups = {}
            /\ r.was.uid = 0 /\ ok /\ r.fails \subseteq {"NO_SETGROUPS"} => r.rc = 0

(* The three together: what starting a server leaves behind, and reports.    *)
StartupIsRight == StatusTellsTruth /\ SetupIsFreed /\ PrivilegesDropped

(* Without -F the parent ends: it does not wait for a child that has died, *)
(* nor for names to be resolved.                                           *)
ParentEnds == Daemon => <>(status["parent"] # "running")
=============================================================================
