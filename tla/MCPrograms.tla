----------------------------- MODULE MCPrograms -----------------------------
(***************************************************************************)
(* The two programs: a running server and a client from start to end, the  *)
(* start of a server, and what the programs do with the command line: the  *)
(* options in it and the addresses among them.  The parts that are not     *)
(* looked at rest in a state from which they take no step, so that they    *)
(* are checked side by side, not multiplied.                               *)
(***************************************************************************)
EXTENDS Programs

CONSTANTS NULL, MaxWord, PATHLEN, MaxStr

VARIABLES
    opt, pc, held, handed, fd, bytes, pidfile, priv, pfailed, pstatus,
    argv, optind, optarg, optreset, getopt_initialized, opts, nopts, opt_missing,
    opt_default, opt_found, packedopts, ch, getopt_ln, getopt_default_missing, where,
    missing_arg, seen, again,
    op, arg, place, alive, bad, n, res, did, ret, denied

startvars == <<opt, pc, held, handed, fd, bytes, pidfile, priv, pfailed, pstatus>>

getoptvars ==
    <<argv, optind, optarg, optreset, getopt_initialized, opts, nopts, opt_missing,
      opt_default, opt_found, packedopts, ch, getopt_ln, getopt_default_missing, where,
      missing_arg, seen, again>>

sockvars == <<op, arg, place, alive, bad, n, res, did, ret, denied>>

Start == INSTANCE Startup WITH failed <- pfailed, status <- pstatus

Options == INSTANCE Getopt

Address == INSTANCE Sock

(* A server that a signal has ended before it accepted anything.           *)
NoServer ==
    /\ phase = [i \in Conn |-> "none"]
    /\ eof = [i \in Conn |-> {}]
    /\ reason = [i \in Conn |-> "NONE"]
    /\ nconn = 0 /\ conn_cookies = {} /\ accept_cookie = FALSE
    /\ shutdown_requested = FALSE /\ rtime = FALSE
    /\ dnstimer_cookie = FALSE /\ lookup = FALSE /\ conndone = FALSE
    /\ timer_cookie = FALSE /\ should_shutdown = FALSE /\ handler = FALSE
    /\ stage = "killed" /\ loop = "run" /\ owner = "main" /\ released = 0

(* The server to start was asked for its version.                          *)
NoStart ==
    /\ opt = {"-v"}
    /\ pc = [parent |-> "ended", child |-> "none"]
    /\ held = [p \in {"parent", "child"} |-> [i \in 1 .. 6 |-> 0]]
    /\ handed = [p \in {"parent", "child"} |-> FALSE]
    /\ fd = [p \in {"parent", "child"} |-> {}]
    /\ bytes = 0 /\ pidfile = FALSE /\ pfailed = FALSE
    /\ priv = [p \in {"parent", "child"} |-> [asked |-> <<>>]]
    /\ pstatus = [parent |-> "exit_0", child |-> "none"]

(* The client could not be set up.                                         *)
NoClient ==
    /\ cphase = [c \in {"conn"} |-> "none"]
    /\ ceof = [c \in {"conn"} |-> {}]
    /\ creason = [c \in {"conn"} |-> "NONE"]
    /\ at = "exit" /\ cloop = "run"
    /\ et_conndone = FALSE /\ connection_error = FALSE /\ stopped = FALSE
    /\ thr = [i \in {0, 1} |-> "none"] /\ cancelled = {} /\ after = 0
    /\ gs_timer_cookie = FALSE /\ gs_should_shutdown = FALSE
    /\ gs_handler = FALSE /\ initialized = FALSE /\ sigterm = FALSE
    /\ code = 1

(* An empty command line was parsed, twice.                                *)
NoOptions ==
    /\ argv = <<>> /\ missing_arg = FALSE
    /\ optind = 1 /\ optarg = NULL /\ optreset = FALSE /\ getopt_initialized = TRUE
    /\ opts = <<>> /\ nopts = 0 /\ opt_missing = 0 /\ opt_default = 0 /\ opt_found = 0
    /\ packedopts = NULL
    /\ ch = NULL /\ getopt_ln = 0 /\ getopt_default_missing = FALSE
    /\ where = "done" /\ seen = <<>> /\ again = TRUE

(* No socket was opened.                                                   *)
NoAddress ==
    /\ op = "sock_listener" /\ arg = <<>> /\ place = <<"returned", 0>>
    /\ alive = {} /\ bad = FALSE /\ n = 0 /\ res = <<>> /\ did = <<>>
    /\ ret = NULL /\ denied = TRUE

MCInit ==
    \/ Init /\ NoStart /\ NoClient /\ NoOptions /\ NoAddress
    \/ NoServer /\ Start!Init /\ NoClient /\ NoOptions /\ NoAddress
    \/ NoServer /\ NoStart /\ Client!Init /\ NoOptions /\ NoAddress
    \/ NoServer /\ NoStart /\ NoClient /\ Options!GetoptInit /\ NoAddress
    \/ NoServer /\ NoStart /\ NoClient /\ NoOptions /\ Address!SockInit

MCNext ==
    \/ Next /\ UNCHANGED <<startvars, clientvars, getoptvars, sockvars>>
    \/ Start!Next /\ UNCHANGED <<vars, clientvars, getoptvars, sockvars>>
    \/ Client!Next /\ UNCHANGED <<vars, startvars, getoptvars, sockvars>>
    \/ Options!GetoptNext /\ UNCHANGED <<vars, startvars, clientvars, sockvars>>
    \/ Address!SockNext /\ UNCHANGED <<vars, startvars, clientvars, getoptvars>>

(* The fairness of each: main runs and its timers expire; a process that   *)
(* is started goes on unless it waits for the other.  Operations need not  *)
(* fail.                                                                   *)
MCSpec ==
    /\ MCInit
    /\ [][MCNext]_<<vars, startvars, clientvars, getoptvars, sockvars>>
    /\ WF_vars(MainNext) /\ WF_vars(graceful_shutdown)
    /\ WF_startvars(Start!Main("parent"))
    /\ WF_startvars(Start!Parent /\ pfailed' = pfailed)
    /\ WF_startvars(Start!Child /\ pfailed' = pfailed)
    /\ Client!Fairness

(* What the status of the process that was started says, and what main     *)
(* frees before it exits; see Startup.                                     *)
StartupIsRight == Start!StartupIsRight

(* The options that are found in a command line; see Getopt.               *)
OptionsAreRight == Options!OptionsAreRight

(* Addresses and sockets, whatever fails; see Sock.                        *)
AddressesAreRight == Address!AddressesAreRight

(* A client ends, and so does the process that was started; see Spipe and  *)
(* Startup.                                                                *)
ProgramsEnd == Client!ClientEnds /\ Start!ParentEnds
=============================================================================
