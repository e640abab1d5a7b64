------------------------------- MODULE Getopt -------------------------------
(***************************************************************************)
(* The option parser libcperciva/util/getopt.c with the macros of getopt.h *)
(* and the loop around them in both programs.                              *)
(*                                                                         *)
(* Strings are sequences of characters.  A program is the table Label: the *)
(* labels of its switch, by line.  It may start all over, once.            *)
(***************************************************************************)
EXTENDS Integers, Sequences, SequencesExt

CONSTANTS NULL, MaxWord

VARIABLES
    argv,               \* the words of the command line, without argv[0]
    optind, optarg, optreset, getopt_initialized,
    opts, nopts, opt_missing, opt_default, opt_found, packedopts,
    ch,                 \* what getopt has returned
    getopt_ln,          \* the next line the switch goes to while it registers
    getopt_default_missing,
    where,              \* where in its loop the program is
    missing_arg,        \* there is a label GETOPT_MISSING_ARG
    seen,               \* the labels the program has come to
    again               \* it has started over

getoptvars ==
    <<argv, optind, optarg, optreset, getopt_initialized, opts, nopts, opt_missing,
      opt_default, opt_found, packedopts, ch, getopt_ln, getopt_default_missing, where,
      missing_arg, seen, again>>

-----------------------------------------------------------------------------
(* The program                                                             *)

(* Line numbers count from the line of the switch.  Lines without a label  *)
(* hold the code of the label before.                                      *)
DefaultLine == 7
Registered == [ln \in {1, 3, 4, 5} |->
                 CASE ln = 1 -> [os |-> <<"-", "a">>, hasarg |-> FALSE]
                   [] ln = 3 -> [os |-> <<"-", "c">>, hasarg |-> TRUE]
                   [] ln = 4 -> [os |-> <<"-", "-", "g">>, hasarg |-> TRUE]
                   [] OTHER -> [os |-> <<"-", "-", "g", "a">>, hasarg |-> FALSE]]
MissingLine == 6

Char == {"-", "a", "c", "g", "="}
Words(k) == UNION {[1 .. i -> Char] : i \in 0 .. k}
SomeWords ==
    {<<>>, <<"-">>, <<"-", "-">>, <<"-", "a">>, <<"-", "c">>, <<"-", "a", "c">>,
     <<"-", "-", "g">>, <<"-", "-", "g", "a">>, <<"-", "-", "g", "=">>, <<"g">>}

CommandLine ==
    {<<>>} \cup {<<w>> : w \in Words(MaxWord)}
           \cup {<<v, w>> : v \in Words(3), w \in SomeWords}
           \cup {<<u, v, w>> : u \in SomeWords, v \in SomeWords, w \in SomeWords}

GetoptInit ==
    /\ argv \in CommandLine
    /\ missing_arg \in BOOLEAN
    /\ optind = 1 /\ optarg = NULL /\ optreset = TRUE /\ getopt_initialized = FALSE
    /\ opts = <<>> /\ nopts = 0 /\ opt_missing = 0 /\ opt_default = 0 /\ opt_found = 0
    /\ packedopts = NULL
    /\ ch = NULL /\ getopt_ln = 0 /\ getopt_default_missing = FALSE
    /\ where = "while" /\ seen = <<>> /\ again = FALSE

-----------------------------------------------------------------------------
(* getopt.c                                                                *)

(* The slot of the option that os is, or opt_default.                      *)
searchopt(os) ==
    LET Matches(i) ==
            /\ opts[i] # NULL
            /\ IsPrefix(opts[i].os, os)
            /\ Len(os) > Len(opts[i].os) => os[Len(opts[i].os) + 1] = "="
        found == {i \in DOMAIN opts : Matches(i)}
    IN  IF found = {} THEN opt_default
        ELSE CHOOSE i \in found : \A j \in found : i <= j

(* Mutant: options that are packed stay packed.                            *)
reset_packed ==
    [optind |-> 1, packedopts |-> packedopts]

(* What reset sets, besides opts, optreset and getopt_initialized.         *)
reset ==
    [optind |-> 1, packedopts |-> NULL]

(* getopt takes the next option string from the command line; what is left *)
(* of it is packed, and ind is the next word.  Without one os is NULL.     *)
TakeOption ==
    LET word == argv[optind]
        packs == packedopts # NULL \/ (Len(word) > 1 /\ word[1] = "-" /\ word[2] # "-")
        packed == IF packedopts # NULL THEN packedopts ELSE Tail(word)
    IN  CASE packs ->
                 [os |-> <<"-", Head(packed)>>,
                  packed |-> IF Len(packed) = 1 THEN NULL ELSE Tail(packed),
                  ind |-> IF Len(packed) = 1 THEN optind + 1 ELSE optind]
          [] ~packs /\ Len(word) > 1 /\ word[1] = "-" ->
                 [os |-> IF Len(word) > 2 THEN word ELSE NULL, packed |-> NULL,
                  ind |-> optind + 1]
          [] OTHER -> [os |-> NULL, packed |-> NULL, ind |-> optind]

(* The argument of option number i, as far as the words go.                *)
TakeArgument(t, i) ==
    LET olen == Len(opts[i].os)
    IN  CASE t.packed # NULL -> [arg |-> t.packed, packed |-> NULL, ind |-> t.ind + 1]
          [] t.packed = NULL /\ Len(t.os) > olen ->
                 [arg |-> SubSeq(t.os, olen + 2, Len(t.os)), packed |-> NULL, ind |-> t.ind]
          [] t.packed = NULL /\ Len(t.os) = olen /\ t.ind <= Len(argv) ->
                 [arg |-> argv[t.ind], packed |-> NULL, ind |-> t.ind + 1]
          [] OTHER -> [arg |-> NULL, packed |-> NULL, ind |-> t.ind]

Found(i, os, arg, packed, ind) ==
    /\ opt_found' = i /\ ch' = os /\ optarg' = arg
    /\ packedopts' = packed /\ optind' = ind
    /\ where' = IF os = NULL THEN "done" ELSE "switch"

(* while ((ch = GETOPT(argc, argv)) != NULL).  The dummy is returned after *)
(* a reset; the switch then does not end before it is initialized.         *)
getopt ==
    /\ where = "while"
    /\ \/ /\ optreset
          /\ optind' = reset.optind /\ packedopts' = reset.packedopts
          /\ opts' = <<>> /\ getopt_initialized' = FALSE /\ optreset' = FALSE
          /\ opt_found' = -1 /\ optarg' = NULL
          /\ ch' = <<"(dummy)">> /\ where' = "switch"
       \/ /\ ~optreset
          /\ \/ /\ optind > Len(argv)
                /\ Found(opt_found, NULL, NULL, packedopts, optind)
             \/ /\ optind <= Len(argv)
                /\ LET t == TakeOption
                       i == searchopt(t.os)
                       a == TakeArgument(t, i)
                   IN  CASE t.os = NULL -> Found(opt_found, NULL, NULL, t.packed, t.ind)
                         [] t.os # NULL /\ i = opt_default ->
                                Found(i, t.os, NULL, t.packed, t.ind)
                         [] t.os # NULL /\ i # opt_default /\ opts[i].hasarg ->
                                Found(IF a.arg = NULL THEN opt_missing ELSE i,
                                      opts[i].os, a.arg, a.packed, a.ind)
                         [] OTHER ->
                                Found(IF Len(t.os) > Len(opts[i].os) THEN opt_default ELSE i,
                                      opts[i].os, NULL, t.packed, t.ind)
          /\ UNCHANGED <<opts, getopt_initialized, optreset>>
    /\ getopt_ln' = -1 /\ getopt_default_missing' = FALSE
    /\ UNCHANGED <<argv, nopts, opt_missing, opt_default, missing_arg, seen, again>>

-----------------------------------------------------------------------------
(* GETOPT_SWITCH                                                           *)

(* Mutant: an unknown option is given the number of the last label.        *)
getopt_setrange_last(maxopts) ==
    /\ opts' = [i \in 0 .. maxopts - 1 |-> NULL]
    /\ nopts' = maxopts
    /\ opt_missing' = maxopts /\ opt_default' = maxopts

getopt_setrange(maxopts) ==
    /\ opts' = [i \in 0 .. maxopts - 1 |-> NULL]
    /\ nopts' = maxopts
    /\ opt_missing' = maxopts + 1 /\ opt_default' = maxopts + 1

getopt_register_opt(ln) ==
    /\ opts' = [opts EXCEPT ![ln] = Registered[ln]]
    /\ UNCHANGED <<nopts, opt_missing, opt_default>>

getopt_register_missing(ln) ==
    /\ opt_missing' = ln
    /\ UNCHANGED <<opts, nopts, opt_default>>

(* Until it is initialized the switch goes to one line after the other:    *)
(* labels register themselves, other lines go to default.                  *)
GETOPT_INIT ==
    /\ where = "switch" /\ ~getopt_initialized
    /\ getopt_ln' = getopt_ln + 1
    /\ LET ln == getopt_ln
           default == ln \notin DOMAIN Registered \cup {DefaultLine} \cup
                                (IF missing_arg THEN {MissingLine} ELSE {})
       IN  /\ \/ ln \in DOMAIN Registered /\ getopt_register_opt(ln)
              \/ missing_arg /\ ln = MissingLine /\ getopt_register_missing(ln)
              \/ default /\ ~getopt_default_missing /\ getopt_setrange(DefaultLine)
              \/ /\ ln = DefaultLine \/ (default /\ getopt_default_missing)
                 /\ UNCHANGED <<opts, nopts, opt_missing, opt_default>>
           /\ getopt_default_missing' = (getopt_default_missing \/ default)
           /\ getopt_initialized' = (ln = DefaultLine)
           /\ where' = IF ln = DefaultLine THEN "while" ELSE "switch"
    /\ UNCHANGED <<argv, optind, optarg, optreset, opt_found, packedopts, ch, missing_arg,
                   seen, again>>

(* The label that getopt_lookup leads to: the one in the line of its       *)
(* number; the line of the default label itself ends the switch.           *)
Jump(ln) ==
    CASE ln \in DOMAIN Registered -> <<"option">>
      [] missing_arg /\ ln = MissingLine -> <<"missing">>
      [] ln = DefaultLine -> <<>>
      [] OTHER -> <<"default">>

GETOPT_SWITCH ==
    /\ where = "switch" /\ getopt_initialized
    /\ seen' = seen \o [i \in DOMAIN Jump(opt_found) |-> <<Jump(opt_found)[i], ch, optarg>>]
    /\ where' = "while"
    /\ UNCHANGED <<argv, optind, optarg, optreset, getopt_initialized, opts, nopts,
                   opt_missing, opt_default, opt_found, packedopts, ch, getopt_ln,
                   getopt_default_missing, missing_arg, again>>

(* The program starts over.                                                *)
StartOver ==
    /\ where \in {"while", "done"} /\ ~again /\ getopt_initialized
    /\ optreset' = TRUE /\ again' = TRUE /\ where' = "while" /\ seen' = <<>>
    /\ UNCHANGED <<argv, optind, optarg, getopt_initialized, opts, nopts, opt_missing,
                   opt_default, opt_found, packedopts, ch, getopt_ln,
                   getopt_default_missing, missing_arg>>

GetoptNext == getopt \/ GETOPT_INIT \/ GETOPT_SWITCH \/ StartOver

GetoptSpec == GetoptInit /\ [][GetoptNext]_getoptvars

-----------------------------------------------------------------------------
(* What the comment in getopt.h says of a command line, word by word: the  *)
(* options in it with their arguments, and the words that are left.        *)

(* A word comes to these entries, and j is the next word to look at.       *)
One(entries, j) == [seen |-> entries, next |-> j]

(* An option in word j whose argument is the next word, whatever that is.  *)
WithNext(o, j) ==
    IF j = Len(argv)
    THEN One(<< <<IF missing_arg THEN "missing" ELSE "default", o, NULL>> >>, j + 1)
    ELSE One(<< <<"option", o, argv[j + 1]>> >>, j + 2)

(* "-abc foo", "-abcfoo": the first c takes the rest, or the next word.    *)
Packed(j) ==
    LET chars == Tail(argv[j])
        c == SelectInSeq(chars, LAMBDA x : x = "c")
        flags == [i \in 1 .. IF c = 0 THEN Len(chars) ELSE c - 1 |->
                    <<IF chars[i] = "a" THEN "option" ELSE "default", <<"-", chars[i]>>, NULL>>]
        last == CASE c = 0 -> One(<<>>, j + 1)
                  [] c = Len(chars) /\ c # 0 -> WithNext(<<"-", "c">>, j)
                  [] OTHER -> One(<< <<"option", <<"-", "c">>, SubSeq(chars, c + 1, Len(chars))>> >>,
                                  j + 1)
    IN  One(flags \o last.seen, last.next)

(* "--foo bar", "--foo=bar".                                               *)
Long(j) ==
    LET w == argv[j]
        upto == SelectInSeq(w, LAMBDA x : x = "=")
        name == IF upto = 0 THEN w ELSE SubSeq(w, 1, upto - 1)
        value == SubSeq(w, upto + 1, Len(w))
    IN  CASE name = <<"-", "-", "g">> ->
                 IF upto = 0 THEN WithNext(name, j)
                 ELSE One(<< <<"option", name, value>> >>, j + 1)
          [] name = <<"-", "-", "g", "a">> ->
                 One(<< <<IF upto = 0 THEN "option" ELSE "default", name, NULL>> >>, j + 1)
          [] OTHER -> One(<< <<"default", w, NULL>> >>, j + 1)

(* The options from word j on, and the first word that is left.            *)
Parse ==
    LET From[j \in 1 .. Len(argv) + 2] ==
            LET And(o) == [seen |-> o.seen \o From[o.next].seen, left |-> From[o.next].left]
            IN  IF j > Len(argv) THEN [seen |-> <<>>, left |-> j]
                ELSE CASE argv[j] = <<"-", "-">> -> [seen |-> <<>>, left |-> j + 1]
                       [] Len(argv[j]) > 2 /\ IsPrefix(<<"-", "-">>, argv[j]) -> And(Long(j))
                       [] Len(argv[j]) > 1 /\ argv[j][1] = "-" /\ argv[j][2] # "-" ->
                              And(Packed(j))
                       [] OTHER -> [seen |-> <<>>, left |-> j]
    IN  From[1]

(* The assertions of getopt.c and getopt.h: an option is registered once   *)
(* and in a slot of the array, and what getopt has returned is what        *)
(* getopt_lookup finds.                                                    *)
AssertionsHold ==
    /\ where = "switch" /\ ~getopt_initialized /\ getopt_ln \in DOMAIN Registered =>
          getopt_ln \in DOMAIN opts /\ opts[getopt_ln] = NULL
             /\ searchopt(Registered[getopt_ln].os) = opt_default
    /\ where = "switch" /\ getopt_initialized =>
          /\ \/ opt_found \in {opt_missing, opt_default}
             \/ opt_found \in DOMAIN opts /\ opts[opt_found] # NULL /\ opts[opt_found].os = ch
          /\ opt_found \in DOMAIN Registered => Registered[opt_found].hasarg = (optarg # NULL)

(* The program comes to the labels that the comment in getopt.h says, with *)
(* the arguments it says, and finds the words that are left from optind    *)
(* on; for the second time as for the first, wherever it started over.     *)
OptionsAreRight ==
    /\ AssertionsHold
    /\ where = "done" =>
          /\ seen = Parse.seen
          /\ optind = Parse.left
=============================================================================
