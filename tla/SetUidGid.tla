------------------------------ MODULE SetUidGid ------------------------------
(***************************************************************************)
(* How a process gives up its privileges: libcperciva/util/setuidgid.c and *)
(* setgroups_none.c.  The functions map the credentials of a process to    *)
(* those it has afterwards, and a return code.  Names are tokens; fails is *)
(* the set of calls that fail, though they would be permitted, with the    *)
(* build as one more member.                                               *)
(***************************************************************************)
EXTENDS Integers, Sequences, SequencesExt

IGNORE == "IGNORE"
LEAVE_WARN == "LEAVE_WARN"
LEAVE_ERROR == "LEAVE_ERROR"

(* The databases: a name of a user and one of a group; "7" is a number,    *)
(* and "ghost" is nothing at all.                                          *)
getpwnam(name) == IF name = "alice" THEN 1 ELSE -1
getgrnam(name) == IF name = "staff" THEN 2 ELSE -1
parsenum(name) == IF name = "7" THEN 7 ELSE -1

root == [uid |-> 0, gid |-> 0, groups |-> {0, 5}]
alice == [uid |-> 1, gid |-> 1, groups |-> {1, 5}]
plain == [uid |-> 7, gid |-> 7, groups |-> {7}]

UserGroup ==
    {<<>>, <<":">>, <<"alice">>, <<"ghost">>, <<"7">>, <<":", "staff">>, <<"alice", ":">>,
     <<"alice", ":", "staff">>, <<"7", ":", "staff">>, <<"alice", ":", "ghost">>,
     <<"ghost", ":", "staff">>}

(* The calls, one of which may fail; "NO_SETGROUPS" is a build for a       *)
(* system without setgroups.                                               *)
Call ==
    {"malloc", "setgroups", "getgroups", "getgrnam", "getpwnam", "setgid", "setuid",
     "NO_SETGROUPS"}

-----------------------------------------------------------------------------
(* A process that is not root may change neither its groups nor, except to *)
(* what it is already, its ids.                                            *)
Sets(cred, field, id) ==
    IF cred.uid = 0 \/ cred[field] = id
    THEN [rc |-> 0, cred |-> [cred EXCEPT ![field] = id]]
    ELSE [rc |-> -1, cred |-> cred]

setgroups_none(cred, fails) ==
    IF "NO_SETGROUPS" \in fails THEN [rc |-> 0, errno |-> "", cred |-> cred]
    ELSE IF "setgroups" \in fails THEN [rc |-> -1, errno |-> "EIO", cred |-> cred]
    ELSE IF cred.uid # 0 THEN [rc |-> -1, errno |-> "EPERM", cred |-> cred]
    ELSE [rc |-> 0, errno |-> "", cred |-> [cred EXCEPT !.groups = {}]]

check_supplementary_groups_none(cred, fails) ==
    IF "getgroups" \notin fails /\ cred.groups \subseteq {cred.gid} THEN 0 ELSE -1

set_group(groupname, cred, fails) ==
    LET gid == IF getgrnam(groupname) # -1 THEN getgrnam(groupname) ELSE parsenum(groupname)
    IN  IF {"getgrnam", "setgid"} \cap fails # {} \/ gid = -1 THEN [rc |-> -1, cred |-> cred]
        ELSE Sets(cred, "gid", gid)

set_user(username, cred, fails) ==
    LET uid == IF getpwnam(username) # -1 THEN getpwnam(username) ELSE parsenum(username)
    IN  IF {"getpwnam", "setuid"} \cap fails # {} \/ uid = -1 THEN [rc |-> -1, cred |-> cred]
        ELSE Sets(cred, "uid", uid)

(* "username", ":groupname" or "username:groupname"; NULL is "".           *)
string_extract_user_group(combined, fails) ==
    LET s == IF Contains(combined, ":") THEN SelectInSeq(combined, LAMBDA c : c = ":")
             ELSE Len(combined) + 1
        username == SubSeq(combined, 1, s - 1)
        groupname == SubSeq(combined, s + 1, Len(combined))
    IN  [rc |-> IF \/ "malloc" \in fails
                   \/ s <= Len(combined) /\ groupname = <<>>
                   \/ s > Len(combined) /\ username = <<>>
                THEN -1 ELSE 0,
         username |-> IF username = <<>> THEN "" ELSE username[1],
         groupname |-> IF groupname = <<>> THEN "" ELSE groupname[1]]

(* Supplementary groups are left, if that is asked for.                    *)
LeaveGroups(leave_suppgrp, cred, fails) ==
    LET g == setgroups_none(cred, fails)
        c == check_supplementary_groups_none(g.cred, fails)
    IN  CASE leave_suppgrp = IGNORE -> [rc |-> 0, cred |-> cred]
          [] leave_suppgrp # IGNORE /\ g.rc # 0
                /\ (g.errno # "EPERM" \/ leave_suppgrp = LEAVE_ERROR) -> [rc |-> -1, cred |-> cred]
          [] OTHER -> [rc |-> IF c # 0 /\ leave_suppgrp = LEAVE_ERROR THEN -1 ELSE 0,
                       cred |-> g.cred]

(* Mutant: the user is changed before the group.                           *)
SetIds_swapped(e, cred, fails) ==
    LET u == IF e.username = "" THEN [rc |-> 0, cred |-> cred]
             ELSE set_user(e.username, cred, fails)
    IN  IF u.rc # 0 \/ e.groupname = "" THEN u
        ELSE set_group(e.groupname, u.cred, fails)

(* The group is set, then the user.                                        *)
SetIds(e, cred, fails) ==
    LET g == IF e.groupname = "" THEN [rc |-> 0, cred |-> cred]
             ELSE set_group(e.groupname, cred, fails)
    IN  IF g.rc # 0 \/ e.username = "" THEN g
        ELSE set_user(e.username, g.cred, fails)

setuidgid(user_group_string, leave_suppgrp, cred, fails) ==
    LET e == string_extract_user_group(user_group_string, fails)
        l == LeaveGroups(leave_suppgrp, cred, fails)
    IN  IF e.rc # 0 THEN [rc |-> -1, cred |-> cred]
        ELSE IF l.rc # 0 THEN l
        ELSE SetIds(e, l.cred, fails)
=============================================================================
