---------------------------- MODULE DiaryRegister ----------------------------
(***************************************************************************)
(* What editing a diary promises, whatever the number of requests, locks   *)
(* and messages it takes: the edits of a diary form one sequence, each     *)
(* made from the version the one before it produced, and each site stores  *)
(* a prefix of that sequence, one edit after the other.                    *)
(***************************************************************************)
EXTENDS Versions, Sequences

CONSTANTS
    Objects,       \* the diaries
    FirstVersion,  \* the version each starts with
    VersionSet     \* the versions an edit may produce

VARIABLES
    log,    \* log[o]: the edits of o in the order they were committed
    view    \* view[s][o]: the versions of o stored by site s

Newest(o) == IF log[o] = <<>> THEN FirstVersion ELSE log[o][Len(log[o])].ver

InitRegister ==
    /\ log = [o \in Objects |-> <<>>]
    /\ view = [s \in Sites |-> [o \in Objects |-> <<FirstVersion>>]]

\* An edit is made from the newest version and produces one o never had.
Edit(o, ver) ==
    /\ ver # FirstVersion
    /\ \A i \in DOMAIN log[o] : log[o][i].ver # ver
    /\ log' = [log EXCEPT ![o] = Append(@, [base |-> Newest(o), ver |-> ver])]
    /\ UNCHANGED view

\* Site s stores the next version of o.
Store(s, o) ==
    /\ Len(view[s][o]) <= Len(log[o])
    /\ view' = [view EXCEPT ![s][o] = Append(@, log[o][Len(@)].ver)]
    /\ UNCHANGED log

NextRegister ==
    \E o \in Objects :
        \/ \E ver \in VersionSet : Edit(o, ver)
        \/ \E s \in Sites : Store(s, o)

SpecRegister == InitRegister /\ [][NextRegister]_<<log, view>>
=============================================================================
