----------------------------- MODULE PollLoop -----------------------------
(***************************************************************************)
(* Pd's poll loop: a list of descriptors, each with the function to call   *)
(* when it is readable.  A round asks select() once, then walks the list;  *)
(* the functions called may change the list meanwhile.                     *)
(*                                                                         *)
(* The externals are called from here, so this module is EXTENDed by the   *)
(* modules of those that register sockets.                                 *)
(***************************************************************************)
EXTENDS ListParts

VARIABLES
  sys_fdpoll, \* sequence of [fd, fn, obj]
  readset,    \* what select() returned in this round
  at          \* entry the walk is at; 0: between two rounds

pollvars == <<sys_fdpoll, readset, at>>

PollFds == {sys_fdpoll[i].fd : i \in DOMAIN sys_fdpoll}

\* The list with an entry added, and without the first entry for fd.

\* Mutant: a new entry goes to the head of the list.
RegisteredFirst(list, e) == <<e>> \o list

Registered(list, e) == Append(list, e)

Unregistered(list, fd) == RemoveFirstMatch(list, LAMBDA e : e.fd = fd)

\* The list without the entries for fds.
AllUnregistered(list, fds) == Omit(list, {n \in DOMAIN list : list[n].fd \in fds})

\* Mutant: the round ends with the first call.
OneCallPerRound == at' = 0

\* After a call the walk goes on, up to the present length of the list.
Called == at' = at + 1

PollInit ==
  /\ readset = {}
  /\ at = 0

\* A round begins.
Select(readable) ==
  /\ at = 0
  /\ readable \cap PollFds # {}
  /\ readset' = readable \cap PollFds
  /\ at' = 1
  /\ UNCHANGED sys_fdpoll

\* The walk is at an entry that is in readset,
AtReadable == at \in DOMAIN sys_fdpoll /\ sys_fdpoll[at].fd \in readset

\* at one that is not,
Pass ==
  /\ at \in DOMAIN sys_fdpoll
  /\ sys_fdpoll[at].fd \notin readset
  /\ at' = at + 1
  /\ UNCHANGED <<sys_fdpoll, readset>>

\* or at the end.
EndRound ==
  /\ at > Len(sys_fdpoll)
  /\ at' = 0
  /\ readset' = {}
  /\ UNCHANGED sys_fdpoll
=============================================================================
