---------------------------- MODULE GroupManager ----------------------------
(***************************************************************************)
(* The group half of a tracker (managers/group_manager.cpp and the group   *)
(* commands of managers/command_manager.cpp).                              *)
(*                                                                         *)
(* Every pool thread of the tracker, whether it serves a client session or *)
(* one SYNC message, is a handler.  A command is a fixed sequence of calls *)
(* into GroupManager; each call takes group_mtx for its own duration only, *)
(* so calls of different handlers interleave between the checks of one     *)
(* command and the call that changes the group.  One action is one call.   *)
(***************************************************************************)
EXTENDS HashMap, Naturals, SequencesExt

CONSTANTS
    Handlers,   \* the pool threads that run commands
    Users,      \* user names; a SYNC message may name any of them
    Groups,     \* group names
    NoUser      \* the empty string, the owner of a default-constructed GroupInfo

ASSUME NoUserAssumption == NoUser \notin Users

VARIABLES
    groups,         \* group name -> [owner, members, pending]
    owner_groups,   \* user -> the set of groups he owns
    frame           \* handler -> the command it is in the middle of, or Idle

vars == <<groups, owner_groups, frame>>

-----------------------------------------------------------------------------
(***************************************************************************)
(* The commands.  Each call of a command is followed by an early return    *)
(* unless its answer is one of `on'.                                       *)
(***************************************************************************)
Require(f) == [call |-> f, on |-> {TRUE}]
Refuse(f)  == [call |-> f, on |-> {FALSE}]
Perform(f) == [call |-> f, on |-> {TRUE, FALSE}]   \* the answer is ignored

CreateGroupCommand == <<Refuse("isGroupAvailabel"), Perform("createGroup")>>

JoinGroupCommand ==
    <<Require("isGroupAvailabel"), Refuse("isGroupOwner"),
      Refuse("isMemberOfGroup"), Perform("requestToJoin")>>

AcceptRequestCommand ==
    <<Require("isGroupAvailabel"), Require("isGroupOwner"),
      Refuse("isMemberOfGroup"), Require("isPenddingRequest"),
      Perform("approveRequest")>>

\* The calls after leaveGroup only choose the wording of the reply.
LeaveGroupCommand ==
    <<Require("isGroupAvailabel"), Require("isMemberOfGroup"),
      Perform("isGroupOwner"), Perform("leaveGroup")>>

\* showPendingRequests, which follows, only reads.
ListRequestCommand == <<Require("isGroupAvailabel"), Require("isGroupOwner")>>

\* What follows the checks of a file command is in module FileManager.
DownloadFileCommand == <<Require("isGroupAvailabel"), Require("isMemberOfGroup")>>

\* upload_file (also with its data), list_files, update_file_info, stop_share:
\* the owner is asked for only when the user is not a member.
FileCommand ==
    <<Require("isGroupAvailabel"), Refuse("isMemberOfGroup"),
      Require("isGroupOwner")>>

Script == [create_group   |-> CreateGroupCommand,
           join_group     |-> JoinGroupCommand,
           accept_request |-> AcceptRequestCommand,
           leave_group    |-> LeaveGroupCommand,
           list_requests  |-> ListRequestCommand,
           download_file  |-> DownloadFileCommand,
           file_command   |-> FileCommand]

Commands == DOMAIN Script

Idle == [cmd |-> "none"]

\* user issues the command; subject is the user the membership question is
\* about: the requester in accept_request, else the issuer himself.
Frames == {f \in [cmd : Commands, at : 1..5, user : Users, subject : Users,
                  group : Groups] : f.at <= Len(Script[f.cmd])}

At(h, f) ==
    /\ frame[h] # Idle
    /\ Script[frame[h].cmd][frame[h].at].call = f

\* A slip: off by one at the end of the command.
ReturnPastTheEnd(h, answer) ==
    LET fr     == frame[h]
        script == Script[fr.cmd]
    IN  frame' = [frame EXCEPT ![h] =
                     IF answer \in script[fr.at].on /\ fr.at <= Len(script)
                     THEN [fr EXCEPT !.at = fr.at + 1]
                     ELSE Idle]

\* The call has answered: go on to the next one, or return.
Return(h, answer) ==
    LET fr     == frame[h]
        script == Script[fr.cmd]
    IN  frame' = [frame EXCEPT ![h] =
                     IF answer \in script[fr.at].on /\ fr.at < Len(script)
                     THEN [fr EXCEPT !.at = fr.at + 1]
                     ELSE Idle]

-----------------------------------------------------------------------------
IsMember(g, u)  == g \in DOMAIN groups /\ u \in ToSet(groups[g].members)
IsPending(g, u) == g \in DOMAIN groups /\ u \in groups[g].pending
OwnedBy(u)      == Get(owner_groups, u, {})

Init ==
    /\ groups = EmptyMap
    /\ owner_groups = EmptyMap
    /\ frame = [h \in Handlers |-> Idle]

\* A session or a SYNC message hands a command to an idle handler.
Receive(h) ==
    /\ frame[h] = Idle
    /\ \E cmd \in Commands, u \in Users, s \in Users, g \in Groups :
          /\ cmd # "accept_request" => s = u
          /\ frame' = [frame EXCEPT ![h] =
                          [cmd |-> cmd, at |-> 1, user |-> u, subject |-> s,
                           group |-> g]]
    /\ UNCHANGED <<groups, owner_groups>>

IsGroupAvailabel(h) ==
    /\ At(h, "isGroupAvailabel")
    /\ Return(h, frame[h].group \in DOMAIN groups)
    /\ UNCHANGED <<groups, owner_groups>>

IsGroupOwner(h) ==
    /\ At(h, "isGroupOwner")
    /\ Return(h, frame[h].group \in OwnedBy(frame[h].user))
    /\ UNCHANGED <<groups, owner_groups>>

\* `auto &g = groups[group_name]' creates the group when there is none.
IsMemberOfGroup(h) ==
    LET g == frame[h].group
    IN  /\ At(h, "isMemberOfGroup")
        /\ Return(h, IsMember(g, frame[h].subject))
        /\ groups' = Put(groups, g, Get(groups, g, [owner   |-> NoUser,
                                                    members |-> <<>>,
                                                    pending |-> {}]))
        /\ UNCHANGED owner_groups

IsPenddingRequest(h) ==
    /\ At(h, "isPenddingRequest")
    /\ Return(h, IsPending(frame[h].group, frame[h].subject))
    /\ UNCHANGED <<groups, owner_groups>>

\* A slip: createGroup trusts the command's check and does not look again.
CreateGroupUnchecked(h) ==
    LET g == frame[h].group
        u == frame[h].user
    IN  /\ At(h, "createGroup")
        /\ Return(h, TRUE)
        /\ groups' = Put(groups, g, [owner   |-> u,
                                    members |-> <<u>>,
                                    pending |-> {}])
        /\ owner_groups' = Put(owner_groups, u, OwnedBy(u) \cup {g})

CreateGroup(h) ==
    LET g == frame[h].group
        u == frame[h].user
    IN  /\ At(h, "createGroup")
        /\ Return(h, g \notin DOMAIN groups)
        /\ IF g \notin DOMAIN groups
           THEN /\ groups' = Put(groups, g, [owner   |-> u,
                                             members |-> <<u>>,
                                             pending |-> {}])
                /\ owner_groups' = Put(owner_groups, u, OwnedBy(u) \cup {g})
           ELSE UNCHANGED <<groups, owner_groups>>

\* A slip: requestToJoin does not look for the user among the members again.
RequestToJoinUnchecked(h) ==
    LET g  == frame[h].group
        u  == frame[h].user
    IN  /\ At(h, "requestToJoin")
        /\ Return(h, g \in DOMAIN groups)
        /\ groups' = IF g \in DOMAIN groups
                     THEN [groups EXCEPT ![g].pending = @ \cup {u}]
                     ELSE groups
        /\ UNCHANGED owner_groups

RequestToJoin(h) ==
    LET g  == frame[h].group
        u  == frame[h].user
        ok == g \in DOMAIN groups /\ ~IsMember(g, u)
    IN  /\ At(h, "requestToJoin")
        /\ Return(h, ok)
        /\ groups' = IF ok
                     THEN [groups EXCEPT ![g].pending = @ \cup {u}]
                     ELSE groups
        /\ UNCHANGED owner_groups

\* A slip: approveRequest does not look for the request again.
ApproveRequestTwice(h) ==
    LET g  == frame[h].group
        u  == frame[h].subject
        ok == g \in DOMAIN groups /\ groups[g].owner = frame[h].user
    IN  /\ At(h, "approveRequest")
        /\ Return(h, ok)
        /\ groups' = IF ok
                     THEN [groups EXCEPT ![g] =
                             [owner   |-> @.owner,
                              members |-> Append(@.members, u),
                              pending |-> @.pending \ {u}]]
                     ELSE groups
        /\ UNCHANGED owner_groups

\* A slip: approveRequest does not compare the approver with the owner again.
ApproveRequestByAnyone(h) ==
    LET g  == frame[h].group
        u  == frame[h].subject
        ok == IsPending(g, u)
    IN  /\ At(h, "approveRequest")
        /\ Return(h, ok)
        /\ groups' = IF ok
                     THEN [groups EXCEPT ![g] =
                             [owner   |-> @.owner,
                              members |-> Append(@.members, u),
                              pending |-> @.pending \ {u}]]
                     ELSE groups
        /\ UNCHANGED owner_groups

ApproveRequest(h) ==
    LET g  == frame[h].group
        u  == frame[h].subject
        ok == IsPending(g, u) /\ groups[g].owner = frame[h].user
    IN  /\ At(h, "approveRequest")
        /\ Return(h, ok)
        /\ groups' = IF ok
                     THEN [groups EXCEPT ![g] =
                             [owner   |-> @.owner,
                              members |-> Append(@.members, u),
                              pending |-> @.pending \ {u}]]
                     ELSE groups
        /\ UNCHANGED owner_groups

\* A member goes; with the last one the group goes too.
Dissolve(g) ==
    /\ groups' = Drop(groups, g)
    /\ owner_groups' = Put(owner_groups, groups[g].owner,
                           OwnedBy(groups[g].owner) \ {g})

\* A slip: the group changes hands in owner_groups only.
HandOverIndexOnly(g, rest) ==
    LET old == groups[g].owner
    IN  /\ groups' = [groups EXCEPT ![g].members = rest]
        /\ owner_groups' = Put(Put(owner_groups, old, OwnedBy(old) \ {g}),
                               Head(rest), OwnedBy(Head(rest)) \cup {g})

\* A slip: the former owner's entry in owner_groups is left behind.
HandOverGroupOnly(g, rest) ==
    /\ groups' = [groups EXCEPT ![g].members = rest, ![g].owner = Head(rest)]
    /\ owner_groups' = Put(owner_groups, Head(rest),
                           OwnedBy(Head(rest)) \cup {g})

\* The owner goes: the longest-standing member takes over, in both maps.
HandOver(g, rest) ==
    LET old      == groups[g].owner
        new      == Head(rest)
        left     == OwnedBy(old) \ {g}
        released == IF left = {} THEN Drop(owner_groups, old)
                                 ELSE Put(owner_groups, old, left)
    IN  /\ groups' = [groups EXCEPT ![g] = [owner   |-> new,
                                            members |-> rest,
                                            pending |-> @.pending]]
        /\ owner_groups' = Put(released, new, Get(released, new, {}) \cup {g})

LeaveGroup(h) ==
    LET g    == frame[h].group
        u    == frame[h].user
        rest == RemoveFirst(groups[g].members, u)
    IN  /\ At(h, "leaveGroup")
        /\ Return(h, IsMember(g, u))
        /\ IF ~IsMember(g, u) THEN UNCHANGED <<groups, owner_groups>>
           ELSE IF rest = <<>> THEN Dissolve(g)
           ELSE IF u = groups[g].owner THEN HandOver(g, rest)
           ELSE /\ groups' = [groups EXCEPT ![g].members = rest]
                /\ UNCHANGED owner_groups

-----------------------------------------------------------------------------
Next == \E h \in Handlers :
    \/ Receive(h)
    \/ IsGroupAvailabel(h)
    \/ IsGroupOwner(h)
    \/ IsMemberOfGroup(h)
    \/ IsPenddingRequest(h)
    \/ CreateGroup(h)
    \/ RequestToJoin(h)
    \/ ApproveRequest(h)
    \/ LeaveGroup(h)

Spec == Init /\ [][Next]_vars

-----------------------------------------------------------------------------
\* Every variable has its type.
TypeOK ==
    /\ IsMap(groups, Groups, [owner   : Users \cup {NoUser},
                              members : Seq(Users),
                              pending : SUBSET Users])
    /\ IsMap(owner_groups, Users, SUBSET Groups)
    /\ frame \in [Handlers -> Frames \cup {Idle}]

\* No user stands twice in a member list, however many accept_request commands
\* for the same request run at once (push_back in approveRequest).
MembersDistinct ==
    \A g \in DOMAIN groups : IsInjective(groups[g].members)

\* A member has no request waiting: a join_group that overlaps the approval of
\* an earlier one leaves nothing behind that would re-admit him after he leaves.
PendingAreOutsiders ==
    \A g \in DOMAIN groups : groups[g].pending \cap ToSet(groups[g].members) = {}

\* The owner is the longest-standing member, through every succession; a group
\* without members has no owner.
OwnerIsSenior ==
    \A g \in DOMAIN groups :
        groups[g].owner = IF groups[g].members = <<>> THEN NoUser
                          ELSE Head(groups[g].members)

\* owner_groups, which isGroupOwner reads, says the same as GroupInfo.owner,
\* which approveRequest and leaveGroup read, for every user and group.
OwnerIndexAgrees ==
    \A u \in Users, g \in Groups :
        g \in OwnedBy(u) <=> g \in DOMAIN groups /\ groups[g].owner = u

\* Nobody becomes a member of an existing group but in an accept_request of the
\* user who owns the group at that moment, although the ownership was checked
\* in an earlier critical section.
AdmittedByOwner ==
    [][\A g \in DOMAIN groups, u \in Users :
          ~IsMember(g, u) /\ IsMember(g, u)' =>
             \E h \in Handlers : /\ At(h, "approveRequest")
                                 /\ frame[h].group = g
                                 /\ frame[h].subject = u
                                 /\ frame[h].user = groups[g].owner]_vars

\* A group without members, once isMemberOfGroup has made one, keeps its name
\* for ever: no command of any handler fills, deletes or takes it over.
GhostsArePermanent ==
    [][\A g \in DOMAIN groups :
          groups[g].members = <<>> =>
             g \in DOMAIN groups' /\ groups'[g].members = <<>>]_vars

\* The groups with members, seen without the handlers and without owner_groups,
\* behave as GroupRegistry says: every command takes effect in its last call.
View(m) == [g \in {k \in DOMAIN m : m[k].members # <<>>} |->
               [members |-> m[g].members, pending |-> m[g].pending]]

Registry == INSTANCE GroupRegistry WITH registry <- View(groups)

RefinesRegistry == Registry!Spec

-----------------------------------------------------------------------------
\* README.md:358, "Single owner per group": every group has an owner who is a
\* member of it.
EveryGroupIsOwned ==
    \A g \in DOMAIN groups : IsMember(g, groups[g].owner)
=============================================================================
