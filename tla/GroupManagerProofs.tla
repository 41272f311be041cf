------------------------- MODULE GroupManagerProofs -------------------------
(***************************************************************************)
(* Proofs about GroupManager, for any number of handlers, users and groups.*)
(*                                                                         *)
(* The invariant never speaks of what a handler has already checked: every *)
(* mutating call checks again what it needs, so each is proved from the    *)
(* state of the two maps alone, whatever ran since the command's checks.   *)
(***************************************************************************)
EXTENDS GroupManager, SequenceFacts

GroupRecords == [owner   : Users \cup {NoUser},
                 members : Seq(Users),
                 pending : SUBSET Users]

\* What holds of one group, whatever the others are.
GroupOK(r) ==
    /\ IsInjective(r.members)
    /\ r.pending \cap ToSet(r.members) = {}
    /\ r.owner = IF r.members = <<>> THEN NoUser ELSE Head(r.members)

GroupsOK == \A g \in DOMAIN groups : GroupOK(groups[g])

Inv == TypeOK /\ GroupsOK /\ OwnerIndexAgrees

LEMMA GroupsOKMeaning ==
    GroupsOK <=> MembersDistinct /\ PendingAreOutsiders /\ OwnerIsSenior
BY DEF GroupsOK, GroupOK, MembersDistinct, PendingAreOutsiders, OwnerIsSenior

-----------------------------------------------------------------------------
(***************************************************************************)
(* The frames: a command has at most five calls, and Return stays on them. *)
(***************************************************************************)
LEMMA ScriptLength == \A c \in Commands : Len(Script[c]) \in 1..5
BY DEF Commands, Script, CreateGroupCommand, JoinGroupCommand,
       AcceptRequestCommand, LeaveGroupCommand, ListRequestCommand,
       DownloadFileCommand, FileCommand

LEMMA ReturnType ==
    ASSUME TypeOK, NEW h \in Handlers, NEW f, NEW answer, At(h, f),
           Return(h, answer)
    PROVE  frame' \in [Handlers -> Frames \cup {Idle}]
<1> DEFINE fr == frame[h]
<1>1. /\ fr.cmd \in Commands
      /\ fr.at \in 1..5
      /\ fr \in [cmd : Commands, at : 1..5, user : Users, subject : Users,
                 group : Groups]
  BY DEF TypeOK, At, Frames
<1>2. Len(Script[fr.cmd]) \in 1..5
  BY <1>1, ScriptLength
<1>3. CASE fr.at < Len(Script[fr.cmd])
  <2> DEFINE at   == fr.at + 1
             next == [fr EXCEPT !.at = at]
             len  == Len(Script[fr.cmd])
  <2>0. at \in 1..5 /\ at <= len
    <3>1. fr.at \in 1..5 /\ len \in 1..5 /\ fr.at < len
      BY <1>1, <1>2, <1>3
    <3> HIDE DEF fr, len
    <3> QED BY <3>1
  <2>1. /\ next \in [cmd : Commands, at : 1..5, user : Users, subject : Users,
                     group : Groups]
        /\ next.cmd = fr.cmd
        /\ next.at = at
    <3> HIDE DEF fr, at
    <3> QED BY <1>1, <2>0
  <2>2. next \in Frames
    BY <2>0, <2>1 DEF Frames
  <2>3. frame' = [frame EXCEPT ![h] = next] \/ frame' = [frame EXCEPT ![h] = Idle]
    BY DEF Return
  <2> HIDE DEF next
  <2> QED BY <2>2, <2>3 DEF TypeOK
<1>4. CASE ~(fr.at < Len(Script[fr.cmd]))
  BY <1>4 DEF Return, TypeOK
<1> QED BY <1>3, <1>4

\* Whose frame it is, and which user, subject and group it names.
LEMMA FrameType ==
    ASSUME TypeOK, NEW h \in Handlers, NEW f, At(h, f)
    PROVE  /\ frame[h].user \in Users
           /\ frame[h].subject \in Users
           /\ frame[h].group \in Groups
BY DEF TypeOK, At, Frames

-----------------------------------------------------------------------------
(***************************************************************************)
(* The groups: replacing one group by a good one keeps them all good.      *)
(***************************************************************************)
LEMMA PutGroup ==
    ASSUME Inv, NEW g \in Groups, NEW r \in GroupRecords, GroupOK(r),
           groups' = Put(groups, g, r)
    PROVE  IsMap(groups', Groups, GroupRecords) /\ GroupsOK'
<1>1. IsMap(groups, Groups, GroupRecords)
  BY DEF Inv, TypeOK, GroupRecords
<1>2. IsMap(groups', Groups, GroupRecords)
  BY <1>1, PutType
<1>3. GroupsOK'
  <2>1. ASSUME NEW k \in DOMAIN groups' PROVE GroupOK(groups'[k])
    <3>1. CASE k = g
      <4>1. groups'[k] = r
        BY <3>1 DEF Put
      <4> QED BY <4>1
    <3>2. CASE k # g
      <4>1. k \in DOMAIN groups /\ groups'[k] = groups[k]
        BY <3>2 DEF Put
      <4> QED BY <4>1 DEF Inv, GroupsOK
    <3> QED BY <3>1, <3>2
  <2> QED BY <2>1 DEF GroupsOK
<1> QED BY <1>2, <1>3

LEMMA GroupType ==
    ASSUME Inv, NEW g \in DOMAIN groups
    PROVE  g \in Groups /\ groups[g] \in GroupRecords /\ GroupOK(groups[g])
BY DEF Inv, TypeOK, GroupsOK, IsMap, GroupRecords

\* A change that leaves every group's owner alone leaves the index right.
LEMMA OwnersUnchanged ==
    ASSUME Inv, UNCHANGED owner_groups,
           \A g \in Groups, u \in Users :
              (g \in DOMAIN groups' /\ groups'[g].owner = u)
                 <=> (g \in DOMAIN groups /\ groups[g].owner = u)
    PROVE  OwnerIndexAgrees' /\ IsMap(owner_groups', Users, SUBSET Groups)
BY DEF Inv, OwnerIndexAgrees, OwnedBy, TypeOK

LEMMA TypeParts ==
    ASSUME IsMap(groups', Groups, GroupRecords),
           IsMap(owner_groups', Users, SUBSET Groups),
           frame' \in [Handlers -> Frames \cup {Idle}]
    PROVE  TypeOK'
BY DEF TypeOK, GroupRecords

-----------------------------------------------------------------------------
(***************************************************************************)
(* One lemma per kind of step.                                             *)
(***************************************************************************)
\* A call that only reads, a command that arrives, and stuttering.
LEMMA ReadingStep ==
    ASSUME Inv, UNCHANGED <<groups, owner_groups>>,
           frame' \in [Handlers -> Frames \cup {Idle}]
    PROVE  Inv'
BY DEF Inv, TypeOK, GroupsOK, GroupOK, OwnerIndexAgrees, OwnedBy

LEMMA ReceiveType ==
    ASSUME Inv, NEW h \in Handlers, Receive(h)
    PROVE  frame' \in [Handlers -> Frames \cup {Idle}]
<1>1. PICK cmd \in Commands, u \in Users, s \in Users, g \in Groups :
         frame' = [frame EXCEPT ![h] =
                     [cmd |-> cmd, at |-> 1, user |-> u, subject |-> s,
                      group |-> g]]
  BY DEF Receive
<1>2. [cmd |-> cmd, at |-> 1, user |-> u, subject |-> s, group |-> g] \in Frames
  <2> DEFINE fr == [cmd |-> cmd, at |-> 1, user |-> u, subject |-> s,
                    group |-> g]
  <2>1. Len(Script[cmd]) \in 1..5
    BY ScriptLength
  <2>2. /\ fr \in [cmd : Commands, at : 1..5, user : Users, subject : Users,
                   group : Groups]
        /\ fr.at = 1
        /\ fr.cmd = cmd
    OBVIOUS
  <2>3. 1 <= Len(Script[cmd])
    <3> DEFINE len == Len(Script[cmd])
    <3>1. len \in 1..5
      BY <2>1
    <3> HIDE DEF len
    <3>2. 1 <= len
      BY <3>1
    <3> QED BY <3>2 DEF len
  <2> HIDE DEF fr
  <2>4. fr \in Frames
    BY <2>2, <2>3 DEF Frames
  <2> QED BY <2>4 DEF fr
<1> QED BY <1>1, <1>2 DEF Inv, TypeOK

\* isMemberOfGroup changes nothing, or adds a group nobody owns.
LEMMA IsMemberOfGroupStep ==
    ASSUME Inv, NEW h \in Handlers, IsMemberOfGroup(h)
    PROVE  Inv'
<1> DEFINE g     == frame[h].group
           ghost == [owner |-> NoUser, members |-> <<>>, pending |-> {}]
           r     == Get(groups, g, ghost)
<1>1. frame' \in [Handlers -> Frames \cup {Idle}]
  BY ReturnType DEF IsMemberOfGroup, Inv
<1>2. g \in Groups
  BY FrameType DEF IsMemberOfGroup, Inv
<1>3. ghost \in GroupRecords /\ GroupOK(ghost)
  BY DEF GroupRecords, GroupOK, IsInjective, ToSet
<1>4. r \in GroupRecords /\ GroupOK(r)
  BY <1>3, GroupType DEF Get
<1>5. groups' = Put(groups, g, r) /\ UNCHANGED owner_groups
  BY DEF IsMemberOfGroup
<1>6. IsMap(groups', Groups, GroupRecords) /\ GroupsOK'
  BY <1>2, <1>4, <1>5, PutGroup
<1>7. OwnerIndexAgrees' /\ IsMap(owner_groups', Users, SUBSET Groups)
  <2>1. ASSUME NEW k \in Groups, NEW u \in Users
        PROVE  (k \in DOMAIN groups' /\ groups'[k].owner = u)
                  <=> (k \in DOMAIN groups /\ groups[k].owner = u)
    <3>1. CASE k = g /\ g \notin DOMAIN groups
      <4>1. groups'[k].owner = NoUser
        BY <3>1, <1>5 DEF Put, Get
      <4> QED BY <4>1, <3>1, NoUserAssumption
    <3>2. CASE k # g \/ g \in DOMAIN groups
      BY <3>2, <1>5 DEF Put, Get
    <3> QED BY <3>1, <3>2
  <2> QED BY <2>1, <1>5, OwnersUnchanged
<1> QED BY <1>1, <1>6, <1>7, TypeParts DEF Inv

LEMMA CreateGroupStep ==
    ASSUME Inv, NEW h \in Handlers, CreateGroup(h)
    PROVE  Inv'
<1> DEFINE g == frame[h].group
           u == frame[h].user
           r == [owner |-> u, members |-> <<u>>, pending |-> {}]
<1>1. frame' \in [Handlers -> Frames \cup {Idle}]
  BY ReturnType DEF CreateGroup, Inv
<1>2. g \in Groups /\ u \in Users
  BY FrameType DEF CreateGroup, Inv
<1>3. CASE g \in DOMAIN groups
  BY <1>1, <1>3, ReadingStep DEF CreateGroup
<1>4. CASE g \notin DOMAIN groups
  <2>1. /\ groups' = Put(groups, g, r)
        /\ owner_groups' = Put(owner_groups, u, OwnedBy(u) \cup {g})
    BY <1>4 DEF CreateGroup
  <2>2. r \in GroupRecords /\ GroupOK(r)
    <3>1. r \in GroupRecords
      BY <1>2 DEF GroupRecords
    <3>2. IsInjective(<<u>>) /\ <<u>> # <<>> /\ Head(<<u>>) = u
      BY DEF IsInjective
    <3> QED BY <3>1, <3>2 DEF GroupOK
  <2>3. IsMap(groups', Groups, GroupRecords) /\ GroupsOK'
    BY <1>2, <2>1, <2>2, PutGroup
  <2>4. IsMap(owner_groups', Users, SUBSET Groups)
    <3>1. OwnedBy(u) \cup {g} \in SUBSET Groups
      BY <1>2 DEF Inv, TypeOK, IsMap, OwnedBy, Get
    <3> QED BY <1>2, <2>1, <3>1, PutType DEF Inv, TypeOK
  <2>5. OwnerIndexAgrees'
    <3>1. ASSUME NEW v \in Users, NEW k \in Groups
          PROVE  k \in OwnedBy(v)' <=> k \in DOMAIN groups' /\ groups'[k].owner = v
      <4>1. OwnedBy(v)' = IF v = u THEN OwnedBy(u) \cup {g} ELSE OwnedBy(v)
        BY <2>1 DEF OwnedBy, Get, Put
      <4>2. k \in OwnedBy(v) <=> k \in DOMAIN groups /\ groups[k].owner = v
        BY DEF Inv, OwnerIndexAgrees
      <4>3. /\ k \in DOMAIN groups' <=> k \in DOMAIN groups \/ k = g
            /\ k = g => groups'[k].owner = u
            /\ k # g /\ k \in DOMAIN groups => groups'[k] = groups[k]
        BY <2>1 DEF Put
      <4> QED BY <4>1, <4>2, <4>3, <1>4
    <3> QED BY <3>1 DEF OwnerIndexAgrees
  <2> QED BY <1>1, <2>3, <2>4, <2>5, TypeParts DEF Inv
<1> QED BY <1>3, <1>4

\* A change of the members and requests of a group that keeps its owner.
LEMMA SameOwnerStep ==
    ASSUME Inv, NEW g \in DOMAIN groups, NEW r \in GroupRecords, GroupOK(r),
           r.owner = groups[g].owner, groups' = Put(groups, g, r),
           UNCHANGED owner_groups,
           frame' \in [Handlers -> Frames \cup {Idle}]
    PROVE  Inv'
<1>1. g \in Groups
  BY GroupType
<1>2. IsMap(groups', Groups, GroupRecords) /\ GroupsOK'
  BY <1>1, PutGroup
<1>3. ASSUME NEW k \in Groups, NEW u \in Users
      PROVE  (k \in DOMAIN groups' /\ groups'[k].owner = u)
                <=> (k \in DOMAIN groups /\ groups[k].owner = u)
  BY DEF Put
<1>4. OwnerIndexAgrees' /\ IsMap(owner_groups', Users, SUBSET Groups)
  BY <1>3, OwnersUnchanged
<1> QED BY <1>2, <1>4, TypeParts DEF Inv

LEMMA RequestToJoinStep ==
    ASSUME Inv, NEW h \in Handlers, RequestToJoin(h)
    PROVE  Inv'
<1> DEFINE g  == frame[h].group
           u  == frame[h].user
           ok == g \in DOMAIN groups /\ ~IsMember(g, u)
           r  == [groups[g] EXCEPT !.pending = groups[g].pending \cup {u}]
<1>1. frame' \in [Handlers -> Frames \cup {Idle}]
  BY ReturnType DEF RequestToJoin, Inv
<1>2. g \in Groups /\ u \in Users
  BY FrameType DEF RequestToJoin, Inv
<1>3. CASE ~ok
  BY <1>1, <1>3, ReadingStep DEF RequestToJoin
<1>4. CASE ok
  <2>1. g \in DOMAIN groups /\ u \notin ToSet(groups[g].members)
    BY <1>4 DEF IsMember
  <2>2. groups[g] \in GroupRecords /\ GroupOK(groups[g])
    BY <2>1, GroupType
  <2>3. r \in GroupRecords /\ GroupOK(r) /\ r.owner = groups[g].owner
    BY <1>2, <2>1, <2>2 DEF GroupRecords, GroupOK
  <2>4. groups' = [groups EXCEPT ![g] = r] /\ UNCHANGED owner_groups
    BY <1>4 DEF RequestToJoin
  <2>5. groups' = Put(groups, g, r)
    <3>1. IsMap(groups, Groups, GroupRecords)
      BY DEF Inv, TypeOK, GroupRecords
    <3> HIDE DEF r
    <3>2. [groups EXCEPT ![g] = r] = Put(groups, g, r)
      BY <2>1, <3>1, ExceptIsPut
    <3> QED BY <3>2, <2>4
  <2> QED BY <1>1, <2>1, <2>3, <2>4, <2>5, SameOwnerStep
<1> QED BY <1>3, <1>4

LEMMA ApproveRequestStep ==
    ASSUME Inv, NEW h \in Handlers, ApproveRequest(h)
    PROVE  Inv'
<1> DEFINE g  == frame[h].group
           u  == frame[h].subject
           ok == IsPending(g, u) /\ groups[g].owner = frame[h].user
           s  == groups[g].members
           r  == [owner   |-> groups[g].owner,
                  members |-> Append(s, u),
                  pending |-> groups[g].pending \ {u}]
<1>1. frame' \in [Handlers -> Frames \cup {Idle}]
  BY ReturnType DEF ApproveRequest, Inv
<1>2. g \in Groups /\ u \in Users /\ frame[h].user \in Users
  BY FrameType DEF ApproveRequest, Inv
<1>3. CASE ~ok
  BY <1>1, <1>3, ReadingStep DEF ApproveRequest
<1>4. CASE ok
  <2>1. g \in DOMAIN groups /\ u \in groups[g].pending
    BY <1>4 DEF IsPending
  <2>2. groups[g] \in GroupRecords /\ GroupOK(groups[g])
    BY <2>1, GroupType
  <2>3. /\ s \in Seq(Users) /\ IsInjective(s) /\ u \notin ToSet(s)
        /\ groups[g].owner \in Users
    BY <1>2, <1>4, <2>1, <2>2 DEF GroupRecords, GroupOK
  <2>4. s # <<>>
    BY <2>2, <2>3, NoUserAssumption DEF GroupOK
  <2>5. /\ Append(s, u) \in Seq(Users)
        /\ Append(s, u) # <<>>
        /\ IsInjective(Append(s, u))
        /\ ToSet(Append(s, u)) = ToSet(s) \cup {u}
        /\ Append(s, u)[1] = s[1]
    BY <1>2, <2>3, <2>4, AppendToDistinct
  <2>6. Head(Append(s, u)) = Head(s)
    BY <2>3, <2>4, <2>5, HeadTailProperties
  <2>7. r \in GroupRecords
    BY <2>2, <2>3, <2>5 DEF GroupRecords
  <2>8. GroupOK(r)
    BY <2>2, <2>4, <2>5, <2>6 DEF GroupOK
  <2>9. groups' = [groups EXCEPT ![g] = r] /\ UNCHANGED owner_groups
    BY <1>4, <2>1, <2>2 DEF ApproveRequest, GroupRecords
  <2>10. groups' = Put(groups, g, r)
    <3>1. IsMap(groups, Groups, GroupRecords)
      BY DEF Inv, TypeOK, GroupRecords
    <3> HIDE DEF r
    <3>2. [groups EXCEPT ![g] = r] = Put(groups, g, r)
      BY <2>1, <3>1, ExceptIsPut
    <3> QED BY <3>2, <2>9
  <2> QED BY <1>1, <2>1, <2>7, <2>8, <2>9, <2>10, SameOwnerStep
<1> QED BY <1>3, <1>4

\* The last member goes, and the group with him.
LEMMA DissolveStep ==
    ASSUME Inv, NEW g \in DOMAIN groups, groups[g].members # <<>>, Dissolve(g),
           frame' \in [Handlers -> Frames \cup {Idle}]
    PROVE  Inv'
<1> DEFINE old == groups[g].owner
<1>1. /\ groups' = Drop(groups, g)
      /\ owner_groups' = Put(owner_groups, old, OwnedBy(old) \ {g})
  BY DEF Dissolve
<1>2. g \in Groups /\ groups[g] \in GroupRecords /\ GroupOK(groups[g])
  BY GroupType
<1>3. old \in Users
  BY <1>2, HeadTailProperties DEF GroupRecords, GroupOK
<1>4. IsMap(groups', Groups, GroupRecords)
  BY <1>1, DropType DEF Inv, TypeOK, GroupRecords
<1>5. GroupsOK'
  BY <1>1 DEF Inv, GroupsOK, Drop
<1>6. IsMap(owner_groups', Users, SUBSET Groups)
  <2>1. OwnedBy(old) \ {g} \in SUBSET Groups
    BY <1>3 DEF Inv, TypeOK, IsMap, OwnedBy, Get
  <2> QED BY <1>1, <1>3, <2>1, PutType DEF Inv, TypeOK
<1>7. ASSUME NEW v \in Users, NEW k \in Groups
      PROVE  k \in OwnedBy(v)' <=> k \in DOMAIN groups' /\ groups'[k].owner = v
  <2>1. OwnedBy(v)' = IF v = old THEN OwnedBy(old) \ {g} ELSE OwnedBy(v)
    BY <1>1 DEF OwnedBy, Get, Put
  <2>2. k \in OwnedBy(v) <=> k \in DOMAIN groups /\ groups[k].owner = v
    BY DEF Inv, OwnerIndexAgrees
  <2>3. /\ k \in DOMAIN groups' <=> k \in DOMAIN groups /\ k # g
        /\ k \in DOMAIN groups' => groups'[k] = groups[k]
    BY <1>1 DEF Drop
  <2> QED BY <2>1, <2>2, <2>3
<1>8. OwnerIndexAgrees'
  BY <1>7 DEF OwnerIndexAgrees
<1> QED BY <1>4, <1>5, <1>6, <1>8, TypeParts DEF Inv

\* The owner goes, and the next member takes over in both maps.
LEMMA HandOverStep ==
    ASSUME Inv, NEW g \in DOMAIN groups, NEW rest \in Seq(Users), rest # <<>>,
           IsInjective(rest), groups[g].owner \in Users \ ToSet(rest),
           ToSet(rest) \subseteq ToSet(groups[g].members), HandOver(g, rest),
           frame' \in [Handlers -> Frames \cup {Idle}]
    PROVE  Inv'
<1> DEFINE old      == groups[g].owner
           new      == Head(rest)
           left     == OwnedBy(old) \ {g}
           released == IF left = {} THEN Drop(owner_groups, old)
                                    ELSE Put(owner_groups, old, left)
           r        == [owner |-> new, members |-> rest,
                        pending |-> groups[g].pending]
<1>1. /\ groups' = [groups EXCEPT ![g] = r]
      /\ owner_groups' = Put(released, new, Get(released, new, {}) \cup {g})
  BY DEF HandOver
<1>2. g \in Groups /\ groups[g] \in GroupRecords /\ GroupOK(groups[g])
  BY GroupType
<1>3. new \in Users /\ new \in ToSet(rest) /\ new # old
  <2>1. new = rest[1] /\ 1 \in DOMAIN rest /\ new \in Users
    BY HeadTailProperties, EmptySeq, LenProperties
  <2> QED BY <2>1 DEF ToSet
<1>4. r \in GroupRecords /\ GroupOK(r)
  BY <1>2, <1>3 DEF GroupRecords, GroupOK
<1>5. groups' = Put(groups, g, r)
  <2>1. IsMap(groups, Groups, GroupRecords)
    BY DEF Inv, TypeOK, GroupRecords
  <2> HIDE DEF r
  <2>2. [groups EXCEPT ![g] = r] = Put(groups, g, r)
    BY <2>1, ExceptIsPut
  <2> QED BY <2>2, <1>1
<1>6. IsMap(groups', Groups, GroupRecords) /\ GroupsOK'
  BY <1>2, <1>4, <1>5, PutGroup
<1>7. left \in SUBSET Groups /\ IsMap(released, Users, SUBSET Groups)
  <2>1. IsMap(owner_groups, Users, SUBSET Groups)
    BY DEF Inv, TypeOK
  <2>2. left \in SUBSET Groups
    BY <2>1 DEF IsMap, OwnedBy, Get
  <2>3. IsMap(Drop(owner_groups, old), Users, SUBSET Groups)
    BY <2>1, DropType
  <2>4. IsMap(Put(owner_groups, old, left), Users, SUBSET Groups)
    <3> HIDE DEF left
    <3> QED BY <2>1, <2>2, PutType
  <2> QED BY <2>2, <2>3, <2>4
<1>8. IsMap(owner_groups', Users, SUBSET Groups)
  <2> HIDE DEF released
  <2>1. Get(released, new, {}) \cup {g} \in SUBSET Groups
    BY <1>2, <1>7 DEF IsMap, Get
  <2> QED BY <1>1, <1>3, <1>7, <2>1, PutType
<1>9. ASSUME NEW v \in Users, NEW k \in Groups
      PROVE  k \in OwnedBy(v)' <=> k \in DOMAIN groups' /\ groups'[k].owner = v
  <2>1. Get(released, v, {}) = IF v = old THEN left ELSE OwnedBy(v)
    BY DEF Get, Put, Drop, OwnedBy
  <2>2. Get(released, new, {}) = OwnedBy(new)
    BY <1>3 DEF Get, Put, Drop, OwnedBy
  <2>3. OwnedBy(v)' = IF v = new THEN OwnedBy(new) \cup {g}
                      ELSE Get(released, v, {})
    <3> HIDE DEF released
    <3> QED BY <1>1, <2>2 DEF OwnedBy, Get, Put
  <2>4. k \in OwnedBy(v) <=> k \in DOMAIN groups /\ groups[k].owner = v
    BY DEF Inv, OwnerIndexAgrees
  <2>5. /\ k \in DOMAIN groups' <=> k \in DOMAIN groups
        /\ k = g => groups'[k].owner = new
        /\ k # g /\ k \in DOMAIN groups => groups'[k] = groups[k]
    BY <1>5 DEF Put
  <2> QED BY <2>1, <2>3, <2>4, <2>5, <1>3
<1>10. OwnerIndexAgrees'
  BY <1>9 DEF OwnerIndexAgrees
<1> QED BY <1>6, <1>8, <1>10, TypeParts DEF Inv

LEMMA LeaveGroupStep ==
    ASSUME Inv, NEW h \in Handlers, LeaveGroup(h)
    PROVE  Inv'
<1> DEFINE g    == frame[h].group
           u    == frame[h].user
           s    == groups[g].members
           rest == RemoveFirst(s, u)
<1>1. frame' \in [Handlers -> Frames \cup {Idle}]
  BY ReturnType DEF LeaveGroup, Inv
<1>2. g \in Groups /\ u \in Users
  BY FrameType DEF LeaveGroup, Inv
<1>3. CASE ~IsMember(g, u)
  BY <1>1, <1>3, ReadingStep DEF LeaveGroup
<1>4. CASE IsMember(g, u)
  <2>1. g \in DOMAIN groups /\ u \in ToSet(s)
    BY <1>4 DEF IsMember
  <2>2. groups[g] \in GroupRecords /\ GroupOK(groups[g])
    BY <2>1, GroupType
  <2>3. s \in Seq(Users) /\ IsInjective(s) /\ s # <<>>
    BY <2>1, <2>2 DEF GroupRecords, GroupOK, ToSet
  <2>4. groups[g].owner = s[1] /\ groups[g].owner \in Users
    BY <2>2, <2>3, HeadTailProperties DEF GroupOK
  <2>5. /\ rest \in Seq(Users)
        /\ Len(rest) = Len(s) - 1
        /\ IsInjective(rest)
        /\ ToSet(rest) = ToSet(s) \ {u}
        /\ u # s[1] /\ Len(s) > 1 => rest[1] = s[1]
    BY <2>1, <2>3, RemoveFirstFromDistinct
  <2>6. CASE rest = <<>>
    BY <1>1, <1>4, <2>1, <2>3, <2>6, DissolveStep DEF LeaveGroup
  <2>7. CASE rest # <<>> /\ u = groups[g].owner
    <3>1. HandOver(g, rest)
      BY <1>4, <2>7 DEF LeaveGroup
    <3>2. /\ groups[g].owner \in Users \ ToSet(rest)
          /\ ToSet(rest) \subseteq ToSet(groups[g].members)
      BY <2>4, <2>5, <2>7
    <3> HIDE DEF rest
    <3> QED BY <1>1, <2>1, <2>5, <2>7, <3>1, <3>2, HandOverStep
  <2>8. CASE rest # <<>> /\ u # groups[g].owner
    <3> DEFINE r == [groups[g] EXCEPT !.members = rest]
    <3>1. groups' = [groups EXCEPT ![g] = r] /\ UNCHANGED owner_groups
      BY <1>4, <2>8 DEF LeaveGroup
    <3>2. Head(rest) = Head(s)
      <4>1. Len(s) > 1
        BY <2>3, <2>5, <2>8, EmptySeq, LenProperties
      <4> QED BY <4>1, <2>3, <2>4, <2>5, <2>8, HeadTailProperties
    <3>3. r \in GroupRecords /\ GroupOK(r) /\ r.owner = groups[g].owner
      <4> HIDE DEF rest
      <4> QED BY <2>2, <2>3, <2>5, <2>8, <3>2 DEF GroupRecords, GroupOK
    <3>4. groups' = Put(groups, g, r)
      <4>1. IsMap(groups, Groups, GroupRecords)
        BY DEF Inv, TypeOK, GroupRecords
      <4> HIDE DEF r
      <4>2. [groups EXCEPT ![g] = r] = Put(groups, g, r)
        BY <2>1, <4>1, ExceptIsPut
      <4> QED BY <4>2, <3>1
    <3> HIDE DEF r
    <3> QED BY <1>1, <2>1, <3>1, <3>3, <3>4, SameOwnerStep
  <2> QED BY <2>6, <2>7, <2>8
<1> QED BY <1>3, <1>4

-----------------------------------------------------------------------------
(***************************************************************************)
(* The theorems.                                                           *)
(***************************************************************************)
LEMMA InitInv == Init => Inv
BY DEF Init, Inv, TypeOK, GroupsOK, OwnerIndexAgrees, OwnedBy, Get, IsMap,
       EmptyMap

LEMMA NextInv == Inv /\ [Next]_vars => Inv'
<1> SUFFICES ASSUME Inv, [Next]_vars PROVE Inv'
  OBVIOUS
<1>1. CASE UNCHANGED vars
  BY <1>1, ReadingStep DEF vars, Inv, TypeOK
<1>2. ASSUME NEW h \in Handlers, Receive(h) PROVE Inv'
  BY <1>2, ReceiveType, ReadingStep DEF Receive
<1>3. ASSUME NEW h \in Handlers,
             IsGroupAvailabel(h) \/ IsGroupOwner(h) \/ IsPenddingRequest(h)
      PROVE  Inv'
  <2>1. frame' \in [Handlers -> Frames \cup {Idle}]
    BY <1>3, ReturnType DEF IsGroupAvailabel, IsGroupOwner, IsPenddingRequest,
                            Inv
  <2> QED BY <1>3, <2>1, ReadingStep DEF IsGroupAvailabel, IsGroupOwner,
                                         IsPenddingRequest
<1>4. ASSUME NEW h \in Handlers, IsMemberOfGroup(h) PROVE Inv'
  BY <1>4, IsMemberOfGroupStep
<1>5. ASSUME NEW h \in Handlers, CreateGroup(h) PROVE Inv'
  BY <1>5, CreateGroupStep
<1>6. ASSUME NEW h \in Handlers, RequestToJoin(h) PROVE Inv'
  BY <1>6, RequestToJoinStep
<1>7. ASSUME NEW h \in Handlers, ApproveRequest(h) PROVE Inv'
  BY <1>7, ApproveRequestStep
<1>8. ASSUME NEW h \in Handlers, LeaveGroup(h) PROVE Inv'
  BY <1>8, LeaveGroupStep
<1> QED BY <1>1, <1>2, <1>3, <1>4, <1>5, <1>6, <1>7, <1>8 DEF Next

\* Inv holds of every reachable state of the group half of a tracker.
THEOREM Invariant == Spec => []Inv
BY InitInv, NextInv, PTL DEF Spec

\* Every variable keeps its type (the maps and the handlers' frames).
THEOREM TypeCorrect == Spec => []TypeOK
<1>1. Inv => TypeOK
  BY DEF Inv
<1> QED BY <1>1, Invariant, PTL

\* No interleaving of accept_request commands makes a user a member twice.
THEOREM NoDoubleAdmission == Spec => []MembersDistinct
<1>1. Inv => MembersDistinct
  BY GroupsOKMeaning DEF Inv
<1> QED BY <1>1, Invariant, PTL

\* No interleaving of join_group and accept_request leaves a member's request.
THEOREM NoRequestOfMember == Spec => []PendingAreOutsiders
<1>1. Inv => PendingAreOutsiders
  BY GroupsOKMeaning DEF Inv
<1> QED BY <1>1, Invariant, PTL

\* Ownership always rests with the longest-standing member.
THEOREM SeniorOwns == Spec => []OwnerIsSenior
<1>1. Inv => OwnerIsSenior
  BY GroupsOKMeaning DEF Inv
<1> QED BY <1>1, Invariant, PTL

\* isGroupOwner, which asks owner_groups, agrees with the groups themselves.
THEOREM IndexAgrees == Spec => []OwnerIndexAgrees
<1>1. Inv => OwnerIndexAgrees
  BY DEF Inv
<1> QED BY <1>1, Invariant, PTL

-----------------------------------------------------------------------------
(***************************************************************************)
(* What the mutating calls do to the member lists.                         *)
(***************************************************************************)
\* A member can appear in a group that is there only through approveRequest,
\* and a group without members stays as it is.
LEMMA MembersStep ==
    ASSUME Inv, NEW h \in Handlers,
           \/ Receive(h) \/ IsGroupAvailabel(h) \/ IsGroupOwner(h)
           \/ IsMemberOfGroup(h) \/ IsPenddingRequest(h) \/ CreateGroup(h)
           \/ RequestToJoin(h) \/ LeaveGroup(h),
           NEW g \in DOMAIN groups
    PROVE  /\ g \in DOMAIN groups' =>
                 ToSet(groups'[g].members) \subseteq ToSet(groups[g].members)
           /\ groups[g].members = <<>> =>
                 g \in DOMAIN groups' /\ groups'[g].members = <<>>
<1> USE GroupType
<1>1. CASE UNCHANGED groups
  BY <1>1
<1>2. CASE IsMemberOfGroup(h)
  BY <1>2 DEF IsMemberOfGroup, Put, Get
<1>3. CASE CreateGroup(h)
  BY <1>3 DEF CreateGroup, Put
<1>4. CASE RequestToJoin(h)
  <2>1. g \in DOMAIN groups' /\ groups'[g].members = groups[g].members
    BY <1>4 DEF RequestToJoin, GroupRecords
  <2> QED BY <2>1
<1>5. CASE LeaveGroup(h)
  <2> DEFINE k    == frame[h].group
             u    == frame[h].user
             s    == groups[k].members
             rest == RemoveFirst(s, u)
  <2>1. CASE ~IsMember(k, u)
    BY <2>1, <1>5 DEF LeaveGroup
  <2>2. CASE IsMember(k, u)
    <3>1. k \in DOMAIN groups /\ u \in ToSet(s) /\ s # <<>>
      BY <2>2 DEF IsMember, ToSet
    <3>2. groups[k] \in GroupRecords /\ IsInjective(s)
      BY <3>1 DEF GroupOK
    <3>3. ToSet(rest) = ToSet(s) \ {u}
      BY <3>1, <3>2, RemoveFirstFromDistinct DEF GroupRecords
    <3>4. \/ groups' = Drop(groups, k)
          \/ /\ DOMAIN groups' = DOMAIN groups
             /\ groups'[k].members = rest
             /\ \A x \in DOMAIN groups \ {k} : groups'[x] = groups[x]
      <4> HIDE DEF rest
      <4>1. CASE rest = <<>>
        BY <4>1, <1>5, <2>2 DEF LeaveGroup, Dissolve, rest
      <4>2. CASE rest # <<>> /\ u = groups[k].owner
        BY <4>2, <3>1, <3>2, <1>5, <2>2 DEF LeaveGroup, HandOver, rest
      <4>3. CASE rest # <<>> /\ u # groups[k].owner
        BY <4>3, <3>1, <3>2, <1>5, <2>2 DEF LeaveGroup, GroupRecords, rest
      <4> QED BY <4>1, <4>2, <4>3
    <3> HIDE DEF rest
    <3> QED BY <3>1, <3>3, <3>4 DEF Drop
  <2> QED BY <2>1, <2>2
<1> QED BY <1>1, <1>2, <1>3, <1>4, <1>5
        DEF Receive, IsGroupAvailabel, IsGroupOwner, IsPenddingRequest

\* Nobody enters an existing group but through the owner of that moment, for
\* any number of handlers between isGroupOwner and approveRequest.
THEOREM OnlyTheOwnerAdmits == Spec => AdmittedByOwner
<1>1. ASSUME Inv, [Next]_vars, NEW g \in DOMAIN groups, NEW u \in Users,
             ~IsMember(g, u), IsMember(g, u)'
      PROVE  \E h \in Handlers : /\ At(h, "approveRequest")
                                 /\ frame[h].group = g
                                 /\ frame[h].subject = u
                                 /\ frame[h].user = groups[g].owner
  <2>1. CASE UNCHANGED vars
    BY <1>1, <2>1 DEF vars, IsMember
  <2>2. CASE \E h \in Handlers : ApproveRequest(h)
    <3>1. PICK h \in Handlers : ApproveRequest(h)
      BY <2>2
    <3> DEFINE k == frame[h].group
               v == frame[h].subject
    <3>2. IsPending(k, v) /\ groups[k].owner = frame[h].user
      BY <1>1, <3>1 DEF ApproveRequest, IsMember
    <3>3. k \in DOMAIN groups /\ groups[k] \in GroupRecords /\ GroupOK(groups[k])
      BY <1>1, <3>2, GroupType DEF IsPending
    <3>4. v \in Users /\ v \notin ToSet(groups[k].members)
      BY <3>2, <3>3 DEF GroupRecords, GroupOK, IsPending
    <3>5. groups' = [groups EXCEPT ![k] =
                        [owner   |-> groups[k].owner,
                         members |-> Append(groups[k].members, v),
                         pending |-> groups[k].pending \ {v}]]
      BY <3>1, <3>2 DEF ApproveRequest
    <3>6. g = k
      BY <1>1, <3>5 DEF IsMember
    <3>7. groups'[k].members = Append(groups[k].members, v)
      BY <3>3, <3>5
    <3>8. ToSet(groups'[k].members) = ToSet(groups[k].members) \cup {v}
      BY <3>3, <3>4, <3>7, AppendToDistinct DEF GroupRecords, GroupOK
    <3>9. u = v
      BY <1>1, <3>6, <3>8 DEF IsMember
    <3>10. At(h, "approveRequest")
      BY <3>1 DEF ApproveRequest
    <3> QED BY <3>2, <3>6, <3>9, <3>10
  <2>3. CASE ~(\E h \in Handlers : ApproveRequest(h)) /\ ~UNCHANGED vars
    <3>1. g \in DOMAIN groups' =>
             ToSet(groups'[g].members) \subseteq ToSet(groups[g].members)
      BY <1>1, <2>3, MembersStep DEF Next
    <3> QED BY <1>1, <3>1 DEF IsMember
  <2> QED BY <2>1, <2>2, <2>3
<1>2. Inv /\ [Next]_vars =>
         [\A g \in DOMAIN groups, u \in Users :
            ~IsMember(g, u) /\ IsMember(g, u)' =>
               \E h \in Handlers : /\ At(h, "approveRequest")
                                   /\ frame[h].group = g
                                   /\ frame[h].subject = u
                                   /\ frame[h].user = groups[g].owner]_vars
  BY <1>1
<1> QED BY <1>2, Invariant, PTL DEF Spec, AdmittedByOwner

\* A group name that isMemberOfGroup has taken without a member is lost.
THEOREM GhostsStay == Spec => GhostsArePermanent
<1>1. ASSUME Inv, [Next]_vars, NEW g \in DOMAIN groups, groups[g].members = <<>>
      PROVE  g \in DOMAIN groups' /\ groups'[g].members = <<>>
  <2>1. CASE UNCHANGED vars
    BY <1>1, <2>1 DEF vars
  <2>2. CASE \E h \in Handlers : ApproveRequest(h)
    <3>1. PICK h \in Handlers : ApproveRequest(h)
      BY <2>2
    <3>2. frame[h].user \in Users /\ groups[g].owner = NoUser
      BY <1>1, <3>1, FrameType, GroupType DEF Inv, ApproveRequest, GroupOK
    <3>3. CASE frame[h].group = g
      BY <1>1, <3>1, <3>2, <3>3, NoUserAssumption DEF ApproveRequest
    <3>4. CASE frame[h].group # g
      BY <1>1, <3>1, <3>4 DEF ApproveRequest
    <3> QED BY <3>3, <3>4
  <2>3. CASE ~(\E h \in Handlers : ApproveRequest(h)) /\ ~UNCHANGED vars
    BY <1>1, <2>3, MembersStep DEF Next
  <2> QED BY <2>1, <2>2, <2>3
<1>2. Inv /\ [Next]_vars =>
         [\A g \in DOMAIN groups : groups[g].members = <<>> =>
             g \in DOMAIN groups' /\ groups'[g].members = <<>>]_vars
  BY <1>1
<1> QED BY <1>2, Invariant, PTL DEF Spec, GhostsArePermanent

-----------------------------------------------------------------------------
(***************************************************************************)
(* The refinement.                                                         *)
(***************************************************************************)
LEMMA ViewPut ==
    ASSUME NEW m, NEW g, NEW r, r.members # <<>>
    PROVE  View(Put(m, g, r)) =
              Put(View(m), g, [members |-> r.members, pending |-> r.pending])
BY DEF View, Put

LEMMA ViewPutGhost ==
    ASSUME NEW m, NEW g, NEW r, r.members = <<>>,
           g \in DOMAIN m => m[g].members = <<>>
    PROVE  View(Put(m, g, r)) = View(m)
<1>1. ASSUME NEW k
      PROVE  /\ k \in DOMAIN Put(m, g, r) /\ Put(m, g, r)[k].members # <<>>
                   <=> k \in DOMAIN m /\ m[k].members # <<>>
             /\ k \in DOMAIN m /\ m[k].members # <<>> => Put(m, g, r)[k] = m[k]
  BY DEF Put
<1>2. {k \in DOMAIN Put(m, g, r) : Put(m, g, r)[k].members # <<>>}
         = {k \in DOMAIN m : m[k].members # <<>>}
  BY <1>1
<1> QED BY <1>1, <1>2 DEF View

LEMMA ViewDrop ==
    ASSUME NEW m, NEW g
    PROVE  View(Drop(m, g)) = Drop(View(m), g)
BY DEF View, Drop

LEMMA ViewExcept ==
    ASSUME NEW m, NEW g \in DOMAIN View(m), NEW v
    PROVE  [View(m) EXCEPT ![g] = v] = Put(View(m), g, v)
BY DEF View, Put

\* The instance's copies of the library's operators are the operators.
LEMMA SameOperators ==
    /\ \A m, k, v : Registry!Put(m, k, v) = Put(m, k, v)
    /\ \A m, k : Registry!Drop(m, k) = Drop(m, k)
    /\ \A s : Registry!ToSet(s) = ToSet(s)
    /\ \A s, u : Registry!RemoveFirst(s, u) = RemoveFirst(s, u)
BY DEF Registry!Put, Put, Registry!Drop, Drop, Registry!ToSet, ToSet,
       Registry!RemoveFirst, RemoveFirst, Registry!RemoveAt, RemoveAt,
       Registry!SelectInSeq, SelectInSeq, Registry!Min, Min

RegistryStep == Registry!Next \/ UNCHANGED View(groups)

LEMMA CreateGroupRefines ==
    ASSUME Inv, NEW h \in Handlers, CreateGroup(h)
    PROVE  RegistryStep
<1> DEFINE g == frame[h].group
           u == frame[h].user
           r == [owner |-> u, members |-> <<u>>, pending |-> {}]
<1>1. g \in Groups /\ u \in Users
  BY FrameType DEF CreateGroup, Inv
<1>2. CASE g \in DOMAIN groups
  BY <1>2 DEF CreateGroup, RegistryStep
<1>3. CASE g \notin DOMAIN groups
  <2>1. groups' = Put(groups, g, r) /\ r.members # <<>>
    BY <1>3 DEF CreateGroup
  <2>2. View(groups)' = Put(View(groups), g, [members |-> <<u>>, pending |-> {}])
    <3>1. View(Put(groups, g, r)) =
             Put(View(groups), g, [members |-> r.members, pending |-> r.pending])
      <4> HIDE DEF r
      <4> QED BY <2>1, ViewPut
    <3>2. View(groups)' = View(groups')
      BY DEF View
    <3> QED BY <2>1, <3>1, <3>2
  <2>3. g \notin DOMAIN View(groups)
    BY <1>3 DEF View
  <2>4. Registry!Found(g, u)
    BY <2>2, <2>3, SameOperators DEF Registry!Found
  <2> QED BY <1>1, <2>4 DEF RegistryStep, Registry!Next
<1> QED BY <1>2, <1>3

LEMMA RequestToJoinRefines ==
    ASSUME Inv, NEW h \in Handlers, RequestToJoin(h)
    PROVE  RegistryStep
<1> DEFINE g  == frame[h].group
           u  == frame[h].user
           ok == g \in DOMAIN groups /\ ~IsMember(g, u)
           r  == [groups[g] EXCEPT !.pending = groups[g].pending \cup {u}]
<1>1. g \in Groups /\ u \in Users
  BY FrameType DEF RequestToJoin, Inv
<1>2. View(groups)' = View(groups')
  BY DEF View
<1>3. CASE ~ok
  BY <1>2, <1>3 DEF RequestToJoin, RegistryStep
<1>4. CASE ok
  <2>1. g \in DOMAIN groups /\ u \notin ToSet(groups[g].members)
    BY <1>4 DEF IsMember
  <2>2. groups[g] \in GroupRecords
    BY <2>1, GroupType
  <2>3. groups' = [groups EXCEPT ![g] = r]
    BY <1>4 DEF RequestToJoin
  <2>4. groups' = Put(groups, g, r)
    <3>1. IsMap(groups, Groups, GroupRecords)
      BY DEF Inv, TypeOK, GroupRecords
    <3> HIDE DEF r
    <3>2. [groups EXCEPT ![g] = r] = Put(groups, g, r)
      BY <2>1, <3>1, ExceptIsPut
    <3> QED BY <3>2, <2>3
  <2>5. /\ r.members = groups[g].members
        /\ r.pending = groups[g].pending \cup {u}
    BY <2>2 DEF GroupRecords
  <2> HIDE DEF r
  <2>6. CASE groups[g].members = <<>>
    <3>1. View(Put(groups, g, r)) = View(groups)
      BY <2>5, <2>6, ViewPutGhost
    <3> QED BY <1>2, <2>4, <3>1 DEF RegistryStep
  <2>7. CASE groups[g].members # <<>>
    <3>1. View(Put(groups, g, r)) =
             Put(View(groups), g, [members |-> r.members, pending |-> r.pending])
      BY <2>5, <2>7, ViewPut
    <3>2. /\ g \in DOMAIN View(groups)
          /\ View(groups)[g] = [members |-> groups[g].members,
                                pending |-> groups[g].pending]
      BY <2>1, <2>7 DEF View
    <3>3. View(groups') = [View(groups) EXCEPT ![g].pending = @ \cup {u}]
      <4> DEFINE v == [members |-> groups[g].members,
                       pending |-> groups[g].pending \cup {u}]
      <4>1. View(groups') = Put(View(groups), g, v)
        BY <2>4, <2>5, <3>1
      <4>2. [View(groups)[g] EXCEPT !.pending = View(groups)[g].pending \cup {u}]
               = v
        BY <3>2
      <4>3. [View(groups) EXCEPT ![g] = v] = Put(View(groups), g, v)
        <5> HIDE DEF v
        <5> QED BY <3>2, ViewExcept
      <4> QED BY <4>1, <4>2, <4>3
    <3>4. Registry!Request(g, u)
      BY <1>2, <2>1, <3>2, <3>3, SameOperators
         DEF Registry!Request, Registry!Members
    <3> QED BY <1>1, <3>4 DEF RegistryStep, Registry!Next
  <2> QED BY <2>6, <2>7
<1> QED BY <1>3, <1>4

LEMMA ApproveRequestRefines ==
    ASSUME Inv, NEW h \in Handlers, ApproveRequest(h)
    PROVE  RegistryStep
<1> DEFINE g  == frame[h].group
           u  == frame[h].subject
           ok == IsPending(g, u) /\ groups[g].owner = frame[h].user
           r  == [owner   |-> groups[g].owner,
                  members |-> Append(groups[g].members, u),
                  pending |-> groups[g].pending \ {u}]
<1>1. g \in Groups /\ u \in Users /\ frame[h].user \in Users
  BY FrameType DEF ApproveRequest, Inv
<1>2. View(groups)' = View(groups')
  BY DEF View
<1>3. CASE ~ok
  BY <1>2, <1>3 DEF ApproveRequest, RegistryStep
<1>4. CASE ok
  <2>1. g \in DOMAIN groups /\ u \in groups[g].pending
    BY <1>4 DEF IsPending
  <2>2. groups[g] \in GroupRecords /\ GroupOK(groups[g])
    BY <2>1, GroupType
  <2>3. groups[g].members \in Seq(Users) /\ groups[g].members # <<>>
    BY <1>1, <1>4, <2>2, NoUserAssumption DEF GroupOK, GroupRecords
  <2>4. Append(groups[g].members, u) # <<>>
    BY <1>1, <2>1, <2>2, <2>3, AppendToDistinct DEF GroupOK
  <2>5. groups' = [groups EXCEPT ![g] = r]
    BY <1>4 DEF ApproveRequest
  <2>6. groups' = Put(groups, g, r)
    <3>1. IsMap(groups, Groups, GroupRecords)
      BY DEF Inv, TypeOK, GroupRecords
    <3> HIDE DEF r
    <3>2. [groups EXCEPT ![g] = r] = Put(groups, g, r)
      BY <2>1, <3>1, ExceptIsPut
    <3> QED BY <3>2, <2>5
  <2>7. View(Put(groups, g, r)) =
           Put(View(groups), g, [members |-> Append(groups[g].members, u),
                                 pending |-> groups[g].pending \ {u}])
    <3>1. /\ r.members = Append(groups[g].members, u)
          /\ r.pending = groups[g].pending \ {u}
      OBVIOUS
    <3> HIDE DEF r
    <3>2. View(Put(groups, g, r)) =
             Put(View(groups), g, [members |-> r.members, pending |-> r.pending])
      BY <2>4, <3>1, ViewPut
    <3> QED BY <3>1, <3>2
  <2>8. /\ g \in DOMAIN View(groups)
        /\ View(groups)[g] = [members |-> groups[g].members,
                              pending |-> groups[g].pending]
    BY <2>1, <2>3 DEF View
  <2>9. View(groups') =
           [View(groups) EXCEPT ![g] = [members |-> Append(@.members, u),
                                        pending |-> @.pending \ {u}]]
    <3> DEFINE v == [members |-> Append(groups[g].members, u),
                     pending |-> groups[g].pending \ {u}]
    <3>1. View(groups') = Put(View(groups), g, v)
      BY <2>6, <2>7
    <3>2. [members |-> Append(View(groups)[g].members, u),
           pending |-> View(groups)[g].pending \ {u}] = v
      BY <2>8
    <3>3. [View(groups) EXCEPT ![g] = v] = Put(View(groups), g, v)
      <4> HIDE DEF v
      <4> QED BY <2>8, ViewExcept
    <3> QED BY <3>1, <3>2, <3>3
  <2>10. Registry!Admit(g, u)
    BY <1>2, <2>1, <2>8, <2>9 DEF Registry!Admit, Registry!Waiting
  <2> QED BY <1>1, <2>10 DEF RegistryStep, Registry!Next
<1> QED BY <1>3, <1>4

LEMMA LeaveGroupRefines ==
    ASSUME Inv, NEW h \in Handlers, LeaveGroup(h)
    PROVE  RegistryStep
<1> DEFINE g    == frame[h].group
           u    == frame[h].user
           s    == groups[g].members
           rest == RemoveFirst(s, u)
<1>1. g \in Groups /\ u \in Users
  BY FrameType DEF LeaveGroup, Inv
<1>2. View(groups)' = View(groups')
  BY DEF View
<1>3. CASE ~IsMember(g, u)
  BY <1>2, <1>3 DEF LeaveGroup, RegistryStep
<1>4. CASE IsMember(g, u)
  <2>1. g \in DOMAIN groups /\ u \in ToSet(s) /\ s # <<>>
    BY <1>4 DEF IsMember, ToSet
  <2>2. groups[g] \in GroupRecords /\ IsInjective(s) /\ s \in Seq(Users)
    BY <2>1, GroupType DEF GroupOK, GroupRecords
  <2>3. rest \in Seq(Users) /\ Len(rest) = Len(s) - 1
    BY <2>1, <2>2, RemoveFirstFromDistinct
  <2>4. /\ g \in DOMAIN View(groups)
        /\ View(groups)[g] = [members |-> s, pending |-> groups[g].pending]
    BY <2>1 DEF View
  <2>5. /\ u \in Registry!Members(g)
        /\ g \in DOMAIN View(groups)
    BY <2>1, <2>4, SameOperators DEF Registry!Members
  <2>6. CASE rest = <<>>
    <3>1. groups' = Drop(groups, g)
      BY <1>4, <2>6 DEF LeaveGroup, Dissolve
    <3>2. View(groups') = Drop(View(groups), g)
      BY <3>1, ViewDrop
    <3>3. Len(s) = 1
      BY <2>2, <2>3, <2>6, EmptySeq, LenProperties
    <3>4. Registry!Depart(g, u)
      BY <1>2, <2>4, <2>5, <3>2, <3>3, SameOperators DEF Registry!Depart
    <3> QED BY <1>1, <3>4 DEF RegistryStep, Registry!Next
  <2>7. CASE rest # <<>>
    <3>1. PICK r : /\ groups' = [groups EXCEPT ![g] = r]
                   /\ r.members = rest
                   /\ r.pending = groups[g].pending
      <4>1. CASE u = groups[g].owner
        <5> DEFINE q == [owner   |-> Head(rest),
                         members |-> rest,
                         pending |-> groups[g].pending]
        <5>1. groups' = [groups EXCEPT ![g] = q]
          BY <1>4, <2>7, <4>1 DEF LeaveGroup, HandOver
        <5>2. q.members = rest /\ q.pending = groups[g].pending
          OBVIOUS
        <5> HIDE DEF q
        <5> QED BY <5>1, <5>2
      <4>2. CASE u # groups[g].owner
        <5> DEFINE q == [groups[g] EXCEPT !.members = rest]
        <5>1. groups' = [groups EXCEPT ![g] = q]
          BY <1>4, <2>7, <4>2 DEF LeaveGroup
        <5>2. q.members = rest /\ q.pending = groups[g].pending
          <6> HIDE DEF rest
          <6> QED BY <2>2 DEF GroupRecords
        <5> HIDE DEF q
        <5> QED BY <5>1, <5>2
      <4> QED BY <4>1, <4>2
    <3>2. groups' = Put(groups, g, r)
      <4>1. IsMap(groups, Groups, GroupRecords)
        BY DEF Inv, TypeOK, GroupRecords
      <4>2. [groups EXCEPT ![g] = r] = Put(groups, g, r)
        BY <2>1, <4>1, ExceptIsPut
      <4> QED BY <4>2, <3>1
    <3> DEFINE v == [members |-> rest, pending |-> groups[g].pending]
    <3>3. View(groups') = Put(View(groups), g, v)
      <4>1. View(Put(groups, g, r)) =
               Put(View(groups), g, [members |-> r.members,
                                     pending |-> r.pending])
        BY <2>7, <3>1, ViewPut
      <4>2. [members |-> r.members, pending |-> r.pending] = v
        BY <3>1
      <4> QED BY <3>2, <4>1, <4>2
    <3>4. [View(groups) EXCEPT ![g] = v] = Put(View(groups), g, v)
      <4> HIDE DEF v
      <4> QED BY <2>4, ViewExcept
    <3>5. [View(groups)[g] EXCEPT !.members = RemoveFirst(View(groups)[g].members, u)]
             = v
      BY <2>4
    <3>6. View(groups') =
             [View(groups) EXCEPT ![g].members = RemoveFirst(@, u)]
      BY <3>3, <3>4, <3>5
    <3>7. Len(View(groups)[g].members) # 1
      BY <2>2, <2>3, <2>4, <2>7, EmptySeq, LenProperties
    <3>8. Registry!Depart(g, u)
      BY <1>2, <2>5, <3>6, <3>7, SameOperators DEF Registry!Depart
    <3> QED BY <1>1, <3>8 DEF RegistryStep, Registry!Next
  <2> QED BY <2>6, <2>7
<1> QED BY <1>3, <1>4

\* isMemberOfGroup changes nothing that GroupRegistry can see.
LEMMA IsMemberOfGroupRefines ==
    ASSUME Inv, NEW h \in Handlers, IsMemberOfGroup(h)
    PROVE  RegistryStep
<1> DEFINE g     == frame[h].group
           ghost == [owner |-> NoUser, members |-> <<>>, pending |-> {}]
<1>1. View(groups)' = View(groups')
  BY DEF View
<1>2. CASE g \in DOMAIN groups
  <2>1. IsMap(groups, Groups, GroupRecords)
    BY DEF Inv, TypeOK, GroupRecords
  <2>2. groups' = Put(groups, g, groups[g])
    BY <1>2 DEF IsMemberOfGroup, Get
  <2>3. groups' = groups
    BY <1>2, <2>1, <2>2 DEF IsMap, Put
  <2> QED BY <1>1, <2>3 DEF RegistryStep
<1>3. CASE g \notin DOMAIN groups
  <2>1. groups' = Put(groups, g, ghost) /\ ghost.members = <<>>
    BY <1>3 DEF IsMemberOfGroup, Get
  <2> HIDE DEF ghost
  <2>2. View(Put(groups, g, ghost)) = View(groups)
    BY <1>3, <2>1, ViewPutGhost
  <2> QED BY <1>1, <2>1, <2>2 DEF RegistryStep
<1> QED BY <1>2, <1>3

\* The group half of a tracker implements GroupRegistry: each command takes
\* effect at one point, its last call, whatever the other handlers do.
THEOREM Refinement == Spec => RefinesRegistry
<1>1. Init => Registry!Init
  <2>1. ASSUME Init PROVE View(groups) = Registry!EmptyMap
    BY <2>1 DEF Init, View, EmptyMap, Registry!EmptyMap
  <2> QED BY <2>1 DEF Registry!Init
<1>2. Inv /\ [Next]_vars => [Registry!Next]_(View(groups))
  <2> SUFFICES ASSUME Inv, [Next]_vars PROVE RegistryStep
    BY DEF RegistryStep
  <2>1. CASE UNCHANGED groups
    BY <2>1 DEF RegistryStep, View
  <2>2. ASSUME NEW h \in Handlers, IsMemberOfGroup(h) PROVE RegistryStep
    BY <2>2, IsMemberOfGroupRefines
  <2>3. ASSUME NEW h \in Handlers, CreateGroup(h) PROVE RegistryStep
    BY <2>3, CreateGroupRefines
  <2>4. ASSUME NEW h \in Handlers, RequestToJoin(h) PROVE RegistryStep
    BY <2>4, RequestToJoinRefines
  <2>5. ASSUME NEW h \in Handlers, ApproveRequest(h) PROVE RegistryStep
    BY <2>5, ApproveRequestRefines
  <2>6. ASSUME NEW h \in Handlers, LeaveGroup(h) PROVE RegistryStep
    BY <2>6, LeaveGroupRefines
  <2> QED
    BY <2>1, <2>2, <2>3, <2>4, <2>5, <2>6
    DEF Next, vars, Receive, IsGroupAvailabel, IsGroupOwner, IsPenddingRequest
<1> QED BY <1>1, <1>2, Invariant, PTL DEF Spec, RefinesRegistry, Registry!Spec
=============================================================================
