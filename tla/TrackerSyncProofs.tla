------------------------- MODULE TrackerSyncProofs --------------------------
(***************************************************************************)
(* Proofs about TrackerSync, for any trackers, users, passwords, groups    *)
(* and files and any number of commands.                                   *)
(*                                                                         *)
(* That a registration reaches everybody is proved of the names that are   *)
(* known or under way (Spread), and that passwords differ only by conflict *)
(* of what they come from: a client (Registered).  Groups are sound        *)
(* because the SYNC handlers check what the senders checked.               *)
(* Registered also shows that TrackerSync implements AccountGossip.        *)
(***************************************************************************)
EXTENDS TrackerSync, SequenceFacts

GroupRecords == [members : Seq(Users), pending : SUBSET Users]

GroupOK(x) ==
    /\ x.members # <<>>
    /\ IsInjective(x.members)
    /\ x.pending \cap ToSet(x.members) = {}

GroupsOK(G) == IsMap(G, Groups, GroupRecords) /\ \A g \in DOMAIN G : GroupOK(G[g])

FilesOK(F) == IsMap(F, Keys, SUBSET Users)

\* The type of a tracker's state, and its soundness.
ReplicaOK(r) ==
    /\ r = [users |-> r.users, logged_in |-> r.logged_in, groups |-> r.groups,
            files |-> r.files]
    /\ IsMap(r.users, Users, Passwords)
    /\ r.logged_in \subseteq Users
    /\ GroupsOK(r.groups)
    /\ FilesOK(r.files)

ReplicasOK ==
    /\ replica = [t \in Trackers |-> replica[t]]
    /\ \A t \in Trackers : ReplicaOK(replica[t])

\* A name that is known, or about to be, misses only trackers that missed
\* something.
Spread ==
    \A p, q \in Trackers, u \in Users :
        Knows(p, u) \/ Coming(p, u) => Knows(q, u) \/ Coming(q, u) \/ q \in missed

\* Every password anywhere was accepted from a client.
Registered ==
    /\ \A t \in Trackers, u \in Users :
          Knows(t, u) => <<u, replica[t].users[u]>> \in registered
    /\ \A m \in net : m.cmd.op = "create_user"
                         => <<m.cmd.user, m.cmd.password>> \in registered

Inv == TypeOK /\ ReplicasOK /\ Spread /\ Registered

-----------------------------------------------------------------------------
(***************************************************************************)
(* Commands, as functions of one tracker's state.                          *)
(***************************************************************************)
LEMMA CommandFacts ==
    ASSUME NEW m \in Commands
    PROVE  /\ m.op \in {"create_user", "login", "logout", "create_group", "join_group",
                        "leave_group", "accept_request", "upload_file_data",
                        "update_file_info", "stop_share"}
           /\ m.user \in Users
           /\ m.op \in {"create_user", "login"} => m.password \in Passwords
           /\ m.op \in {"create_group", "join_group", "leave_group", "accept_request"}
                 => m.group \in Groups
           /\ m.op = "accept_request" => m.subject \in Users
           /\ m.op \in {"upload_file_data", "update_file_info", "stop_share"}
                 => m.key \in Keys
           /\ m.op = "upload_file_data" => m.seeders \in SUBSET Users
<1>1. CASE m \in UserCommands
  BY <1>1 DEF UserCommands
<1>2. CASE m \in GroupCommands
  BY <1>2 DEF GroupCommands
<1>3. CASE m \in Uploads \cup FileCommands
  BY <1>3 DEF Uploads, FileCommands
<1> QED
  BY <1>1, <1>2, <1>3 DEF Commands

\* One part of a tracker's state is replaced by a good one.
Changed(r, q) == ReplicaOK(q) /\ q.users = r.users

LEMMA ReplicaParts ==
    ASSUME NEW r, ReplicaOK(r), NEW q, NEW x
    PROVE  /\ IsMap(x, Users, Passwords) /\ q = [r EXCEPT !.users = x]
                 => ReplicaOK(q) /\ q.users = x
           /\ x \subseteq Users /\ q = [r EXCEPT !.logged_in = x] => Changed(r, q)
           /\ GroupsOK(x) /\ q = [r EXCEPT !.groups = x] => Changed(r, q)
           /\ FilesOK(x) /\ q = [r EXCEPT !.files = x] => Changed(r, q)
<1> DEFINE R(a, b, c, d) == [users |-> a, logged_in |-> b, groups |-> c, files |-> d]
<1>1. r = R(r.users, r.logged_in, r.groups, r.files)
  BY DEF ReplicaOK
<1>2. /\ [r EXCEPT !.users = x] = R(x, r.logged_in, r.groups, r.files)
      /\ [r EXCEPT !.logged_in = x] = R(r.users, x, r.groups, r.files)
      /\ [r EXCEPT !.groups = x] = R(r.users, r.logged_in, x, r.files)
      /\ [r EXCEPT !.files = x] = R(r.users, r.logged_in, r.groups, x)
  BY <1>1
<1>3. \A a, b, c, d : /\ R(a, b, c, d).users = a /\ R(a, b, c, d).logged_in = b
                      /\ R(a, b, c, d).groups = c /\ R(a, b, c, d).files = d
  OBVIOUS
<1>4. ASSUME NEW a, NEW b, NEW c, NEW d, IsMap(a, Users, Passwords), b \subseteq Users,
             GroupsOK(c), FilesOK(d)
      PROVE  ReplicaOK(R(a, b, c, d))
  BY <1>4 DEF ReplicaOK
<1> HIDE DEF R
<1> QED
  BY <1>2, <1>3, <1>4 DEF ReplicaOK, Changed

LEMMA PutGroup ==
    ASSUME NEW G, GroupsOK(G), NEW g \in Groups, NEW x \in GroupRecords, GroupOK(x)
    PROVE  GroupsOK(Put(G, g, x))
<1>1. IsMap(Put(G, g, x), Groups, GroupRecords)
  BY PutType DEF GroupsOK
<1>2. \A k \in DOMAIN Put(G, g, x) :
         Put(G, g, x)[k] = x \/ (k \in DOMAIN G /\ Put(G, g, x)[k] = G[k])
  BY DEF Put
<1> QED
  BY <1>1, <1>2 DEF GroupsOK

LEMMA DropGroup ==
    ASSUME NEW G, GroupsOK(G), NEW g
    PROVE  GroupsOK(Drop(G, g))
<1>1. IsMap(Drop(G, g), Groups, GroupRecords)
  BY DropType DEF GroupsOK
<1>2. \A k \in DOMAIN Drop(G, g) : k \in DOMAIN G /\ Drop(G, g)[k] = G[k]
  BY DEF Drop
<1> QED
  BY <1>1, <1>2 DEF GroupsOK

\* What a group of a sound replica is.
LEMMA GroupFacts ==
    ASSUME NEW G, GroupsOK(G), NEW g \in DOMAIN G
    PROVE  /\ g \in Groups /\ GroupOK(G[g])
           /\ G[g].members \in Seq(Users) /\ G[g].pending \in SUBSET Users
           /\ G[g] \in GroupRecords
<1>1. G[g] \in GroupRecords /\ g \in Groups /\ GroupOK(G[g])
  BY DEF GroupsOK, IsMap
<1> QED
  BY <1>1 DEF GroupRecords

LEMMA JoinSound ==
    ASSUME NEW G, GroupsOK(G), NEW g \in DOMAIN G, NEW u \in Users,
           u \notin ToSet(G[g].members)
    PROVE  GroupsOK([G EXCEPT ![g].pending = @ \cup {u}])
<1> DEFINE x == [members |-> G[g].members, pending |-> G[g].pending \cup {u}]
<1>1. [G[g] EXCEPT !.pending = G[g].pending \cup {u}] = x
  <2>1. \A p : [G[g] EXCEPT !.pending = p] = [members |-> G[g].members, pending |-> p]
    BY GroupFacts DEF GroupRecords
  <2> QED
    BY <2>1
<1>2. x \in GroupRecords /\ GroupOK(x) /\ g \in Groups
  BY GroupFacts DEF GroupRecords, GroupOK
<1> HIDE DEF x
<1>3. [G EXCEPT ![g].pending = @ \cup {u}] = [G EXCEPT ![g] = x]
  BY <1>1
<1>4. [G EXCEPT ![g] = x] = Put(G, g, x)
  BY ExceptIsPut DEF GroupsOK
<1>5. GroupsOK(Put(G, g, x))
  BY <1>2, PutGroup
<1> QED
  BY <1>3, <1>4, <1>5

LEMMA AcceptSound ==
    ASSUME NEW G, GroupsOK(G), NEW g \in DOMAIN G, NEW u \in Users,
           u \notin ToSet(G[g].members)
    PROVE  GroupsOK([G EXCEPT ![g] = [members |-> Append(@.members, u),
                                      pending |-> @.pending \ {u}]])
<1> DEFINE x == [members |-> Append(G[g].members, u), pending |-> G[g].pending \ {u}]
<1>1. /\ Append(G[g].members, u) \in Seq(Users)
      /\ Append(G[g].members, u) # <<>>
      /\ IsInjective(Append(G[g].members, u))
      /\ ToSet(Append(G[g].members, u)) = ToSet(G[g].members) \cup {u}
  BY GroupFacts, AppendToDistinct DEF GroupOK
<1>2. x \in GroupRecords /\ GroupOK(x) /\ g \in Groups
  BY <1>1, GroupFacts DEF GroupRecords, GroupOK
<1> HIDE DEF x
<1>3. [G EXCEPT ![g] = x] = Put(G, g, x)
  BY ExceptIsPut DEF GroupsOK
<1>4. GroupsOK(Put(G, g, x))
  BY <1>2, PutGroup
<1> QED
  BY <1>3, <1>4 DEF x

LEMMA LeaveSound ==
    ASSUME NEW G, GroupsOK(G), NEW g \in DOMAIN G, NEW u \in ToSet(G[g].members),
           RemoveFirst(G[g].members, u) # <<>>
    PROVE  GroupsOK([G EXCEPT ![g].members = RemoveFirst(G[g].members, u)])
<1> DEFINE rest == RemoveFirst(G[g].members, u)
           x == [members |-> rest, pending |-> G[g].pending]
<1>1. rest \in Seq(Users) /\ IsInjective(rest) /\ ToSet(rest) = ToSet(G[g].members) \ {u}
  BY GroupFacts, RemoveFirstFromDistinct DEF GroupOK
<1> HIDE DEF rest
<1>2. [G[g] EXCEPT !.members = rest] = x
  BY GroupFacts DEF GroupRecords
<1>3. x \in GroupRecords /\ GroupOK(x) /\ g \in Groups
  BY <1>1, GroupFacts DEF GroupRecords, GroupOK, rest
<1> HIDE DEF x
<1>4. [G EXCEPT ![g].members = rest] = [G EXCEPT ![g] = x]
  BY <1>2
<1>5. [G EXCEPT ![g] = x] = Put(G, g, x)
  BY ExceptIsPut DEF GroupsOK
<1>6. GroupsOK(Put(G, g, x))
  BY <1>3, PutGroup
<1> QED
  BY <1>4, <1>5, <1>6 DEF rest

LEMMA NewSeeders ==
    ASSUME NEW F, FilesOK(F), NEW k \in DOMAIN F, NEW x \in SUBSET Users
    PROVE  FilesOK([F EXCEPT ![k] = x])
<1>1. k \in Keys
  BY DEF FilesOK, IsMap
<1>2. FilesOK(Put(F, k, x))
  BY <1>1, PutType DEF FilesOK
<1> QED
  BY <1>2, ExceptIsPut DEF FilesOK

\* What an upload is, however much of its metadata came.
LEMMA UploadFacts ==
    ASSUME NEW u \in Users, NEW k \in Keys, NEW s, s \subseteq {u}
    PROVE  /\ Upload(u, k, s) \in Commands
           /\ Upload(u, k, s).op # "create_user"
<1>1. Upload(u, k, s) \in Uploads
  BY DEF Upload, Uploads
<1> QED
  BY <1>1 DEF Commands, Upload

\* A command leaves a tracker's state sound, and the users alone except that
\* create_user adds one who was not there.
LEMMA EffectFacts ==
    ASSUME NEW r, ReplicaOK(r), NEW m \in Commands, Accepts(r, m)
    PROVE  /\ ReplicaOK(Effect(r, m))
           /\ Effect(r, m).users = IF m.op = "create_user"
                                   THEN Put(r.users, m.user, m.password) ELSE r.users
<1>1. CASE m.op = "create_user"
  <2>1. Effect(r, m) = [r EXCEPT !.users = Put(r.users, m.user, m.password)]
    BY <1>1 DEF Effect, Register
  <2>2. IsMap(Put(r.users, m.user, m.password), Users, Passwords)
    BY <1>1, CommandFacts, PutType DEF ReplicaOK
  <2> QED
    BY <1>1, <2>1, <2>2, ReplicaParts
<1>2. CASE m.op = "login" \/ m.op = "logout"
  <2>1. PICK x : x \subseteq Users /\ Effect(r, m) = [r EXCEPT !.logged_in = x]
    <3>1. /\ r.logged_in \cup {m.user} \subseteq Users
          /\ r.logged_in \ {m.user} \subseteq Users
      BY CommandFacts DEF ReplicaOK
    <3>2. \/ Effect(r, m) = [r EXCEPT !.logged_in = r.logged_in \cup {m.user}]
          \/ Effect(r, m) = [r EXCEPT !.logged_in = r.logged_in \ {m.user}]
      BY <1>2 DEF Effect
    <3> QED
      BY <3>1, <3>2
  <2> QED
    BY <1>2, <2>1, ReplicaParts DEF Changed
<1>3. ASSUME NEW G, GroupsOK(G), Effect(r, m) = [r EXCEPT !.groups = G],
             m.op # "create_user"
      PROVE  Changed(r, Effect(r, m))
  BY <1>3, ReplicaParts
<1>4. ASSUME NEW F, FilesOK(F), Effect(r, m) = [r EXCEPT !.files = F],
             m.op # "create_user"
      PROVE  Changed(r, Effect(r, m))
  BY <1>4, ReplicaParts
<1>5. GroupsOK(r.groups) /\ FilesOK(r.files) /\ m.user \in Users
  BY CommandFacts DEF ReplicaOK
<1>6. CASE m.op = "create_group"
  <2> DEFINE x == [members |-> <<m.user>>, pending |-> {}]
  <2>1. x \in GroupRecords /\ GroupOK(x) /\ m.group \in Groups
    BY <1>5, <1>6, CommandFacts DEF GroupRecords, GroupOK, IsInjective
  <2> HIDE DEF x
  <2>2. GroupsOK(Put(r.groups, m.group, x))
    BY <1>5, <2>1, PutGroup
  <2>3. Effect(r, m) = [r EXCEPT !.groups = Put(r.groups, m.group, x)]
    BY <1>6 DEF Effect, x
  <2> QED
    BY <1>3, <1>6, <2>2, <2>3 DEF Changed
<1>7. CASE m.op = "join_group"
  <2>1. m.group \in DOMAIN r.groups /\ m.user \notin ToSet(r.groups[m.group].members)
    BY <1>7 DEF Accepts, IsMember
  <2>2. GroupsOK([r.groups EXCEPT ![m.group].pending = @ \cup {m.user}])
    BY <1>5, <2>1, JoinSound
  <2>3. Effect(r, m) =
           [r EXCEPT !.groups = [r.groups EXCEPT ![m.group].pending = @ \cup {m.user}]]
    BY <1>7 DEF Effect
  <2> QED
    BY <1>3, <1>7, <2>2, <2>3 DEF Changed
<1>8. CASE m.op = "accept_request"
  <2> DEFINE G == [r.groups EXCEPT ![m.group] =
                      [members |-> Append(@.members, m.subject),
                       pending |-> @.pending \ {m.subject}]]
  <2>1. /\ m.group \in DOMAIN r.groups /\ m.subject \in Users
        /\ m.subject \notin ToSet(r.groups[m.group].members)
    BY <1>8, CommandFacts DEF Accepts, IsMember, IsPending
  <2>2. GroupsOK(G)
    BY <1>5, <2>1, AcceptSound
  <2>3. Effect(r, m) = [r EXCEPT !.groups = G]
    BY <1>8 DEF Effect
  <2> HIDE DEF G
  <2> QED
    BY <1>3, <1>8, <2>2, <2>3 DEF Changed
<1>9. CASE m.op = "leave_group"
  <2> DEFINE rest == RemoveFirst(r.groups[m.group].members, m.user)
             G == IF rest = <<>> THEN Drop(r.groups, m.group)
                  ELSE [r.groups EXCEPT ![m.group].members = rest]
  <2>1. m.group \in DOMAIN r.groups /\ m.user \in ToSet(r.groups[m.group].members)
    BY <1>9 DEF Accepts, IsMember
  <2>2. GroupsOK(G)
    BY <1>5, <2>1, LeaveSound, DropGroup
  <2>3. Effect(r, m) = [r EXCEPT !.groups = G]
    BY <1>9 DEF Effect, Depart
  <2> HIDE DEF G
  <2> QED
    BY <1>3, <1>9, <2>2, <2>3 DEF Changed
<1>10. CASE m.op = "upload_file_data"
  <2>1. m.key \in Keys /\ m.seeders \in SUBSET Users
    BY <1>10, CommandFacts
  <2>2. FilesOK(Put(r.files, m.key, m.seeders))
    BY <1>5, <2>1, PutType DEF FilesOK
  <2>3. Effect(r, m) = [r EXCEPT !.files = Put(r.files, m.key, m.seeders)]
    BY <1>10 DEF Effect
  <2> QED
    BY <1>4, <1>10, <2>2, <2>3 DEF Changed
<1>11. CASE m.op = "update_file_info"
  <2> DEFINE x == r.files[m.key] \cup {m.user}
  <2>1. m.key \in DOMAIN r.files
    BY <1>11 DEF Accepts
  <2>2. x \in SUBSET Users
    BY <1>5, <2>1 DEF FilesOK, IsMap
  <2>3. FilesOK([r.files EXCEPT ![m.key] = x])
    BY <1>5, <2>1, <2>2, NewSeeders
  <2>4. Effect(r, m) = [r EXCEPT !.files = [r.files EXCEPT ![m.key] = x]]
    BY <1>11 DEF Effect
  <2> QED
    BY <1>4, <1>11, <2>3, <2>4 DEF Changed
<1>12. CASE m.op = "stop_share"
  <2> DEFINE x == r.files[m.key] \ {m.user}
             F == IF r.files[m.key] = {m.user} THEN Drop(r.files, m.key)
                  ELSE [r.files EXCEPT ![m.key] = x]
  <2>1. m.key \in DOMAIN r.files
    BY <1>12 DEF Accepts
  <2>2. x \in SUBSET Users
    BY <1>5, <2>1 DEF FilesOK, IsMap
  <2>3. FilesOK([r.files EXCEPT ![m.key] = x]) /\ FilesOK(Drop(r.files, m.key))
    BY <1>5, <2>1, <2>2, NewSeeders, DropType DEF FilesOK
  <2>4. Effect(r, m) = [r EXCEPT !.files = F]
    BY <1>12 DEF Effect, Withdraw
  <2> QED
    BY <1>4, <1>12, <2>3, <2>4 DEF Changed
<1> QED
  BY <1>1, <1>2, <1>6, <1>7, <1>8, <1>9, <1>10, <1>11, <1>12, CommandFacts

LEMMA ApplyFacts ==
    ASSUME NEW r, ReplicaOK(r), NEW m \in Commands
    PROVE  /\ ReplicaOK(Apply(r, m))
           /\ Apply(r, m).users = IF m.op = "create_user" /\ m.user \notin DOMAIN r.users
                                  THEN Put(r.users, m.user, m.password) ELSE r.users
<1>1. CASE Accepts(r, m)
  <2>1. Apply(r, m) = Effect(r, m)
    BY <1>1 DEF Apply
  <2>2. m.op = "create_user" => m.user \notin DOMAIN r.users
    BY <1>1 DEF Accepts
  <2> QED
    BY <1>1, <2>1, <2>2, EffectFacts
<1>2. CASE ~Accepts(r, m)
  BY <1>2 DEF Apply, Accepts
<1> QED
  BY <1>1, <1>2

-----------------------------------------------------------------------------
(***************************************************************************)
(* One tracker runs a command, whoever gave it.                            *)
(***************************************************************************)
\* Whom m makes known, if it is obeyed where he is not known yet.
Registers(m, u, w) == m.op = "create_user" /\ m.user = u /\ m.password = w

LEMMA PerformFacts ==
    ASSUME Inv, NEW t \in Trackers, NEW m \in Commands, Perform(t, m)
    PROVE  /\ ReplicasOK'
           /\ \A p \in Trackers, u \in Users :
                 /\ Knows(p, u) => Knows(p, u)' /\ replica'[p].users[u] = replica[p].users[u]
                 /\ Knows(p, u)' /\ ~Knows(p, u)
                       => p = t /\ Registers(m, u, replica'[p].users[u])
           /\ m.op = "create_user" => Knows(t, m.user)'
<1>1. replica = [p \in Trackers |-> replica[p]] /\ \A p \in Trackers : ReplicaOK(replica[p])
  BY DEF Inv, ReplicasOK
<1>2. replica' = [p \in Trackers |-> IF p = t THEN Apply(replica[t], m) ELSE replica[p]]
  BY <1>1 DEF Perform
<1>3. /\ ReplicaOK(Apply(replica[t], m))
      /\ Apply(replica[t], m).users =
            IF m.op = "create_user" /\ m.user \notin DOMAIN replica[t].users
            THEN Put(replica[t].users, m.user, m.password) ELSE replica[t].users
  BY <1>1, ApplyFacts
<1>4. ReplicasOK'
  BY <1>1, <1>2, <1>3 DEF ReplicasOK
<1>5. \A p \in Trackers :
         replica'[p].users =
            IF p = t /\ m.op = "create_user" /\ m.user \notin DOMAIN replica[t].users
            THEN Put(replica[t].users, m.user, m.password) ELSE replica[p].users
  BY <1>2, <1>3
<1>6. ASSUME NEW p \in Trackers, NEW u \in Users
      PROVE  /\ Knows(p, u) => Knows(p, u)' /\ replica'[p].users[u] = replica[p].users[u]
             /\ Knows(p, u)' /\ ~Knows(p, u)
                   => p = t /\ Registers(m, u, replica'[p].users[u])
  <2>1. CASE p = t /\ m.op = "create_user" /\ m.user \notin DOMAIN replica[t].users
    <3>1. replica'[p].users = Put(replica[p].users, m.user, m.password)
      BY <1>5, <2>1
    <3> QED
      BY <2>1, <3>1 DEF Knows, Put, Registers
  <2>2. CASE ~(p = t /\ m.op = "create_user" /\ m.user \notin DOMAIN replica[t].users)
    <3>1. replica'[p].users = replica[p].users
      BY <1>5, <2>2
    <3> QED
      BY <3>1 DEF Knows
  <2> QED
    BY <2>1, <2>2
<1>7. m.op = "create_user" => Knows(t, m.user)'
  BY <1>5 DEF Knows, Put
<1> QED
  BY <1>4, <1>6, <1>7

\* The types of what a tracker keeps are those of ReplicasOK.
LEMMA TypeParts ==
    ASSUME ReplicasOK',
           up' \subseteq Trackers,
           sessions' \in [Trackers -> SUBSET Users],
           uploads' \in [Trackers -> SUBSET Awaited],
           net' \subseteq Messages,
           issued' \in 0..MaxCommands,
           missed' \subseteq Trackers,
           registered' \subseteq Users \X Passwords
    PROVE  TypeOK'
<1>1. \A t \in Trackers :
         /\ IsMap(replica'[t].users, Users, Passwords)
         /\ replica'[t].logged_in \subseteq Users
         /\ IsMap(replica'[t].groups, Groups, [members : Seq(Users), pending : SUBSET Users])
         /\ IsMap(replica'[t].files, Keys, SUBSET Users)
  BY DEF ReplicasOK, ReplicaOK, GroupsOK, FilesOK, GroupRecords
<1> QED
  BY <1>1 DEF TypeOK

\* What the types say of the rest.
LEMMA TypeFacts ==
    ASSUME Inv
    PROVE  /\ up \subseteq Trackers
           /\ sessions \in [Trackers -> SUBSET Users]
           /\ uploads \in [Trackers -> SUBSET Awaited]
           /\ net \subseteq Messages
           /\ issued \in 0..MaxCommands
           /\ missed \subseteq Trackers
           /\ registered \subseteq Users \X Passwords
BY DEF Inv, TypeOK

LEMMA BreakType ==
    ASSUME Inv, NEW t \in Trackers, NEW x \in Awaited, Break(t, x)
    PROVE  uploads' \in [Trackers -> SUBSET Awaited]
<1>1. [x EXCEPT !.broken = TRUE] \in Awaited
  BY DEF Awaited
<1> QED
  BY <1>1, TypeFacts DEF Break

\* A command of a tracker's own client is performed and told to all others.
Announced(t, m) ==
    /\ Perform(t, m) /\ Broadcast(t, m)
    /\ UNCHANGED <<up, missed>>
    /\ registered' = registered \cup
          (IF m.op = "create_user" THEN {<<m.user, m.password>>} ELSE {})

LEMMA AnnouncedInv ==
    ASSUME Inv, NEW t \in Trackers, NEW m \in Commands, Announced(t, m),
           sessions' \in [Trackers -> SUBSET Users],
           uploads' \in [Trackers -> SUBSET Awaited]
    PROVE  Inv'
<1> DEFINE msg(p) == [from |-> t, to |-> p, id |-> issued, cmd |-> m]
<1>1. /\ issued \in 0..MaxCommands /\ net \subseteq Messages
      /\ up \subseteq Trackers /\ missed \subseteq Trackers
      /\ registered \subseteq Users \X Passwords
  BY TypeFacts
<1>2. /\ issued < MaxCommands /\ issued' = issued + 1
      /\ net' = net \cup {msg(p) : p \in Trackers \ {t}}
      /\ UNCHANGED <<up, missed>>
  BY DEF Announced, Broadcast, Issue
<1>3. \A p \in Trackers : msg(p) \in Messages /\ msg(p).to = p /\ msg(p).cmd = m
  BY <1>1 DEF Messages
<1> HIDE DEF msg
<1>4. issued' \in 0..MaxCommands /\ net' \subseteq Messages
  BY <1>1, <1>2, <1>3, SyncAssumption
<1>5. /\ ReplicasOK'
      /\ \A p \in Trackers, u \in Users :
            /\ Knows(p, u) => Knows(p, u)' /\ replica'[p].users[u] = replica[p].users[u]
            /\ Knows(p, u)' /\ ~Knows(p, u)
                  => p = t /\ Registers(m, u, replica'[p].users[u])
      /\ m.op = "create_user" => Knows(t, m.user)'
  BY PerformFacts DEF Announced
<1>6. registered' = registered \cup
         (IF m.op = "create_user" THEN {<<m.user, m.password>>} ELSE {})
  BY DEF Announced
<1>7. registered' \subseteq Users \X Passwords
  BY <1>1, <1>6, CommandFacts
<1>8. TypeOK'
  BY <1>1, <1>2, <1>4, <1>5, <1>7, TypeParts
<1>9. Spread'
  <2>1. \A p \in Trackers, u \in Users : Coming(p, u) => Coming(p, u)'
    BY <1>2 DEF Coming
  <2>2. \A p \in Trackers, u \in Users :
           Coming(p, u)' => Coming(p, u) \/ (m.op = "create_user" /\ u = m.user)
    BY <1>2, <1>3 DEF Coming
  <2>3. m.op = "create_user" =>
           \A p \in Trackers : Knows(p, m.user)' \/ Coming(p, m.user)'
    <3> SUFFICES ASSUME m.op = "create_user", NEW p \in Trackers \ {t}
                 PROVE  Coming(p, m.user)'
      BY <1>5
    <3>1. msg(p) \in net' /\ msg(p).to = p /\ msg(p).cmd = m
      BY <1>2, <1>3
    <3> QED
      BY <3>1 DEF Coming
  <2>4. Spread
    BY DEF Inv
  <2> QED
    BY <1>2, <1>5, <2>1, <2>2, <2>3, <2>4 DEF Spread, Registers
<1>10. Registered'
  <2>1. Registered
    BY DEF Inv
  <2>2. \A p \in Trackers, u \in Users :
           Knows(p, u)' => <<u, replica'[p].users[u]>> \in registered'
    BY <1>5, <1>6, <2>1 DEF Registered, Registers
  <2>3. \A x \in net' : x.cmd.op = "create_user"
                           => <<x.cmd.user, x.cmd.password>> \in registered'
    BY <1>2, <1>3, <1>6, <2>1 DEF Registered
  <2> QED
    BY <2>2, <2>3 DEF Registered
<1> QED
  BY <1>5, <1>8, <1>9, <1>10 DEF Inv

-----------------------------------------------------------------------------
(***************************************************************************)
(* The other steps.                                                        *)
(***************************************************************************)
\* Uploads that begin or are dropped, restarts and stuttering.
LEMMA LocalInv ==
    ASSUME Inv, UNCHANGED <<replica, net, missed, registered>>,
           issued' \in 0..MaxCommands, up' \subseteq Trackers, sessions' \in [Trackers -> SUBSET Users],
           uploads' \in [Trackers -> SUBSET Awaited]
    PROVE  Inv'
<1>1. ReplicasOK' /\ Spread' /\ Registered'
  BY DEF Inv, ReplicasOK, Spread, Registered, Knows, Coming
<1>2. TypeOK'
  BY <1>1, TypeFacts, TypeParts
<1> QED
  BY <1>1, <1>2 DEF Inv

\* A command of whose effect no other tracker is told.
LEMMA SyncCommandInv ==
    ASSUME Inv, NEW t \in Trackers, SyncCommand(t)
    PROVE  Inv'
<1>1. PICK u \in sessions[t], m \in Commands :
         /\ Perform(t, m)
         /\ Issue
         /\ missed' = missed \cup (Trackers \ {t})
         /\ registered' = registered \cup
               (IF m.op = "create_user" THEN {<<m.user, m.password>>} ELSE {})
         /\ UNCHANGED <<up, sessions, uploads, net>>
  BY DEF SyncCommand
<1>2. /\ ReplicasOK'
      /\ \A p \in Trackers, v \in Users :
            /\ Knows(p, v) => Knows(p, v)' /\ replica'[p].users[v] = replica[p].users[v]
            /\ Knows(p, v)' /\ ~Knows(p, v)
                  => p = t /\ Registers(m, v, replica'[p].users[v])
      /\ m.op = "create_user" => Knows(t, m.user)'
  BY <1>1, PerformFacts
<1>3. TypeOK'
  <2>1. issued' \in 0..MaxCommands /\ missed' \subseteq Trackers
    BY <1>1, TypeFacts, SyncAssumption DEF Issue
  <2>2. registered' \subseteq Users \X Passwords
    BY <1>1, TypeFacts, CommandFacts
  <2> QED
    BY <1>1, <1>2, <2>1, <2>2, TypeFacts, TypeParts
<1>4. Spread'
  <2>1. \A p \in Trackers, v \in Users : Coming(p, v)' <=> Coming(p, v)
    BY <1>1 DEF Coming
  <2> QED
    BY <1>1, <1>2, <2>1 DEF Inv, Spread, Registers
<1>5. Registered'
  BY <1>1, <1>2 DEF Inv, Registered, Registers
<1> QED
  BY <1>2, <1>3, <1>4, <1>5 DEF Inv

LEMMA UnnamedUploadPerforms ==
    ASSUME Inv, NEW t \in Trackers, UnnamedUpload(t)
    PROVE  \E m \in Commands :
              m.op # "create_user" /\ Perform(t, m) /\ UNCHANGED registered
<1>1. PICK x \in uploads[t] :
         Perform(t, Upload(x.user, x.key, {})) /\ UNCHANGED registered
  BY DEF UnnamedUpload
<1>2. x.user \in Users /\ x.key \in Keys
  BY <1>1, TypeFacts DEF Awaited
<1>3. Upload(x.user, x.key, {}) \in Commands /\ Upload(x.user, x.key, {}).op # "create_user"
  BY <1>2, UploadFacts
<1> QED
  BY <1>1, <1>3

\* An upload whose broadcast no other tracker can make anything of.
LEMMA UnnamedUploadInv ==
    ASSUME Inv, NEW t \in Trackers, UnnamedUpload(t)
    PROVE  Inv'
<1>1. PICK x \in uploads[t] :
         /\ Perform(t, Upload(x.user, x.key, {})) /\ Issue /\ Break(t, x)
         /\ UNCHANGED <<up, sessions, net, missed, registered>>
  BY DEF UnnamedUpload
<1> DEFINE m == Upload(x.user, x.key, {})
<1>2. x \in Awaited /\ m \in Commands /\ m.op # "create_user"
  BY <1>1, TypeFacts, UploadFacts DEF Awaited
<1>3. Perform(t, m)
  BY <1>1
<1> HIDE DEF m
<1>4. /\ ReplicasOK'
      /\ \A p \in Trackers, v \in Users :
            /\ Knows(p, v) => Knows(p, v)' /\ replica'[p].users[v] = replica[p].users[v]
            /\ Knows(p, v)' => Knows(p, v)
  BY <1>2, <1>3, PerformFacts DEF Registers
<1>5. TypeOK'
  <2>1. issued' \in 0..MaxCommands
    BY <1>1, TypeFacts, SyncAssumption DEF Issue
  <2>2. uploads' \in [Trackers -> SUBSET Awaited]
    BY <1>1, <1>2, BreakType
  <2> QED
    BY <1>1, <1>4, <2>1, <2>2, TypeFacts, TypeParts
<1>6. Spread'
  <2>1. \A p \in Trackers, v \in Users : Coming(p, v)' <=> Coming(p, v)
    BY <1>1 DEF Coming
  <2> QED
    BY <1>1, <1>4, <2>1 DEF Inv, Spread
<1>7. Registered'
  BY <1>1, <1>4 DEF Inv, Registered
<1> QED
  BY <1>4, <1>5, <1>6, <1>7 DEF Inv

LEMMA DeliverInv ==
    ASSUME Inv, NEW m \in net, Deliver(m)
    PROVE  Inv'
<1>1. /\ m.to \in Trackers /\ m.cmd \in Commands /\ Perform(m.to, m.cmd)
      /\ net' = net \ {m}
      /\ UNCHANGED <<up, sessions, uploads, issued, missed, registered>>
  BY TypeFacts DEF Deliver, Messages
<1>2. /\ ReplicasOK'
      /\ \A p \in Trackers, u \in Users :
            /\ Knows(p, u) => Knows(p, u)' /\ replica'[p].users[u] = replica[p].users[u]
            /\ Knows(p, u)' /\ ~Knows(p, u)
                  => p = m.to /\ Registers(m.cmd, u, replica'[p].users[u])
      /\ m.cmd.op = "create_user" => Knows(m.to, m.cmd.user)'
  BY <1>1, PerformFacts
<1>3. TypeOK'
  BY <1>1, <1>2, TypeFacts, TypeParts
<1>4. Spread'
  <2>1. \A p \in Trackers, u \in Users : Coming(p, u)' => Coming(p, u)
    BY <1>1 DEF Coming
  <2>2. \A p \in Trackers, u \in Users : Coming(p, u) => Coming(p, u)' \/ Knows(p, u)'
    BY <1>1, <1>2 DEF Coming
  <2>3. \A p \in Trackers, u \in Users :
           Knows(p, u)' => Knows(p, u) \/ Coming(p, u)
    BY <1>2 DEF Coming, Registers
  <2> QED
    BY <1>1, <1>2, <2>1, <2>2, <2>3 DEF Inv, Spread
<1>5. Registered'
  BY <1>1, <1>2 DEF Inv, Registered, Registers
<1> QED
  BY <1>2, <1>3, <1>4, <1>5 DEF Inv

LEMMA LoseInv ==
    ASSUME Inv, NEW m \in net, Lose(m)
    PROVE  Inv'
<1>1. /\ m.to \in Trackers /\ net' = net \ {m} /\ missed' = missed \cup {m.to}
      /\ UNCHANGED <<up, replica, sessions, uploads, issued, registered>>
  BY TypeFacts DEF Lose, Messages
<1>2. ReplicasOK' /\ Registered'
  BY <1>1 DEF Inv, ReplicasOK, Registered, Knows
<1>3. TypeOK'
  BY <1>1, <1>2, TypeFacts, TypeParts
<1>4. Spread'
  <2>1. \A p \in Trackers, u \in Users :
           /\ Knows(p, u)' <=> Knows(p, u)
           /\ Coming(p, u)' => Coming(p, u)
           /\ Coming(p, u) => Coming(p, u)' \/ p = m.to
    BY <1>1 DEF Knows, Coming
  <2> QED
    BY <1>1, <2>1 DEF Inv, Spread
<1> QED
  BY <1>2, <1>3, <1>4 DEF Inv

LEMMA FreshOK == ReplicaOK(Fresh) /\ DOMAIN Fresh.users = {}
<1>1. /\ IsMap(EmptyMap, Users, Passwords)
      /\ GroupsOK(EmptyMap) /\ FilesOK(EmptyMap) /\ DOMAIN EmptyMap = {}
  BY DEF EmptyMap, IsMap, GroupsOK, FilesOK
<1> QED
  BY <1>1 DEF Fresh, ReplicaOK

LEMMA CrashInv ==
    ASSUME Inv, NEW t \in Trackers, Crash(t)
    PROVE  Inv'
<1>1. /\ t \in up /\ up' = up \ {t}
      /\ replica' = [replica EXCEPT ![t] = Fresh]
      /\ sessions' = [sessions EXCEPT ![t] = {}]
      /\ uploads' = [uploads EXCEPT ![t] = {}]
      /\ net' = {m \in net : m.from # t}
      /\ missed' = missed \cup {t} \cup {m.to : m \in net \ net'}
      /\ UNCHANGED <<issued, registered>>
  BY DEF Crash
<1>2. replica' = [p \in Trackers |-> IF p = t THEN Fresh ELSE replica[p]]
  BY <1>1 DEF Inv, ReplicasOK
<1>3. ReplicasOK'
  BY <1>2, FreshOK DEF Inv, ReplicasOK
<1>4. \A p \in Trackers, u \in Users :
         Knows(p, u)' <=> p # t /\ Knows(p, u)
  BY <1>2, FreshOK DEF Knows
<1>5. TypeOK'
  <2>1. net' \subseteq Messages /\ missed' \subseteq Trackers /\ up' \subseteq Trackers
    BY <1>1, TypeFacts DEF Messages
  <2>2. /\ sessions' \in [Trackers -> SUBSET Users]
        /\ uploads' \in [Trackers -> SUBSET Awaited]
    BY <1>1, TypeFacts
  <2> QED
    BY <1>1, <1>3, <2>1, <2>2, TypeFacts, TypeParts
<1>6. Spread'
  <2>1. \A p \in Trackers, u \in Users :
           /\ Coming(p, u)' => Coming(p, u)
           /\ Coming(p, u) => Coming(p, u)' \/ p \in missed'
    BY <1>1 DEF Coming
  <2> QED
    BY <1>1, <1>4, <2>1 DEF Inv, Spread
<1>7. Registered'
  BY <1>1, <1>2, <1>4 DEF Inv, Registered
<1> QED
  BY <1>3, <1>5, <1>6, <1>7 DEF Inv

\* A step announces a command of a tracker's own client ...
LEMMA ClientStep ==
    ASSUME Inv, NEW t \in Trackers,
           \/ CreateUser(t) \/ Login(t) \/ Logout(t) \/ Disconnect(t) \/ Command(t)
           \/ FinishUpload(t) \/ CutOffUpload(t)
    PROVE  /\ \E m \in Commands : Announced(t, m)
           /\ sessions' \in [Trackers -> SUBSET Users]
           /\ uploads' \in [Trackers -> SUBSET Awaited]
<1>1. /\ sessions \in [Trackers -> SUBSET Users]
      /\ uploads \in [Trackers -> SUBSET Awaited]
  BY TypeFacts
<1>2. CASE CreateUser(t)
  <2>1. PICK u \in Users, p \in Passwords :
           LET m == [op |-> "create_user", user |-> u, password |-> p]
           IN  /\ Perform(t, m) /\ Broadcast(t, m)
               /\ registered' = registered \cup {<<u, p>>}
               /\ UNCHANGED <<up, sessions, uploads, missed>>
    BY <1>2 DEF CreateUser
  <2> DEFINE m == [op |-> "create_user", user |-> u, password |-> p]
  <2>2. m \in Commands /\ m.op = "create_user" /\ m.user = u /\ m.password = p
    BY DEF Commands, UserCommands
  <2>3. Perform(t, m) /\ Broadcast(t, m)
    BY <2>1
  <2> HIDE DEF m
  <2> QED
    BY <1>1, <2>1, <2>2, <2>3 DEF Announced
<1>3. ASSUME NEW m \in Commands, m.op # "create_user", Perform(t, m), Broadcast(t, m),
             UNCHANGED <<up, missed, registered>>
      PROVE  \E c \in Commands : Announced(t, c)
  BY <1>3 DEF Announced
<1>4. CASE Login(t)
  <2>1. PICK u \in Users, p \in Passwords :
           LET m == [op |-> "login", user |-> u, password |-> p]
           IN  /\ Perform(t, m) /\ Broadcast(t, m)
               /\ sessions' = [sessions EXCEPT ![t] = @ \cup {u}]
               /\ UNCHANGED <<up, uploads, missed, registered>>
    BY <1>4 DEF Login
  <2> DEFINE m == [op |-> "login", user |-> u, password |-> p]
  <2>2. m \in Commands /\ m.op = "login"
    BY DEF Commands, UserCommands
  <2>3. Perform(t, m) /\ Broadcast(t, m)
    BY <2>1
  <2> HIDE DEF m
  <2> QED
    BY <1>1, <1>3, <2>1, <2>2, <2>3
<1>5. CASE Logout(t) \/ Disconnect(t)
  <2>1. PICK u \in Users :
           LET m == [op |-> "logout", user |-> u]
           IN  /\ Perform(t, m) /\ Broadcast(t, m)
               /\ UNCHANGED <<up, missed, registered>>
    BY <1>1, <1>5 DEF Logout, Disconnect
  <2> DEFINE m == [op |-> "logout", user |-> u]
  <2>2. m \in Commands /\ m.op = "logout"
    BY DEF Commands, UserCommands
  <2>3. Perform(t, m) /\ Broadcast(t, m)
    BY <2>1
  <2> HIDE DEF m
  <2>4. /\ sessions' \in [Trackers -> SUBSET Users]
        /\ uploads' \in [Trackers -> SUBSET Awaited]
    BY <1>1, <1>5 DEF Logout, Disconnect
  <2> QED
    BY <1>3, <2>1, <2>2, <2>3, <2>4
<1>6. CASE Command(t)
  <2>1. PICK m \in GroupCommands \cup FileCommands :
           /\ Perform(t, m) /\ Broadcast(t, m)
           /\ UNCHANGED <<up, sessions, uploads, missed, registered>>
    BY <1>6 DEF Command
  <2>2. m \in Commands /\ m.op # "create_user"
    BY DEF Commands, GroupCommands, FileCommands
  <2> QED
    BY <1>1, <1>3, <2>1, <2>2
<1>7. CASE FinishUpload(t)
  <2>1. PICK x \in uploads[t] :
           LET m == Upload(x.user, x.key, {x.user})
           IN  /\ Perform(t, m) /\ Broadcast(t, m)
               /\ uploads' = [uploads EXCEPT ![t] = @ \ {x}]
               /\ UNCHANGED <<up, sessions, missed, registered>>
    BY <1>7 DEF FinishUpload
  <2> DEFINE m == Upload(x.user, x.key, {x.user})
  <2>2. m \in Commands /\ m.op # "create_user"
    BY <1>1, <2>1, UploadFacts DEF Awaited
  <2>3. Perform(t, m) /\ Broadcast(t, m)
    BY <2>1
  <2> HIDE DEF m
  <2> QED
    BY <1>1, <1>3, <2>1, <2>2, <2>3
<1>8. CASE CutOffUpload(t)
  <2>1. PICK x \in uploads[t], seeders \in SUBSET Users :
           LET m == Upload(x.user, x.key, seeders)
           IN  /\ m \in Uploads
               /\ Perform(t, m) /\ Broadcast(t, m) /\ Break(t, x)
               /\ UNCHANGED <<up, sessions, missed, registered>>
    BY <1>8 DEF CutOffUpload
  <2> DEFINE m == Upload(x.user, x.key, seeders)
  <2>2. m \in Commands /\ m.op # "create_user"
    BY <2>1 DEF Commands, Upload
  <2>3. Perform(t, m) /\ Broadcast(t, m)
    BY <2>1
  <2>4. uploads' \in [Trackers -> SUBSET Awaited]
    BY <1>1, <2>1, BreakType
  <2> HIDE DEF m
  <2> QED
    BY <1>1, <1>3, <2>1, <2>2, <2>3, <2>4
<1> QED
  BY <1>2, <1>4, <1>5, <1>6, <1>7, <1>8

\* ... or leaves the trackers' states and the messages alone ...
LEMMA LocalStep ==
    ASSUME Inv, NEW t \in Trackers, BeginUpload(t) \/ DropUpload(t) \/ Restart(t)
    PROVE  /\ UNCHANGED <<replica, net, missed, registered>>
           /\ issued' \in 0..MaxCommands
           /\ up' \subseteq Trackers
           /\ sessions' \in [Trackers -> SUBSET Users]
           /\ uploads' \in [Trackers -> SUBSET Awaited]
<1>1. CASE BeginUpload(t)
  <2>1. PICK u \in Users, k \in Keys :
           /\ uploads' = [uploads EXCEPT ![t] = @ \cup
                             {[user |-> u, key |-> k, broken |-> FALSE]}]
           /\ Issue
           /\ UNCHANGED <<up, replica, sessions, net, missed, registered>>
    BY <1>1 DEF BeginUpload
  <2>2. [user |-> u, key |-> k, broken |-> FALSE] \in Awaited
    BY DEF Awaited
  <2>3. issued' \in 0..MaxCommands
    BY <2>1, TypeFacts, SyncAssumption DEF Issue
  <2> QED
    BY <2>1, <2>2, <2>3, TypeFacts
<1>2. CASE DropUpload(t)
  <2>1. PICK x \in uploads[t] :
           /\ Break(t, x)
           /\ UNCHANGED <<up, replica, sessions, net, issued, missed, registered>>
    BY <1>2 DEF DropUpload
  <2>2. x \in Awaited
    BY <2>1, TypeFacts
  <2> QED
    BY <2>1, <2>2, BreakType, TypeFacts
<1>3. CASE Restart(t)
  BY <1>3, TypeFacts DEF Restart
<1> QED
  BY <1>1, <1>2, <1>3

-----------------------------------------------------------------------------
LEMMA InitInv == Init => Inv
<1> SUFFICES ASSUME Init
             PROVE  Inv
  OBVIOUS
<1>1. ReplicasOK /\ \A t \in Trackers, u \in Users : ~Knows(t, u)
  BY FreshOK DEF Init, ReplicasOK, Knows
<1>2. TypeOK
  <2>1. \A t \in Trackers :
           /\ IsMap(replica[t].users, Users, Passwords)
           /\ replica[t].logged_in \subseteq Users
           /\ IsMap(replica[t].groups, Groups, [members : Seq(Users),
                                                pending : SUBSET Users])
           /\ IsMap(replica[t].files, Keys, SUBSET Users)
    BY <1>1 DEF ReplicasOK, ReplicaOK, GroupsOK, FilesOK, GroupRecords
  <2>2. /\ up \subseteq Trackers /\ net \subseteq Messages /\ missed \subseteq Trackers
        /\ sessions \in [Trackers -> SUBSET Users]
        /\ uploads \in [Trackers -> SUBSET Awaited]
        /\ issued \in 0..MaxCommands /\ registered \subseteq Users \X Passwords
    BY SyncAssumption DEF Init
  <2> QED
    BY <2>1, <2>2 DEF TypeOK
<1>3. Spread /\ Registered
  BY <1>1 DEF Init, Spread, Registered, Coming
<1> QED
  BY <1>1, <1>2, <1>3 DEF Inv

LEMMA NextInv ==
    ASSUME Inv, [Next]_vars
    PROVE  Inv'
<1>1. ASSUME NEW t \in Trackers,
             \/ CreateUser(t) \/ Login(t) \/ Logout(t) \/ Disconnect(t) \/ Command(t)
             \/ FinishUpload(t) \/ CutOffUpload(t)
      PROVE  Inv'
  BY <1>1, ClientStep, AnnouncedInv
<1>2. ASSUME NEW t \in Trackers, BeginUpload(t) \/ DropUpload(t) \/ Restart(t)
      PROVE  Inv'
  BY <1>2, LocalStep, LocalInv
<1>3. CASE UNCHANGED vars
  BY <1>3, TypeFacts, LocalInv DEF vars
<1> QED
  BY <1>1, <1>2, <1>3, SyncCommandInv, UnnamedUploadInv, CrashInv, DeliverInv, LoseInv
     DEF Next

\* The inductive invariant holds in every reachable state, whatever handle_client
\* receives and in whatever order.
THEOREM Invariant == Spec => []Inv
<1>1. Init => Inv
  BY InitInv
<1>2. Inv /\ [Next]_vars => Inv'
  BY NextInv
<1> QED
  BY <1>1, <1>2, PTL DEF Spec

\* In every reachable state the variables have their types.
THEOREM TypeCorrect == Spec => []TypeOK
<1>1. Inv => TypeOK
  BY DEF Inv
<1> QED
  BY <1>1, Invariant, PTL

\* A name known to one tracker is known to all, or on its way to those that
\* missed nothing.
THEOREM RegistrationsReachEverybody == Spec => []RegistrationsSpread
<1>1. Inv => RegistrationsSpread
  BY DEF Inv, Spread, RegistrationsSpread
<1> QED
  BY <1>1, Invariant, PTL

\* Where two trackers disagree about a password, clients registered both.
THEOREM ConflictsComeFromClients == Spec => []PasswordsDifferByConflict
<1>1. Inv => PasswordsDifferByConflict
  BY DEF Inv, Registered, PasswordsDifferByConflict
<1> QED
  BY <1>1, Invariant, PTL

\* Whatever order messages arrive in, and whichever are lost, every group has
\* distinct members, and applicants who are none of them.
THEOREM ReplicasAreSound == Spec => []ReplicasSound
<1>1. Inv => ReplicasSound
  BY DEF Inv, ReplicasOK, ReplicaOK, GroupsOK, GroupOK, ReplicasSound
<1> QED
  BY <1>1, Invariant, PTL

\* No message and no client changes the password a running tracker holds.
THEOREM PasswordsAreKept == Spec => PasswordsStay
<1>1. ASSUME Inv, [Next]_vars, NEW t \in up, NEW u \in Users, Knows(t, u), t \in up'
      PROVE  Knows(t, u)' /\ replica'[t].users[u] = replica[t].users[u]
  <2>1. t \in Trackers
    BY <1>1, TypeFacts
  <2>2. ASSUME NEW p \in Trackers, NEW m \in Commands, Perform(p, m)
        PROVE  Knows(t, u)' /\ replica'[t].users[u] = replica[t].users[u]
    BY <1>1, <2>1, <2>2, PerformFacts
  <2>3. CASE UNCHANGED replica
    BY <1>1, <2>3 DEF Knows
  <2>4. ASSUME NEW p \in Trackers,
               \/ CreateUser(p) \/ Login(p) \/ Logout(p) \/ Disconnect(p) \/ Command(p)
               \/ FinishUpload(p) \/ CutOffUpload(p)
        PROVE  \E m \in Commands : Perform(p, m)
    BY <1>1, <2>4, ClientStep DEF Announced
  <2>5. ASSUME NEW p \in Trackers, SyncCommand(p) \/ UnnamedUpload(p)
        PROVE  \E m \in Commands : Perform(p, m)
    <3>1. SyncCommand(p) => \E m \in Commands : Perform(p, m)
      BY DEF SyncCommand
    <3>2. ASSUME UnnamedUpload(p)
          PROVE  \E m \in Commands : Perform(p, m)
      BY <1>1, <3>2, UnnamedUploadPerforms
    <3> QED
      BY <2>5, <3>1, <3>2
  <2>6. ASSUME NEW m \in net, Deliver(m)
        PROVE  m.to \in Trackers /\ m.cmd \in Commands /\ Perform(m.to, m.cmd)
    BY <1>1, <2>6, TypeFacts DEF Deliver, Messages
  <2>7. ASSUME NEW p \in Trackers, Crash(p)
        PROVE  Knows(t, u)' /\ replica'[t].users[u] = replica[t].users[u]
    <3>1. t # p /\ replica' = [replica EXCEPT ![p] = Fresh]
      BY <1>1, <2>7 DEF Crash
    <3>2. replica'[t] = replica[t]
      BY <1>1, <2>1, <3>1 DEF Inv, ReplicasOK
    <3> QED
      BY <1>1, <3>2 DEF Knows
  <2>8. ASSUME NEW p \in Trackers, BeginUpload(p) \/ DropUpload(p) \/ Restart(p)
        PROVE  UNCHANGED replica
    BY <2>8 DEF BeginUpload, DropUpload, Restart
  <2>9. ASSUME NEW m \in net, Lose(m)
        PROVE  UNCHANGED replica
    BY <2>9 DEF Lose
  <2> QED
    BY <1>1, <2>2, <2>3, <2>4, <2>5, <2>6, <2>7, <2>8, <2>9 DEF Next, vars
<1>2. Inv /\ [Next]_vars
      => \A t \in up, u \in Users :
            Knows(t, u) /\ t \in up' =>
               Knows(t, u)' /\ replica'[t].users[u] = replica[t].users[u]
  BY <1>1
<1> QED
  BY <1>2, Invariant, PTL DEF Spec, PasswordsStay

-----------------------------------------------------------------------------
(***************************************************************************)
(* TrackerSync implements AccountGossip.  A create_user opens an account   *)
(* or repeats one that is there; a delivered one teaches an account that   *)
(* Registered says a client opened; a crash forgets the book; everything   *)
(* else leaves the accounts alone.                                         *)
(***************************************************************************)
LEMMA BookFacts ==
    ASSUME NEW t \in Trackers
    PROVE  Book[t] = replica[t].users
BY DEF Book

\* A command run at t enters one account there, or none.
LEMMA PerformGossip ==
    ASSUME Inv, NEW t \in Trackers, NEW m \in Commands, Perform(t, m)
    PROVE  IF m.op = "create_user" /\ m.user \notin DOMAIN replica[t].users
           THEN Gossip!Enter(t, m.user, m.password)
           ELSE Book' = Book
<1>1. /\ replica = [p \in Trackers |-> replica[p]]
      /\ \A p \in Trackers : ReplicaOK(replica[p])
  BY DEF Inv, ReplicasOK
<1>2. replica' = [p \in Trackers |-> IF p = t THEN Apply(replica[t], m) ELSE replica[p]]
  BY <1>1 DEF Perform
<1>3. Apply(replica[t], m).users =
         IF m.op = "create_user" /\ m.user \notin DOMAIN replica[t].users
         THEN Put(replica[t].users, m.user, m.password) ELSE replica[t].users
  BY <1>1, ApplyFacts
<1>4. CASE m.op = "create_user" /\ m.user \notin DOMAIN replica[t].users
  <2>1. \A p \in Trackers :
           replica'[p].users = IF p = t THEN Put(replica[t].users, m.user, m.password)
                                        ELSE replica[p].users
    BY <1>2, <1>3, <1>4
  <2>2. Book' = [Book EXCEPT ![t] = Put(Book[t], m.user, m.password)]
    BY <2>1 DEF Book
  <2> QED
    BY <1>4, <2>2, BookFacts DEF Gossip!Enter, Gossip!Put, Put
<1>5. CASE ~(m.op = "create_user" /\ m.user \notin DOMAIN replica[t].users)
  <2>1. \A p \in Trackers : replica'[p].users = replica[p].users
    BY <1>2, <1>3, <1>5
  <2>2. Book' = Book
    BY <2>1 DEF Book
  <2> QED
    BY <1>5, <2>2
<1> QED
  BY <1>4, <1>5

\* Whoever gave the command, it was a client who opened the account.
LEMMA OpenedOrLearnt ==
    ASSUME Inv, NEW t \in Trackers, NEW m \in Commands, Perform(t, m),
           \/ /\ m.op = "create_user" => <<m.user, m.password>> \in registered
              /\ UNCHANGED registered
           \/ /\ m.op = "create_user" /\ Accepts(replica[t], m)
              /\ registered' = registered \cup {<<m.user, m.password>>}
    PROVE  Gossip!Next \/ UNCHANGED <<Book, registered>>
<1>1. CASE m.op = "create_user" /\ m.user \notin DOMAIN replica[t].users
  <2>1. m.user \in Users /\ m.password \in Passwords
    BY <1>1, CommandFacts
  <2>2. Gossip!Enter(t, m.user, m.password)
    BY <1>1, PerformGossip
  <2>3. \/ Gossip!Learn(t, m.user, m.password)
        \/ Gossip!OpenAccount(t, m.user, m.password)
    BY <1>1, <2>2 DEF Gossip!Learn, Gossip!OpenAccount
  <2> QED
    BY <2>1, <2>3 DEF Gossip!Next
<1>2. CASE ~(m.op = "create_user" /\ m.user \notin DOMAIN replica[t].users)
  <2>1. UNCHANGED registered
    BY <1>2 DEF Accepts
  <2> QED
    BY <1>2, <2>1, PerformGossip
<1> QED
  BY <1>1, <1>2

LEMMA GossipStep ==
    ASSUME Inv, [Next]_vars
    PROVE  Gossip!Next \/ UNCHANGED <<Book, registered>>
<1> DEFINE Goal == Gossip!Next \/ UNCHANGED <<Book, registered>>
<1>1. ASSUME NEW t \in Trackers, CreateUser(t)
      PROVE  Goal
  <2>1. PICK u \in Users, p \in Passwords :
           LET m == [op |-> "create_user", user |-> u, password |-> p]
           IN  /\ Accepts(replica[t], m) /\ Perform(t, m)
               /\ registered' = registered \cup {<<u, p>>}
    BY <1>1 DEF CreateUser
  <2> DEFINE m == [op |-> "create_user", user |-> u, password |-> p]
  <2>2. m \in Commands /\ m.op = "create_user" /\ m.user = u /\ m.password = p
    BY DEF Commands, UserCommands
  <2>3. Accepts(replica[t], m) /\ Perform(t, m)
    BY <2>1
  <2> HIDE DEF m
  <2> QED
    BY <2>1, <2>2, <2>3, OpenedOrLearnt
<1>2. ASSUME NEW t \in Trackers, NEW m \in Commands, Perform(t, m),
             m.op # "create_user", UNCHANGED registered
      PROVE  Goal
  BY <1>2, OpenedOrLearnt
<1>3. ASSUME NEW t \in Trackers, Login(t)
      PROVE  Goal
  <2>1. PICK u \in Users, p \in Passwords :
           /\ Perform(t, [op |-> "login", user |-> u, password |-> p])
           /\ UNCHANGED registered
    BY <1>3 DEF Login
  <2>2. [op |-> "login", user |-> u, password |-> p] \in Commands
    BY DEF Commands, UserCommands
  <2> QED
    BY <1>2, <2>1, <2>2
<1>4. ASSUME NEW t \in Trackers, Logout(t) \/ Disconnect(t)
      PROVE  Goal
  <2>1. \A u \in sessions[t] : u \in Users
    BY TypeFacts
  <2>2. PICK u \in Users :
           Perform(t, [op |-> "logout", user |-> u]) /\ UNCHANGED registered
    BY <1>4, <2>1 DEF Logout, Disconnect
  <2>3. [op |-> "logout", user |-> u] \in Commands
    BY DEF Commands, UserCommands
  <2> QED
    BY <1>2, <2>2, <2>3
<1>5. ASSUME NEW t \in Trackers, Command(t)
      PROVE  Goal
  <2>1. PICK m \in GroupCommands \cup FileCommands :
           Perform(t, m) /\ UNCHANGED registered
    BY <1>5 DEF Command
  <2>2. m \in Commands /\ m.op # "create_user"
    BY DEF Commands, GroupCommands, FileCommands
  <2> QED
    BY <1>2, <2>1, <2>2
<1>6. ASSUME NEW t \in Trackers,
             FinishUpload(t) \/ CutOffUpload(t) \/ UnnamedUpload(t)
      PROVE  Goal
  <2>1. CASE FinishUpload(t)
    <3>1. PICK x \in uploads[t] :
             Perform(t, Upload(x.user, x.key, {x.user})) /\ UNCHANGED registered
      BY <2>1 DEF FinishUpload
    <3>2. x.user \in Users /\ x.key \in Keys
      BY <3>1, TypeFacts DEF Awaited
    <3> QED
      BY <1>2, <3>1, <3>2, UploadFacts
  <2>2. CASE CutOffUpload(t)
    <3>1. PICK x \in uploads[t], seeders \in SUBSET Users :
             /\ Upload(x.user, x.key, seeders) \in Uploads
             /\ Perform(t, Upload(x.user, x.key, seeders)) /\ UNCHANGED registered
      BY <2>2 DEF CutOffUpload
    <3>2. /\ Upload(x.user, x.key, seeders) \in Commands
          /\ Upload(x.user, x.key, seeders).op # "create_user"
      BY <3>1 DEF Commands, Upload
    <3> QED
      BY <1>2, <3>1, <3>2
  <2>3. CASE UnnamedUpload(t)
    BY <1>2, <2>3, UnnamedUploadPerforms
  <2> QED
    BY <1>6, <2>1, <2>2, <2>3
<1>7. ASSUME NEW t \in Trackers, SyncCommand(t)
      PROVE  Goal
  <2>1. PICK m \in Commands :
           /\ Accepts(replica[t], m) /\ Perform(t, m)
           /\ registered' = registered \cup
                 (IF m.op = "create_user" THEN {<<m.user, m.password>>} ELSE {})
    BY <1>7 DEF SyncCommand
  <2>2. CASE m.op = "create_user"
    BY <2>1, <2>2, OpenedOrLearnt
  <2>3. CASE m.op # "create_user"
    BY <1>2, <2>1, <2>3
  <2> QED
    BY <2>2, <2>3
<1>8. ASSUME NEW m \in net, Deliver(m)
      PROVE  Goal
  <2>1. m.to \in Trackers /\ m.cmd \in Commands /\ Perform(m.to, m.cmd)
    BY <1>8, TypeFacts DEF Deliver, Messages
  <2>2. m.cmd.op = "create_user" => <<m.cmd.user, m.cmd.password>> \in registered
    BY DEF Inv, Registered
  <2>3. UNCHANGED registered
    BY <1>8 DEF Deliver
  <2> QED
    BY <2>1, <2>2, <2>3, OpenedOrLearnt
<1>9. ASSUME NEW t \in Trackers, Crash(t)
      PROVE  Gossip!Forget(t)
  <2>1. replica' = [p \in Trackers |-> IF p = t THEN Fresh ELSE replica[p]]
    BY <1>9 DEF Crash, Inv, ReplicasOK
  <2>2. Fresh.users = EmptyMap
    BY DEF Fresh
  <2>3. Book' = [Book EXCEPT ![t] = EmptyMap]
    BY <2>1, <2>2 DEF Book
  <2> QED
    BY <1>9, <2>3 DEF Crash, Gossip!Forget, EmptyMap, Gossip!EmptyMap
<1>10. ASSUME UNCHANGED <<replica, registered>>
       PROVE  Goal
  BY <1>10 DEF Book
<1>11. ASSUME NEW t \in Trackers, BeginUpload(t) \/ DropUpload(t) \/ Restart(t)
       PROVE  UNCHANGED <<replica, registered>>
  BY <1>11 DEF BeginUpload, DropUpload, Restart
<1>12. ASSUME NEW m \in net, Lose(m)
       PROVE  UNCHANGED <<replica, registered>>
  BY <1>12 DEF Lose
<1>13. UNCHANGED vars => UNCHANGED <<replica, registered>>
  BY DEF vars
<1>14. ASSUME NEW t \in Trackers, Crash(t)
       PROVE  Goal
  BY <1>9, <1>14 DEF Gossip!Next
<1> HIDE DEF Goal
<1>15. Goal
  BY <1>1, <1>3, <1>4, <1>5, <1>6, <1>7, <1>8, <1>10, <1>11, <1>12, <1>13, <1>14 DEF Next
<1> QED
  BY <1>15 DEF Goal

LEMMA GossipInit == Init => Gossip!Init
<1>1. Fresh.users = EmptyMap
  BY DEF Fresh
<1> QED
  BY <1>1 DEF Init, Book, Gossip!Init, EmptyMap, Gossip!EmptyMap

\* A tracker's accounts are all learnt from clients, its own or another's, and
\* kept as they were opened as long as the tracker runs.
THEOREM AccountsSpreadByGossip == Spec => AccountsAreGossip
<1>1. Inv /\ [Next]_vars => Gossip!Next \/ UNCHANGED <<Book, registered>>
  BY GossipStep
<1> QED
  BY <1>1, Invariant, PTL DEF Spec, AccountsAreGossip

\* TrackerSync implements AccountGossip.
THEOREM Refinement == Spec => Gossip!Spec
<1>1. Init => Gossip!Init
  BY GossipInit
<1>2. Inv /\ [Next]_vars => Gossip!Next \/ UNCHANGED <<Book, registered>>
  BY GossipStep
<1> QED
  BY <1>1, <1>2, Invariant, PTL DEF Spec, Gossip!Spec
=============================================================================
