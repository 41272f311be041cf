-------------------------- MODULE ClientLinkProofs --------------------------
(***************************************************************************)
(* Proofs about ClientLink, for any number of commands and of broken       *)
(* connections.  Liveness (AnsweredAlone) is left to TLC.                  *)
(*                                                                         *)
(* The invariants rest on what is under way while the client waits for     *)
(* the reply to a quiet command (InStep): nothing but that command, its    *)
(* metadata and its replies, and no "Login successful" from a session that *)
(* is still in login_loop.  That the two never wait for each other follows *)
(* from the stages such a command goes through (Exchange).                 *)
(***************************************************************************)
EXTENDS ClientLink, SequenceTheorems, TLAPS

\* What is under way while the reply to a quiet command is waited for.
InStep ==
    quiet /\ Waits("main") =>
        /\ thread = "none"
        /\ session # "hello"
        /\ \A i \in 1..Len(up) : up[i].turn = turn
        /\ \A i \in 1..Len(down) : down[i].turn = turn
        /\ main = "relogin" =>
              /\ \A i \in 1..Len(up) : up[i].kind = "login"
              /\ \A i \in 1..Len(down) : down[i].text # "logout"
        /\ \A i \in 1..Len(down) : down[i].text = "login" => session # "login"

\* A command that is begun can be followed by a logout and a login only, and one
\* that begins a download finds none.
TurnOK ==
    /\ main = "draining" => turn < MaxCommands
    /\ main \in {"sent", "asked"} => turn <= MaxCommands
    /\ main = "relogout" => turn <= MaxCommands + 1
    /\ main = "draining" /\ cmd = "download" => thread = "none"

Inv == TypeOK /\ TurnOK /\ InStep /\ BeliefHasSession

USE LinkAssumption DEF client, socket, history

-----------------------------------------------------------------------------
(***************************************************************************)
(* The byte streams.                                                       *)
(***************************************************************************)
Words == {"login", "create", "logout", "send", "length", "offer", "error", "text"}

LEMMA OneWord ==
    ASSUME NEW x \in Words
    PROVE  <<x>> \in Seq(Words) /\ \A j \in 1..Len(<<x>>) : <<x>>[j] = x
OBVIOUS

LEMMA TwoWords ==
    ASSUME NEW x \in Words, NEW y \in Words
    PROVE  /\ <<x, y>> \in Seq(Words)
           /\ \A j \in 1..Len(<<x, y>>) : <<x, y>>[j] = x \/ <<x, y>>[j] = y
<1>1. Len(<<x, y>>) = 2 /\ <<x, y>>[1] = x /\ <<x, y>>[2] = y
  OBVIOUS
<1> QED
  BY <1>1

LEMMA AfterFacts ==
    ASSUME NEW R, NEW s \in Seq(R), NEW n \in 0..Len(s)
    PROVE  /\ After(s, n) \in Seq(R)
           /\ Len(After(s, n)) = Len(s) - n
           /\ \A i \in 1..Len(After(s, n)) : i + n \in 1..Len(s) /\ After(s, n)[i] = s[i + n]
BY DEF After

LEMMA SentType ==
    ASSUME NEW k \in Commands \cup {"hello", "metadata", "ACK", "update"}, NEW n \in Nat
    PROVE  Sent(k, n) \in Ups /\ Sent(k, n).kind = k /\ Sent(k, n).turn = n
BY DEF Sent, Ups

LEMMA PushFacts ==
    ASSUME up \in Seq(Ups), NEW m \in Ups, Push(up, m)
    PROVE  /\ up' \in Seq(Ups)
           /\ \A i \in 1..Len(up') : up'[i] = m \/ (i \in 1..Len(up) /\ up'[i] = up[i])
           /\ up = <<>> => \A i \in 1..Len(up') : up'[i] = m
BY DEF Push

LEMMA AnswerFacts ==
    ASSUME down \in Seq(Downs), up \in Seq(Ups), up # <<>>,
           NEW a \in Seq(Words),
           Answer(a)
    PROVE  /\ down' \in Seq(Downs)
           /\ \A i \in 1..Len(down') :
                 \/ i \in 1..Len(down) /\ down'[i] = down[i]
                 \/ /\ down'[i].turn = up[1].turn
                    /\ \E j \in 1..Len(a) : down'[i].text = a[j]
<1> DEFINE b == [i \in 1..Len(a) |-> [text |-> a[i], turn |-> up[1].turn]]
<1>1. up[1].turn \in Nat
  <2>1. Len(up) \in Nat \ {0}
    BY EmptySeq
  <2>2. up[1] \in Ups
    BY <2>1, ElementOfSeq
  <2> QED
    BY <2>2 DEF Ups
<1>2. b \in Seq(Downs) /\ Len(b) = Len(a)
  BY <1>1 DEF Downs, Words
<1>3. down' = down \o b
  BY DEF Answer
<1> HIDE DEF b
<1>4. down' \in Seq(Downs) /\ Len(down') = Len(down) + Len(b)
  BY <1>2, <1>3, ConcatProperties
<1>5. ASSUME NEW i \in 1..Len(down'), i > Len(down)
      PROVE  down'[i] = b[i - Len(down)] /\ i - Len(down) \in 1..Len(a)
  BY <1>2, <1>3, <1>4, <1>5, ConcatProperties
<1>6. ASSUME NEW i \in 1..Len(down'), i <= Len(down)
      PROVE  down'[i] = down[i]
  BY <1>2, <1>3, <1>4, <1>6, ConcatProperties
<1>7. \A j \in 1..Len(a) : b[j].turn = up[1].turn /\ b[j].text = a[j]
  BY DEF b
<1>8. ASSUME NEW i \in 1..Len(down')
      PROVE  \/ i \in 1..Len(down) /\ down'[i] = down[i]
             \/ /\ down'[i].turn = up[1].turn
                /\ \E j \in 1..Len(a) : down'[i].text = a[j]
  <2>1. CASE i <= Len(down)
    BY <2>1, <1>6
  <2>2. CASE i > Len(down)
    BY <2>2, <1>5, <1>7
  <2> QED
    BY <2>1, <2>2
<1> QED
  BY <1>4, <1>8

\* A prefix of what was under way is taken.
LEMMA DownAfter ==
    ASSUME down \in Seq(Downs), NEW n \in 0..Len(down), down' = After(down, n)
    PROVE  /\ down' \in Seq(Downs)
           /\ \A i \in 1..Len(down') : \E j \in 1..Len(down) : down'[i] = down[j]
BY AfterFacts

LEMMA UpAfter ==
    ASSUME up \in Seq(Ups), NEW n \in 0..Len(up), up' = After(up, n)
    PROVE  /\ up' \in Seq(Ups)
           /\ \A i \in 1..Len(up') : \E j \in 1..Len(up) : up'[i] = up[j]
BY AfterFacts

\* InStep is kept when nothing is added to what is under way.
LEMMA InStepKept ==
    ASSUME Inv, main' = main, turn' = turn, quiet' = quiet,
           quiet /\ Waits("main") => thread' = "none",
           session' = session,
           \A i \in 1..Len(up') : \E j \in 1..Len(up) : up'[i] = up[j],
           \A i \in 1..Len(down') : \E j \in 1..Len(down) : down'[i] = down[j]
    PROVE  InStep'
BY DEF Inv, InStep, Waits

\* A client that does not wait, or whose latest command was not quiet.
LEMMA InStepIdle ==
    ASSUME ~quiet' \/ main' \notin {"sent", "relogout", "relogin"}
    PROVE  InStep'
BY DEF InStep, Waits

\* A new command, sent when nothing is under way if it is quiet.
LEMMA InStepSent ==
    ASSUME Inv, NEW k \in Commands, Push(up, Sent(k, turn + 1)),
           main' \in {"sent", "relogout", "relogin"}, turn' = turn + 1, turn \in Nat,
           main' = "relogin" => k = "login",
           down' \in Seq(Downs),
           quiet' = Quiet(down'), UNCHANGED <<thread, session>>
    PROVE  InStep'
<1> SUFFICES ASSUME Quiet(down')
             PROVE  InStep'
  BY DEF InStep
<1>1. up = <<>> /\ down' = <<>> /\ thread = "none" /\ session \in {"login", "while"}
  BY DEF Quiet
<1>2. Sent(k, turn + 1) \in Ups /\ Sent(k, turn + 1).kind = k
      /\ Sent(k, turn + 1).turn = turn + 1
  BY SentType
<1>3. \A i \in 1..Len(up') : up'[i] = Sent(k, turn + 1)
  BY <1>1, <1>2, PushFacts DEF Inv, TypeOK
<1>4. 1..Len(down') = {}
  BY <1>1
<1> QED
  BY <1>1, <1>2, <1>3, <1>4 DEF InStep

-----------------------------------------------------------------------------
(***************************************************************************)
(* The command loop.                                                       *)
(***************************************************************************)
LEMMA HandleCommandInv ==
    ASSUME Inv, NEW k \in Commands, HandleCommand(k)
    PROVE  Inv'
<1> USE DEF HandleCommand, BeginDrain
<1>1. TypeOK' /\ TurnOK'
  BY DEF Inv, TurnOK, TypeOK, Waits, Readers
<1>2. InStep'
  BY InStepIdle
<1>3. BeliefHasSession'
  BY DEF Inv, BeliefHasSession
<1> QED
  BY <1>1, <1>2, <1>3 DEF Inv

LEMMA StartDownloadInv ==
    ASSUME Inv, StartDownload
    PROVE  Inv'
<1> USE DEF StartDownload, EndDrain
<1>1. down' \in Seq(Downs)
  BY DownAfter DEF Discard, Inv, TypeOK
<1>2. TypeOK' /\ TurnOK'
  BY <1>1 DEF Inv, TurnOK, TypeOK, Waits, Readers
<1>3. InStep'
  BY InStepIdle
<1>4. BeliefHasSession'
  BY DEF Inv, BeliefHasSession
<1> QED
  BY <1>2, <1>3, <1>4 DEF Inv

LEMMA SendInv ==
    ASSUME Inv, Send
    PROVE  Inv'
<1> USE DEF Send, EndDrain
<1>1. down' \in Seq(Downs)
  BY DownAfter DEF Discard, Inv, TypeOK
<1>2. cmd \in Commands /\ turn \in Nat /\ up \in Seq(Ups)
  BY DEF Inv, TypeOK
<1>3. up' \in Seq(Ups)
  BY <1>2, PushFacts, SentType
<1>4. TypeOK' /\ TurnOK'
  BY <1>1, <1>3 DEF Inv, TurnOK, TypeOK, Waits, Readers, Quiet
<1>5. InStep'
  BY <1>1, <1>2, InStepSent DEF Inv
<1>6. BeliefHasSession'
  BY DEF Inv, BeliefHasSession
<1> QED
  BY <1>4, <1>5, <1>6 DEF Inv

\* A login that is believed was answered by a session that is past login_loop.
LEMMA ReceiveInv ==
    ASSUME Inv, Receive
    PROVE  Inv'
<1> USE DEF Receive, Returned
<1>1. down \in Seq(Downs) /\ Len(down) \in Nat
  BY DEF Inv, TypeOK
<1>2. down' \in Seq(Downs)
  BY <1>1, DownAfter
<1>3. TypeOK' /\ TurnOK'
  BY <1>2 DEF Inv, TurnOK, TypeOK, Waits, Readers
<1>4. InStep'
  BY InStepIdle
<1>5. ASSUME NEW n \in 1..Len(down), "login" \in Texts(n), quiet
      PROVE  session \in {"while", "metadata", "gone"}
  <2>1. PICK i \in 1..n : down[i].text = "login"
    BY <1>5 DEF Texts
  <2>2. i \in 1..Len(down)
    BY <1>1
  <2> QED
    BY <1>5, <2>1, <2>2 DEF Inv, TypeOK, InStep, Waits
<1>6. BeliefHasSession'
  <2>1. CASE UNCHANGED <<loggedIn, sure>>
    BY <2>1 DEF Inv, BeliefHasSession
  <2>2. CASE ~loggedIn' \/ ~sure'
    BY <2>2 DEF BeliefHasSession
  <2>3. CASE \E n \in 1..Len(down) : "login" \in Texts(n) /\ quiet
    BY <2>3, <1>5 DEF BeliefHasSession
  <2> QED
    BY <2>1, <2>2, <2>3
<1> QED
  BY <1>3, <1>4, <1>6 DEF Inv

LEMMA ReceiveUploadInv ==
    ASSUME Inv, ReceiveUpload
    PROVE  Inv'
<1> USE DEF ReceiveUpload, Returned
<1>1. down \in Seq(Downs) /\ up \in Seq(Ups) /\ turn \in Nat
  BY DEF Inv, TypeOK
<1>2. /\ down' \in Seq(Downs)
      /\ \A i \in 1..Len(down') : \E j \in 1..Len(down) : down'[i] = down[j]
  BY <1>1, DownAfter
<1>3. CASE main' = "idle" /\ UNCHANGED <<cmd, up>>
  <2>1. TypeOK' /\ TurnOK'
    BY <1>2, <1>3 DEF Inv, TurnOK, TypeOK, Waits, Readers
  <2>2. InStep' /\ BeliefHasSession'
    BY <1>3, InStepIdle DEF Inv, BeliefHasSession
  <2> QED
    BY <2>1, <2>2 DEF Inv
<1>4. CASE Push(up, Sent("metadata", turn)) /\ cmd' = "other" /\ UNCHANGED main
  <2>1. /\ Sent("metadata", turn) \in Ups
        /\ Sent("metadata", turn).turn = turn
    BY <1>1, SentType
  <2>2. /\ up' \in Seq(Ups)
        /\ \A i \in 1..Len(up') : \/ up'[i].turn = turn
                                  \/ i \in 1..Len(up) /\ up'[i] = up[i]
    BY <1>1, <1>4, <2>1, PushFacts
  <2>3. TypeOK' /\ TurnOK'
    BY <1>2, <1>4, <2>2 DEF Inv, TurnOK, TypeOK, Waits, Readers, Commands
  <2>4. InStep'
    BY <1>2, <1>4, <2>2 DEF Inv, InStep, Waits
  <2>5. BeliefHasSession'
    BY <1>4 DEF Inv, BeliefHasSession
  <2> QED
    BY <2>3, <2>4, <2>5 DEF Inv
<1> QED
  BY <1>3, <1>4

LEMMA ResetTrackerInv ==
    ASSUME Inv, ResetTracker
    PROVE  Inv'
<1> USE DEF ResetTracker
<1>1. up' \in Seq(Ups) /\ down' \in Seq(Downs)
  <2>1. Sent("hello", 0) \in Ups
    BY SentType
  <2>2. up' = <<Sent("hello", 0)>> \/ up' = <<>>
    OBVIOUS
  <2>3. down' = <<>>
    OBVIOUS
  <2>4. <<Sent("hello", 0)>> \in Seq(Ups)
    BY <2>1
  <2> QED
    BY <2>2, <2>3, <2>4, EmptySeq
<1>2. thread' \in {"none", "start", "clearing", "asking", "length", "data", "work",
                   "sweeping", "swept", "updated", "last"}
  BY DEF OnNewLink, Inv, TypeOK
<1>3. TypeOK' /\ TurnOK'
  BY <1>1, <1>2 DEF Inv, TurnOK, TypeOK, Waits, Readers
<1>4. InStep'
  BY InStepIdle
<1>5. BeliefHasSession'
  BY DEF Inv, BeliefHasSession
<1> QED
  BY <1>3, <1>4, <1>5 DEF Inv

LEMMA SkipLoginInv ==
    ASSUME Inv, SkipLogin
    PROVE  Inv'
<1> USE DEF SkipLogin
<1>1. TypeOK' /\ TurnOK'
  BY DEF Inv, TurnOK, TypeOK, Waits, Readers
<1>2. InStep' /\ BeliefHasSession'
  BY InStepIdle DEF BeliefHasSession
<1> QED
  BY <1>1, <1>2 DEF Inv

LEMMA SendLogoutInv ==
    ASSUME Inv, SendLogout
    PROVE  Inv'
<1> USE DEF SendLogout
<1>1. turn \in Nat /\ up \in Seq(Ups) /\ down' \in Seq(Downs) /\ "logout" \in Commands
  BY DEF Inv, TypeOK, Commands
<1>2. up' \in Seq(Ups)
  BY <1>1, PushFacts, SentType
<1>3. TypeOK' /\ TurnOK'
  BY <1>1, <1>2 DEF Inv, TurnOK, TypeOK, Waits, Readers, Quiet
<1>4. InStep'
  BY <1>1, InStepSent
<1>5. BeliefHasSession'
  BY DEF Inv, BeliefHasSession
<1> QED
  BY <1>3, <1>4, <1>5 DEF Inv

LEMMA SendLoginInv ==
    ASSUME Inv, SendLogin
    PROVE  Inv'
<1> USE DEF SendLogin, Returned
<1>1. turn \in Nat /\ up \in Seq(Ups) /\ down \in Seq(Downs) /\ "login" \in Commands
  BY DEF Inv, TypeOK, Commands
<1>2. down' \in Seq(Downs)
  BY <1>1, DownAfter
<1>3. up' \in Seq(Ups)
  BY <1>1, PushFacts, SentType
<1>4. TypeOK' /\ TurnOK'
  <2>1. quiet' \in BOOLEAN
    BY DEF Quiet
  <2>2. /\ turn' = turn + 1 /\ main' = "relogin" /\ loggedIn' = FALSE
        /\ blocked' = blocked \ {"main"}
        /\ UNCHANGED <<cmd, thread, session, nonblock, saved, breaks, sure>>
        /\ main = "relogout"
    OBVIOUS
  <2> HIDE DEF SendLogin
  <2>3. turn' \in 0..(MaxCommands + 2) /\ TurnOK'
    BY <2>2 DEF Inv, TurnOK, TypeOK
  <2>4. \A a \in blocked' : Waits(a)'
    BY <2>2 DEF Inv, TypeOK, Waits, Readers
  <2> QED
    BY <1>2, <1>3, <2>1, <2>2, <2>3, <2>4 DEF Inv, TypeOK
<1>5. InStep'
  BY <1>1, <1>2, InStepSent
<1>6. BeliefHasSession'
  BY DEF BeliefHasSession
<1> QED
  BY <1>4, <1>5, <1>6 DEF Inv

LEMMA ReceiveLoginInv ==
    ASSUME Inv, ReceiveLogin
    PROVE  Inv'
<1> USE DEF ReceiveLogin, Returned
<1>1. down \in Seq(Downs) /\ Len(down) \in Nat
  BY DEF Inv, TypeOK
<1>2. down' \in Seq(Downs)
  BY <1>1, DownAfter
<1>3. TypeOK' /\ TurnOK'
  BY <1>2 DEF Inv, TurnOK, TypeOK, Waits, Readers
<1>4. InStep'
  BY InStepIdle
<1>5. ASSUME NEW n \in 1..Len(down), Texts(n) \cap {"login", "logout"} # {}, quiet
      PROVE  session \in {"while", "metadata", "gone"}
  <2>1. PICK i \in 1..n : down[i].text \in {"login", "logout"}
    BY <1>5 DEF Texts
  <2>2. i \in 1..Len(down)
    BY <1>1
  <2> QED
    BY <1>5, <2>1, <2>2 DEF Inv, TypeOK, InStep, Waits
<1>6. BeliefHasSession'
  <2>1. CASE UNCHANGED <<loggedIn, sure>>
    BY <2>1 DEF Inv, BeliefHasSession
  <2>2. CASE ~sure'
    BY <2>2 DEF BeliefHasSession
  <2>3. CASE \E n \in 1..Len(down) : Texts(n) \cap {"login", "logout"} # {} /\ quiet
    BY <2>3, <1>5 DEF BeliefHasSession
  <2> QED
    BY <2>1, <2>2, <2>3 DEF Inv, TypeOK
<1> QED
  BY <1>3, <1>4, <1>6 DEF Inv

-----------------------------------------------------------------------------
(***************************************************************************)
(* The download.  While it does anything, no quiet command is waited for.  *)
(***************************************************************************)
LEMMA DownloadLoud ==
    ASSUME Inv, thread # "none"
    PROVE  ~(quiet /\ Waits("main"))
BY DEF Inv, InStep

\* What a step of the download has to keep.
LEMMA DownloadStep ==
    ASSUME Inv, thread # "none", UNCHANGED <<client, session, breaks, history>>,
           thread' \in {"none", "start", "clearing", "asking", "length", "data",
                        "work", "sweeping", "swept", "updated", "last"},
           up' \in Seq(Ups), down' \in Seq(Downs),
           nonblock' \in BOOLEAN, saved' \in [Readers -> BOOLEAN],
           blocked' \subseteq blocked,
           "thread" \in blocked' => thread' \in {"length", "data"}
    PROVE  Inv'
<1>1. TypeOK' /\ TurnOK'
  BY DEF Inv, TurnOK, TypeOK, Waits, Readers
<1>2. InStep'
  BY DownloadLoud DEF InStep, Waits
<1>3. BeliefHasSession'
  BY DEF Inv, BeliefHasSession
<1> QED
  BY <1>1, <1>2, <1>3 DEF Inv

\* Only who receives is inside a recv.
LEMMA NotInside ==
    ASSUME Inv, thread \notin {"length", "data"}
    PROVE  "thread" \notin blocked
BY DEF Inv, TypeOK, Waits

LEMMA DownloadInv ==
    ASSUME Inv, Download
    PROVE  Inv'
<1>1. /\ up \in Seq(Ups) /\ down \in Seq(Downs)
      /\ nonblock \in BOOLEAN /\ saved \in [Readers -> BOOLEAN]
      /\ blocked \subseteq Readers /\ turn \in Nat
  BY DEF Inv, TypeOK
<1>2. CASE BeginThreadDrain
  BY <1>1, <1>2, DownloadStep, NotInside DEF BeginThreadDrain, BeginDrain, Readers
<1>3. CASE EndThreadDrain
  <2>1. down' \in Seq(Downs)
    BY <1>1, <1>3, DownAfter DEF EndThreadDrain, Discard
  <2>2. saved["thread"] \in BOOLEAN
    BY <1>1 DEF Readers
  <2> QED
    BY <1>1, <1>3, <2>1, <2>2, DownloadStep, NotInside DEF EndThreadDrain, EndDrain
<1>4. CASE SendDownload
  <2>1. up' \in Seq(Ups)
    BY <1>1, <1>4, PushFacts, SentType DEF SendDownload, Commands
  <2> QED
    BY <1>1, <1>4, <2>1, DownloadStep, NotInside DEF SendDownload
<1>5. CASE UpdateFileInfo
  <2>1. up' \in Seq(Ups)
    BY <1>1, <1>5, PushFacts, SentType DEF UpdateFileInfo
  <2> QED
    BY <1>1, <1>5, <2>1, DownloadStep, NotInside DEF UpdateFileInfo
<1>6. CASE ReceiveNothing
  BY <1>1, <1>6, DownloadStep DEF ReceiveNothing, Returned
<1>7. CASE ReceiveData
  <2>1. down' \in Seq(Downs)
    BY <1>1, <1>7, HeadTailProperties DEF ReceiveData
  <2> QED
    BY <1>1, <1>7, <2>1, DownloadStep DEF ReceiveData, Returned
<1>8. CASE ReceiveLength
  <2>1. up' \in Seq(Ups) /\ down' \in Seq(Downs)
    <3>1. CASE down' = Tail(down) /\ Push(up, Sent("ACK", 0))
      BY <1>1, <1>8, <3>1, HeadTailProperties, PushFacts, SentType DEF ReceiveLength
    <3>2. CASE down' = [down EXCEPT ![1].text = "text"] /\ UNCHANGED up
      <4>1. down \in [1..Len(down) -> Downs] /\ Len(down) \in Nat
        BY <1>1, LenProperties
      <4>2. [down EXCEPT ![1].text = "text"] \in [1..Len(down) -> Downs]
        BY <4>1 DEF Downs
      <4> QED
        BY <1>1, <3>2, <4>1, <4>2
    <3> QED
      BY <1>8, <3>1, <3>2 DEF ReceiveLength
  <2> QED
    BY <1>1, <1>8, <2>1, DownloadStep DEF ReceiveLength, Returned
<1> QED
  BY <1>2, <1>3, <1>4, <1>5, <1>6, <1>7, <1>8 DEF Download

-----------------------------------------------------------------------------
(***************************************************************************)
(* The tracker.                                                            *)
(***************************************************************************)
\* What a step of the session, or the end of its connection, has to keep.
LEMMA SessionStep ==
    ASSUME Inv, UNCHANGED <<client, thread, socket, history>>,
           breaks' \in 0..MaxBreaks,
           session' \in {"hello", "login", "while", "metadata", "gone"},
           session = "gone" => session' = "gone",
           session \in {"while", "metadata"} => session' \in {"while", "metadata", "gone"},
           up' \in Seq(Ups), down' \in Seq(Downs),
           InStep'
    PROVE  Inv'
<1>1. TypeOK' /\ TurnOK'
  BY DEF Inv, TurnOK, TypeOK, Waits
<1>2. BeliefHasSession'
  <2>1. CASE session' \in {"while", "metadata", "gone"}
    BY <2>1 DEF BeliefHasSession
  <2>2. CASE session' \notin {"while", "metadata", "gone"}
    BY <2>2 DEF Inv, BeliefHasSession
  <2> QED
    BY <2>1, <2>2
<1> QED
  BY <1>1, <1>2 DEF Inv

\* A session reads some of what was sent and answers: each answer counts as one
\* to the first command it read.
LEMMA AnswerStep ==
    ASSUME Inv, UNCHANGED <<client, thread, socket, breaks, history>>,
           session \in {"login", "while", "metadata"},
           session' \in {"login", "while", "metadata"},
           session # "login" => session' # "login",
           up # <<>>, up' \in Seq(Ups),
           \A i \in 1..Len(up') : \E j \in 1..Len(up) : up'[i] = up[j],
           NEW a \in Seq(Words),
           Answer(a),
           up[1].kind = "login" => \A j \in 1..Len(a) : a[j] # "logout",
           \A j \in 1..Len(a) : a[j] = "login" => session' # "login"
    PROVE  Inv'
<1>1. /\ up \in Seq(Ups) /\ down \in Seq(Downs) /\ breaks \in 0..MaxBreaks
      /\ 1 \in 1..Len(up)
  <2>1. up \in Seq(Ups) /\ down \in Seq(Downs) /\ breaks \in 0..MaxBreaks
    BY DEF Inv, TypeOK
  <2>2. Len(up) \in Nat \ {0}
    BY <2>1, EmptySeq
  <2> QED
    BY <2>1, <2>2
<1>3. /\ down' \in Seq(Downs)
      /\ \A i \in 1..Len(down') :
            \/ i \in 1..Len(down) /\ down'[i] = down[i]
            \/ /\ down'[i].turn = up[1].turn
               /\ \E j \in 1..Len(a) : down'[i].text = a[j]
  BY <1>1, AnswerFacts
<1>4. InStep'
  <2> SUFFICES ASSUME quiet, Waits("main")
               PROVE  InStep'
    BY DEF InStep, Waits
  <2>1. /\ thread = "none"
        /\ \A i \in 1..Len(up) : up[i].turn = turn
        /\ \A i \in 1..Len(down) : down[i].turn = turn
        /\ main = "relogin" =>
              /\ \A i \in 1..Len(up) : up[i].kind = "login"
              /\ \A i \in 1..Len(down) : down[i].text # "logout"
        /\ \A i \in 1..Len(down) : down[i].text = "login" => session # "login"
    BY DEF Inv, InStep
  <2>2. \A i \in 1..Len(up') : up'[i].turn = turn
    BY <2>1
  <2>3. \A i \in 1..Len(down') : down'[i].turn = turn
    BY <1>1, <1>3, <2>1
  <2>4. main = "relogin" => /\ \A i \in 1..Len(up') : up'[i].kind = "login"
                            /\ \A i \in 1..Len(down') : down'[i].text # "logout"
    BY <1>1, <1>3, <2>1
  <2>5. \A i \in 1..Len(down') : down'[i].text = "login" => session' # "login"
    BY <1>3, <2>1
  <2> QED
    BY <2>1, <2>2, <2>3, <2>4, <2>5 DEF InStep
<1> QED
  BY <1>1, <1>3, <1>4, SessionStep

Taken(n) ==
    /\ up # <<>> /\ up' \in Seq(Ups)
    /\ \A i \in 1..Len(up') : \E j \in 1..Len(up) : up'[i] = up[j]

LEMMA TakenFacts ==
    ASSUME Inv, NEW n \in 1..Len(up), up' = After(up, n)
    PROVE  Taken(n)
<1>1. up \in Seq(Ups)
  BY DEF Inv, TypeOK
<1>2. up # <<>> /\ n \in 0..Len(up)
  BY <1>1
<1> QED
  BY <1>1, <1>2, UpAfter DEF Taken

LEMMA LoginLoopInv ==
    ASSUME Inv, LoginLoop
    PROVE  Inv'
<1>1. PICK n \in 1..Len(up) :
         LET k == up[1].kind
             answers == IF n = 1 \/ k = "logout"
                        THEN {k} \cap {"login", "create", "logout"} ELSE {}
         IN  /\ up' = After(up, n)
             /\ \E a \in answers \cup {"text"} :
                   /\ Answer(<<a>>)
                   /\ session' = IF a = "login" THEN "while" ELSE "login"
  BY DEF LoginLoop
<1>2. PICK a \in ({up[1].kind} \cap {"login", "create", "logout"}) \cup {"text"} :
         /\ Answer(<<a>>)
         /\ session' = IF a = "login" THEN "while" ELSE "login"
  BY <1>1
<1>3. a \in Words
  BY <1>2 DEF Words
<1>4. <<a>> \in Seq(Words) /\ \A j \in 1..Len(<<a>>) : <<a>>[j] = a
  BY <1>3, OneWord
<1>5. up[1].kind = "login" => a # "logout"
  BY <1>2
<1> HIDE DEF Inv
<1>6. UNCHANGED <<client, thread, socket, breaks, history>> /\ session = "login"
  BY DEF LoginLoop
<1>7. Taken(n)
  BY <1>1, TakenFacts
<1> QED
  BY <1>2, <1>3, <1>4, <1>5, <1>6, <1>7, AnswerStep DEF Taken

LEMMA WhileLoopInv ==
    ASSUME Inv, WhileLoop
    PROVE  Inv'
<1>1. PICK n \in 1..Len(up) :
         /\ up' = After(up, n)
         /\ \E a \in Answers(up[1].kind, n) :
               /\ Answer(a)
               /\ session' = IF a = <<"send">> THEN "metadata" ELSE "while"
  BY DEF WhileLoop
<1>2. PICK a \in Answers(up[1].kind, n) :
         Answer(a) /\ session' = IF a = <<"send">> THEN "metadata" ELSE "while"
  BY <1>1
<1>3. \/ a \in {<<"send">>, <<"text">>, <<"text", "text">>, <<"length", "offer">>,
                <<"length", "error">>}
      \/ a = <<"logout">> /\ up[1].kind = "logout"
  BY <1>2 DEF Answers
<1>4. /\ a \in Seq(Words)
      /\ \A j \in 1..Len(a) : a[j] # "login"
      /\ up[1].kind = "login" => \A j \in 1..Len(a) : a[j] # "logout"
  <2>1. CASE a = <<"logout">> /\ up[1].kind = "logout"
    BY <2>1, OneWord DEF Words
  <2>2. CASE a = <<"send">>
    BY <2>2, OneWord DEF Words
  <2>3. CASE a = <<"text">>
    BY <2>3, OneWord DEF Words
  <2>4. CASE a = <<"text", "text">>
    BY <2>4, TwoWords DEF Words
  <2>5. CASE a = <<"length", "offer">>
    BY <2>5, TwoWords DEF Words
  <2>6. CASE a = <<"length", "error">>
    BY <2>6, TwoWords DEF Words
  <2> QED
    BY <1>3, <2>1, <2>2, <2>3, <2>4, <2>5, <2>6
<1>5. /\ UNCHANGED <<client, thread, socket, breaks, history>> /\ session = "while"
      /\ session' \in {"while", "metadata"}
  BY <1>2 DEF WhileLoop
<1>6. Taken(n)
  BY <1>1, TakenFacts
<1> QED
  BY <1>2, <1>4, <1>5, <1>6, AnswerStep DEF Taken

LEMMA ReceiveMetadataInv ==
    ASSUME Inv, ReceiveMetadata
    PROVE  Inv'
<1> USE DEF ReceiveMetadata
<1>1. /\ up \in Seq(Ups) /\ down \in Seq(Downs) /\ up # <<>> /\ session = "metadata"
      /\ breaks \in 0..MaxBreaks
      /\ UNCHANGED <<client, thread, socket, breaks, history>>
  BY DEF Inv, TypeOK
<1>2. CASE up' = Tail(up) /\ Answer(<<"text">>) /\ session' = "while"
  <2>1. /\ up' \in Seq(Ups)
        /\ \A i \in 1..Len(up') : \E j \in 1..Len(up) : up'[i] = up[j]
    BY <1>1, <1>2, HeadTailProperties
  <2>2. /\ <<"text">> \in Seq(Words)
        /\ \A j \in 1..Len(<<"text">>) : <<"text">>[j] = "text"
    BY OneWord DEF Words
  <2> QED
    BY <1>1, <1>2, <2>1, <2>2, AnswerStep
<1>3. CASE session' = "gone" /\ up' = <<>> /\ UNCHANGED down
  <2>1. 1..Len(up') = {} /\ up' \in Seq(Ups)
    BY <1>3, EmptySeq
  <2>2. InStep'
    BY <1>1, <1>3, <2>1 DEF Inv, InStep, Waits
  <2> QED
    BY <1>1, <1>3, <2>1, <2>2, SessionStep
<1> QED
  BY <1>2, <1>3

LEMMA HandleClientInv ==
    ASSUME Inv, HandleClient
    PROVE  Inv'
<1> USE DEF HandleClient
<1>1. up \in Seq(Ups) /\ down \in Seq(Downs) /\ breaks \in 0..MaxBreaks
  BY DEF Inv, TypeOK
<1>2. up' \in Seq(Ups)
  BY <1>1, UpAfter
<1>3. ~(quiet /\ Waits("main"))
  BY DEF Inv, InStep
<1>4. InStep'
  BY <1>3 DEF InStep, Waits
<1> QED
  BY <1>1, <1>2, <1>4, SessionStep

LEMMA BreakInv ==
    ASSUME Inv, Break
    PROVE  Inv'
<1> USE DEF Break
<1>1. /\ up' \in Seq(Ups) /\ 1..Len(up') = {}
      /\ down \in Seq(Downs) /\ breaks' \in 0..MaxBreaks
  BY EmptySeq DEF Inv, TypeOK
<1>2. PICK n \in 0..Len(down) : down' = SubSeq(down, 1, n)
  OBVIOUS
<1>3. /\ down' \in Seq(Downs)
      /\ \A i \in 1..Len(down') : i \in 1..Len(down) /\ down'[i] = down[i]
  BY <1>1, <1>2
<1>4. InStep'
  BY <1>1, <1>3 DEF Inv, InStep, Waits
<1> QED
  BY <1>1, <1>3, <1>4, SessionStep

-----------------------------------------------------------------------------
(***************************************************************************)
(* The theorems.                                                           *)
(***************************************************************************)
LEMMA BlockInv ==
    ASSUME Inv, NEW a \in Readers, Block(a)
    PROVE  Inv'
<1> USE DEF Block
<1>1. TypeOK' /\ TurnOK'
  BY DEF Inv, TypeOK, TurnOK, Waits
<1>2. InStep' /\ BeliefHasSession'
  BY DEF Inv, InStep, BeliefHasSession, Waits
<1> QED
  BY <1>1, <1>2 DEF Inv

LEMMA InitInv == Init => Inv
<1> SUFFICES ASSUME Init
             PROVE  Inv
  OBVIOUS
<1>1. up \in Seq(Ups) /\ down \in Seq(Downs)
  <2>1. Sent("hello", 0) \in Ups
    BY SentType
  <2>2. <<Sent("hello", 0)>> \in Seq(Ups)
    BY <2>1
  <2> QED
    BY <2>2, EmptySeq DEF Init
<1>2. TypeOK /\ TurnOK
  <2>1. saved \in [Readers -> BOOLEAN] /\ blocked = {} /\ nonblock \in BOOLEAN
    BY DEF Init
  <2>2. /\ main = "idle" /\ cmd = "other" /\ turn = 0 /\ thread = "none"
        /\ session = "hello" /\ breaks = 0
        /\ loggedIn \in BOOLEAN /\ quiet \in BOOLEAN /\ sure \in BOOLEAN
    BY DEF Init
  <2> QED
    BY <1>1, <2>1, <2>2 DEF TypeOK, TurnOK, Commands
<1>3. InStep /\ BeliefHasSession
  BY DEF Init, InStep, BeliefHasSession
<1> QED
  BY <1>2, <1>3 DEF Inv

LEMMA NextInv == Inv /\ [Next]_vars => Inv'
<1> SUFFICES ASSUME Inv, [Next]_vars
             PROVE  Inv'
  OBVIOUS
<1>1. CASE User
  BY <1>1, HandleCommandInv, SkipLoginInv, SendLogoutInv DEF User
<1>2. CASE Main
  BY <1>2, StartDownloadInv, SendInv, ReceiveInv, ReceiveUploadInv, ResetTrackerInv,
     SendLoginInv, ReceiveLoginInv DEF Main
<1>3. CASE Download
  BY <1>3, DownloadInv
<1>4. CASE Tracker
  BY <1>4, LoginLoopInv, WhileLoopInv, ReceiveMetadataInv DEF Tracker
<1>5. CASE HandleClient \/ Break
  BY <1>5, HandleClientInv, BreakInv
<1>6. CASE \E a \in Readers : Block(a)
  BY <1>6, BlockInv
<1>7. CASE UNCHANGED vars
  BY <1>7 DEF vars, Inv, TypeOK, TurnOK, InStep, BeliefHasSession, Waits
<1> QED
  BY <1>1, <1>2, <1>3, <1>4, <1>5, <1>6, <1>7 DEF Next

\* The inductive invariant holds, for every number of commands and breaks.
THEOREM Invariant == Spec => []Inv
BY InitInv, NextInv, PTL DEF Spec

\* Every variable keeps its type (TypeOK).
THEOREM TypeCorrect == Spec => []TypeOK
<1>1. Inv => TypeOK
  BY DEF Inv
<1> QED
  BY <1>1, Invariant, PTL

\* The reply that handle_command or reset_tracker takes for that of a quiet
\* command is one of its own (RepliesInStep).
THEOREM QuietCommandsInStep == Spec => []RepliesInStep
<1>1. Inv => RepliesInStep
  BY DEF Inv, InStep, RepliesInStep
<1> QED
  BY <1>1, Invariant, PTL

\* Client::logged_in, set by the reply to a quiet login, says that the session
\* is in while_loop, also after fail-overs (BeliefHasSession).
THEOREM BeliefIsTrue == Spec => []BeliefHasSession
<1>1. Inv => BeliefHasSession
  BY DEF Inv
<1> QED
  BY <1>1, Invariant, PTL

-----------------------------------------------------------------------------
(***************************************************************************)
(* How far a quiet command has got: it is on its way, it is answered, the  *)
(* tracker has asked for the metadata, or those are on their way.          *)
(***************************************************************************)
Asked ==
    /\ session \in {"login", "while"}
    /\ Len(up) = 1 /\ up[1].kind = cmd /\ down = <<>>

Answered ==
    /\ session \in {"login", "while"}
    /\ up = <<>> /\ down # <<>>
    /\ \A i \in 1..Len(down) : down[i].text # "send"

Invited ==
    /\ session = "metadata" /\ cmd = "upload"
    /\ up = <<>> /\ Len(down) = 1 /\ down[1].text = "send"

Delivering ==
    /\ session = "metadata" /\ cmd = "other"
    /\ Len(up) = 1 /\ up[1].kind = "metadata" /\ down = <<>>

Exchange ==
    quiet /\ main = "sent" /\ session # "gone" =>
        Asked \/ Answered \/ Invited \/ Delivering

\* The first answers to arrive are all there is to read.
LEMMA FirstAnswers ==
    ASSUME Inv, down = <<>>, up # <<>>, NEW a \in Seq(Words), a # <<>>, Answer(a)
    PROVE  /\ down' # <<>> /\ Len(down') = Len(a)
           /\ \A i \in 1..Len(down') : \E j \in 1..Len(a) : down'[i].text = a[j]
<1>1. down \in Seq(Downs) /\ up \in Seq(Ups) /\ Len(down) = 0
  BY DEF Inv, TypeOK
<1>2. \A i \in 1..Len(down') : \E j \in 1..Len(a) : down'[i].text = a[j]
  BY <1>1, AnswerFacts
<1>3. down' # <<>> /\ Len(down') = Len(a)
  <2> DEFINE b == [i \in 1..Len(a) |-> [text |-> a[i], turn |-> up[1].turn]]
  <2>1. Len(a) \in Nat \ {0}
    BY EmptySeq
  <2>2. b \in Seq({[text |-> x, turn |-> up[1].turn] : x \in Words}) /\ Len(b) = Len(a)
    BY <2>1
  <2>3. down' = down \o b
    BY DEF Answer
  <2> HIDE DEF b
  <2>4. Len(down') = Len(down) + Len(b)
    BY <1>1, <2>2, <2>3
  <2> QED
    BY <1>1, <2>1, <2>2, <2>4
<1> QED
  BY <1>2, <1>3

\* While it lasts, the tracker reads one thing at a time.
LEMMA LastTaken ==
    ASSUME Inv, Len(up) = 1, NEW n \in 1..Len(up), up' = After(up, n)
    PROVE  n = 1 /\ up' = <<>>
<1>1. up \in Seq(Ups)
  BY DEF Inv, TypeOK
<1>2. n = 1
  OBVIOUS
<1>3. up' \in Seq(Ups) /\ Len(up') = 0
  BY <1>1, <1>2, AfterFacts
<1> QED
  BY <1>2, <1>3, EmptySeq

LEMMA LoginLoopExchange ==
    ASSUME Inv, Exchange, LoginLoop
    PROVE  Exchange'
<1> SUFFICES ASSUME quiet, main = "sent"
             PROVE  Answered'
  BY DEF LoginLoop, Exchange
<1>1. PICK n \in 1..Len(up) :
         /\ up' = After(up, n)
         /\ \E a \in {up[1].kind, "text"} \cap {"login", "create", "logout", "text"} :
               /\ Answer(<<a>>)
               /\ session' = IF a = "login" THEN "while" ELSE "login"
  BY DEF LoginLoop
<1>2. PICK a \in {"login", "create", "logout", "text"} :
         Answer(<<a>>) /\ session' \in {"login", "while"}
  BY <1>1
<1>3. Asked
  BY <1>1 DEF LoginLoop, Exchange, Answered, Invited, Delivering
<1>4. n = 1 /\ up' = <<>>
  BY <1>1, <1>3, LastTaken DEF Asked
<1>5. /\ <<a>> \in Seq(Words) /\ <<a>> # <<>>
      /\ \A j \in 1..Len(<<a>>) : <<a>>[j] # "send"
  BY OneWord DEF Words
<1>6. up # <<>> /\ down = <<>>
  BY <1>3 DEF Asked
<1>7. down' # <<>> /\ \A i \in 1..Len(down') : down'[i].text # "send"
  BY <1>2, <1>5, <1>6, FirstAnswers
<1> QED
  BY <1>2, <1>4, <1>7 DEF Answered

\* Only an upload is answered with the invitation to send the metadata.
LEMMA WhileLoopExchange ==
    ASSUME Inv, Exchange, WhileLoop
    PROVE  Exchange'
<1> SUFFICES ASSUME quiet, main = "sent"
             PROVE  Answered' \/ Invited'
  BY DEF WhileLoop, Exchange
<1>1. PICK n \in 1..Len(up) :
         /\ up' = After(up, n)
         /\ \E a \in Answers(up[1].kind, n) :
               /\ Answer(a)
               /\ session' = IF a = <<"send">> THEN "metadata" ELSE "while"
  BY DEF WhileLoop
<1>2. PICK a \in Answers(up[1].kind, n) :
         Answer(a) /\ session' = IF a = <<"send">> THEN "metadata" ELSE "while"
  BY <1>1
<1>3. Asked
  BY <1>1 DEF WhileLoop, Exchange, Answered, Invited, Delivering
<1>4. n = 1 /\ up' = <<>> /\ up # <<>> /\ down = <<>>
  BY <1>1, <1>3, LastTaken DEF Asked
<1>5. \/ a = <<"send">> /\ up[1].kind = "upload"
      \/ a \in {<<"logout">>, <<"text">>}
      \/ a \in {<<"text", "text">>, <<"length", "offer">>, <<"length", "error">>}
  BY <1>2 DEF Answers
<1>6. CASE a = <<"send">> /\ up[1].kind = "upload"
  <2>1. /\ a \in Seq(Words) /\ a # <<>> /\ Len(a) = 1
        /\ \A j \in 1..Len(a) : a[j] = "send"
    BY <1>6, OneWord DEF Words
  <2>2. Len(down') = 1 /\ down'[1].text = "send"
    BY <1>2, <1>4, <2>1, FirstAnswers
  <2>3. session' = "metadata" /\ cmd' = "upload"
    BY <1>2, <1>3, <1>6 DEF Asked, WhileLoop
  <2> QED
    BY <1>4, <2>2, <2>3 DEF Invited
<1>7. ASSUME a \in Seq(Words), a # <<>>, \A j \in 1..Len(a) : a[j] # "send"
      PROVE  Answered'
  <2>1. down' # <<>> /\ \A i \in 1..Len(down') : down'[i].text # "send"
    BY <1>2, <1>4, <1>7, FirstAnswers
  <2>2. a # <<"send">>
    BY <1>7
  <2> QED
    BY <1>2, <1>4, <2>1, <2>2 DEF Answered
<1>8. ASSUME NEW x \in Words \ {"send"}, a = <<x>>
      PROVE  Answered'
  <2>1. a \in Seq(Words) /\ a # <<>> /\ \A j \in 1..Len(a) : a[j] # "send"
    BY <1>8, OneWord
  <2> QED
    BY <1>7, <2>1
<1>9. ASSUME NEW x \in Words \ {"send"}, NEW y \in Words \ {"send"}, a = <<x, y>>
      PROVE  Answered'
  <2>1. a \in Seq(Words) /\ a # <<>> /\ \A j \in 1..Len(a) : a[j] # "send"
    BY <1>9, TwoWords
  <2> QED
    BY <1>7, <2>1
<1>10. {"logout", "text", "length", "offer", "error"} \subseteq Words \ {"send"}
  BY DEF Words
<1> QED
  BY <1>5, <1>6, <1>8, <1>9, <1>10

LEMMA ReceiveMetadataExchange ==
    ASSUME Inv, Exchange, ReceiveMetadata
    PROVE  Exchange'
<1> SUFFICES ASSUME quiet, main = "sent", session' # "gone"
             PROVE  Answered'
  BY DEF ReceiveMetadata, Exchange
<1>1. /\ session = "metadata" /\ up # <<>>
      /\ up' = Tail(up) /\ Answer(<<"text">>) /\ session' = "while"
  BY DEF ReceiveMetadata
<1>2. Delivering
  BY <1>1 DEF Exchange, Asked, Answered, Invited
<1>3. up' = <<>>
  <2>1. up \in Seq(Ups) /\ Len(up) = 1
    BY <1>2 DEF Inv, TypeOK, Delivering
  <2>2. up' \in Seq(Ups) /\ Len(up') = 0
    BY <1>1, <2>1
  <2> QED
    BY <2>2, EmptySeq
<1>4. /\ <<"text">> \in Seq(Words) /\ <<"text">> # <<>>
      /\ \A j \in 1..Len(<<"text">>) : <<"text">>[j] # "send"
  BY OneWord DEF Words
<1>5. down' # <<>> /\ \A i \in 1..Len(down') : down'[i].text # "send"
  BY <1>1, <1>2, <1>4, FirstAnswers DEF Delivering
<1> QED
  BY <1>1, <1>3, <1>5 DEF Answered

\* A quiet command is the first thing under way.
LEMMA SendExchange ==
    ASSUME Inv, Send
    PROVE  Exchange'
<1> SUFFICES ASSUME quiet', session # "gone"
             PROVE  Asked'
  BY DEF Send, Exchange
<1>1. up = <<>> /\ down' = <<>> /\ session \in {"login", "while"} /\ UNCHANGED <<cmd, session>>
  BY DEF Send, Quiet
<1>2. cmd \in Commands /\ turn \in Nat
  BY DEF Inv, TypeOK
<1>3. Sent(cmd, turn + 1).kind = cmd
  BY <1>2, SentType
<1>4. up' = <<Sent(cmd, turn + 1)>>
  BY <1>1 DEF Send, Push
<1> QED
  BY <1>1, <1>3, <1>4 DEF Asked

\* The invitation is answered with the metadata, or ends the command.
LEMMA ReceiveUploadExchange ==
    ASSUME Inv, Exchange, ReceiveUpload
    PROVE  Exchange'
<1> SUFFICES ASSUME quiet, main' = "sent", session # "gone"
             PROVE  Delivering'
  BY DEF ReceiveUpload, Exchange
<1>1. PICK n \in 1..Len(down) :
         /\ down' = After(down, n)
         /\ "send" \in Texts(n)
         /\ Push(up, Sent("metadata", turn)) /\ cmd' = "other"
  BY DEF ReceiveUpload
<1>2. down \in Seq(Downs) /\ turn \in Nat /\ UNCHANGED session
  BY DEF Inv, TypeOK, ReceiveUpload
<1>3. PICK i \in 1..n : down[i].text = "send"
  BY <1>1 DEF Texts
<1>4. i \in 1..Len(down)
  BY <1>2
<1>5. Invited
  BY <1>3, <1>4, <1>2 DEF Exchange, Asked, Answered, Delivering, ReceiveUpload
<1>6. n = 1 /\ down' = <<>>
  <2>1. n = 1
    BY <1>5 DEF Invited
  <2>2. Len(down) = 1 /\ n \in 0..Len(down)
    BY <1>5, <2>1 DEF Invited
  <2>3. After(down, n) \in Seq(Downs) /\ Len(After(down, n)) = Len(down) - n
    BY <1>2, <2>2, AfterFacts
  <2>4. down' \in Seq(Downs) /\ Len(down') = 0
    BY <1>1, <2>1, <2>2, <2>3
  <2> QED
    BY <2>1, <2>4, EmptySeq
<1>7. up' = <<Sent("metadata", turn)>>
  BY <1>1, <1>2, <1>5 DEF Push, Invited
<1>8. Sent("metadata", turn).kind = "metadata"
  BY <1>2, SentType
<1> QED
  BY <1>1, <1>2, <1>5, <1>6, <1>7, <1>8 DEF Delivering, Invited

\* Other steps of the client end the command or are not of it.
LEMMA OtherExchange ==
    ASSUME Inv, Exchange,
           \/ User \/ StartDownload \/ Receive \/ ResetTracker \/ SendLogin \/ ReceiveLogin
           \/ HandleClient \/ Break \/ Download
           \/ \E a \in Readers : Block(a)
           \/ UNCHANGED vars
    PROVE  Exchange'
<1>1. CASE User
  BY <1>1 DEF User, HandleCommand, SkipLogin, SendLogout, Exchange
<1>2. CASE StartDownload \/ Receive \/ ResetTracker \/ SendLogin \/ ReceiveLogin
  BY <1>2 DEF StartDownload, Receive, ResetTracker, SendLogin, ReceiveLogin, Exchange, Inv, TypeOK
<1>3. CASE HandleClient \/ Download
  <2>1. ~(quiet /\ main = "sent")
    BY <1>3 DEF Inv, InStep, Waits, HandleClient, Download, BeginThreadDrain,
                EndThreadDrain, SendDownload, ReceiveLength, ReceiveData,
                ReceiveNothing, UpdateFileInfo
  <2>2. UNCHANGED <<main, quiet>>
    BY <1>3 DEF HandleClient, Download, BeginThreadDrain, EndThreadDrain, SendDownload,
                ReceiveLength, ReceiveData, ReceiveNothing, UpdateFileInfo
  <2> QED
    BY <2>1, <2>2 DEF Exchange
<1>4. CASE Break
  BY <1>4 DEF Break, Exchange
<1>5. CASE UNCHANGED vars \/ \E a \in Readers : Block(a)
  <2>1. UNCHANGED <<main, cmd, quiet, session, up, down>>
    BY <1>5 DEF vars, Block
  <2> QED
    BY <2>1 DEF Exchange, Asked, Answered, Invited, Delivering
<1> QED
  BY <1>1, <1>2, <1>3, <1>4, <1>5

LEMMA ExchangeKept == Inv /\ Exchange /\ [Next]_vars => Exchange'
<1> SUFFICES ASSUME Inv, Exchange, [Next]_vars
             PROVE  Exchange'
  OBVIOUS
<1>1. CASE Main
  BY <1>1, OtherExchange, SendExchange, ReceiveUploadExchange DEF Main
<1>2. CASE Tracker
  BY <1>2, LoginLoopExchange, WhileLoopExchange, ReceiveMetadataExchange DEF Tracker
<1> QED
  BY <1>1, <1>2, OtherExchange DEF Next

\* A quiet command is always in one of these four stages.
THEOREM ExchangeInvariant == Spec => []Exchange
<1>1. Init => Exchange
  BY DEF Init, Exchange
<1> QED
  BY <1>1, ExchangeKept, Invariant, PTL DEF Spec

\* Over a quiet command the client and the tracker never wait for each other
\* (NeverBothWait), the safety half of AnsweredAlone.
THEOREM NoMutualWait == Spec => []NeverBothWait
<1>1. Inv /\ Exchange => NeverBothWait
  <2> SUFFICES ASSUME Inv, Exchange, main = "sent", quiet, session # "gone"
               PROVE  NeverBothWait
    BY DEF NeverBothWait
  <2>1. (up = <<>> => Len(up) = 0) /\ (down = <<>> => Len(down) = 0)
    OBVIOUS
  <2> QED
    BY <2>1 DEF NeverBothWait, Exchange, Asked, Answered, Invited, Delivering
<1> QED
  BY <1>1, ExchangeInvariant, Invariant, PTL
=============================================================================
