-------------------------- MODULE ChatClientProofs --------------------------
(***************************************************************************)
(* A handler is given the answer to its own call, for any number of        *)
(* requests and connections; then the ping threads of the same client      *)
(* (Heartbeat), and the server's pool of connections to its notice         *)
(* backends (Backends).  Liveness stays with TLC.                          *)
(***************************************************************************)
EXTENDS ChatClient, SequenceTheorems, TLAPS

(* The server has read the call, under its name.                           *)
Written == {c \in Call : step[c] \in {"put", "done"}}

(* A connection that is still to be made has made no call, so the name of  *)
(* a call never changes.                                                   *)
Fresh == \A n \in Conn : n > conn => step[n] = "new"

(* Only calls that were written are answered.                              *)
AnswersAsked ==
    /\ asked \subseteq Written
    /\ \A i \in 1..Len(sent) : sent[i].type # "REDIRECT" => sent[i].to \in Written

(* A handler waits under the name of its call.                             *)
Cached ==
    \A t \in Time : requestCache[t] # None =>
        step[requestCache[t]] = "done" /\ id[requestCache[t]] = t

(* A handler that was called had been cached.                              *)
Called == \A c \in Call : got[c] # {} => step[c] = "done"

(* So has the one a listener is in.                                        *)
Handled == \A n \in Conn : handling[n] # None => step[handling[n]] = "done"

IInv == TypeOK /\ Fresh /\ AnswersAsked /\ Cached /\ Called /\ Handled /\ OwnAnswer

State == {"new", "write", "put", "done", "failed", "dropped"}
-----------------------------------------------------------------------------
LEMMA AnswerTypes ==
  ASSUME NEW m \in Message, m.type # "REDIRECT"
  PROVE  m \in Answer /\ m.to \in Call
  BY DEF Message, Answer

(* The types of what the temporal properties do not speak about.           *)
LEMMA Numbers ==
  ASSUME TypeOK
  PROVE  /\ MaxTime \in Nat /\ MaxConnect \in Nat
         /\ now \in 0..MaxTime /\ conn \in 0..MaxConnect
         /\ step \in [Call -> State] /\ id \in [Call -> Time]
         /\ asked \subseteq Call /\ sent \in Seq(Message)
         /\ requestCache \in [Time -> Call \cup {None}]
         /\ got \in [Call -> SUBSET Call] /\ handling \in [Conn -> Call \cup {None}]
  BY ChatAssumption DEF TypeOK, Time, State

(* What a listener may be given: a message behind those received, the next *)
(* unless the stream is broken.                                            *)
LEMMA GivenTypes ==
  ASSUME TypeOK, NEW n \in Conn, NEW k \in Given(n)
  PROVE  /\ k \in 1..Len(sent) /\ sent[k] \in Message
         /\ Len(received) \in Nat /\ Len(sent) \in Nat /\ Len(received) < k /\ k <= Len(sent)
         /\ k = Len(received) + 1 \/ broken
         /\ handling[n] = None /\ n <= conn
         /\ Receive(k) => /\ received' \in Seq(Message) /\ Len(received') = k
                          /\ UNCHANGED <<sent, broken>>
<1>1. sent \in Seq(Message) /\ received \in Seq(Message) /\ conn \in 0..MaxConnect /\ MaxConnect \in Nat
  BY Numbers DEF TypeOK
<1>2. /\ k \in Len(received) + 1 .. Len(sent) /\ n \in 1..conn /\ handling[n] = None
      /\ k = Len(received) + 1 \/ broken
  BY DEF Given
<1>3. k \in 1..Len(sent) /\ Len(received) < k /\ Len(received) \in Nat /\ Len(sent) \in Nat
  BY <1>1, <1>2
<1>4. SubSeq(sent, 1, k) \in Seq(Message) /\ Len(SubSeq(sent, 1, k)) = k
  BY <1>1, <1>3, SubSeqProperties
<1> QED
  BY <1>1, <1>2, <1>3, <1>4 DEF Receive

LEMMA InitIInv == Init => IInv
<1> SUFFICES ASSUME Init PROVE IInv
  OBVIOUS
<1>1. <<>> \in Seq(Message) /\ Len(<<>>) = 0 /\ 0 \in Time /\ 0 \in 0..MaxConnect
  BY ChatAssumption DEF Time
<1>2. TypeOK
  <2>1. /\ sent \in Seq(Message) /\ received \in Seq(Message) /\ broken \in BOOLEAN
    BY <1>1 DEF Init, In!Init
  <2>2. /\ requestCache \in [Time -> Call \cup {None}]
        /\ id \in [Call -> Time] /\ on \in [Call -> 0..MaxConnect]
        /\ got \in [Call -> SUBSET Call] /\ login \in BOOLEAN
    BY <1>1 DEF Init
  <2>3. /\ step \in [Call -> {"new", "write", "put", "done", "failed", "dropped"}]
        /\ asked \subseteq Call /\ early \subseteq Call
        /\ accepted \subseteq Conn /\ refused \subseteq Conn /\ thrown \subseteq Call
        /\ handling \in [Conn -> Call \cup {None}]
        /\ resting \subseteq {n \in Conn : handling[n] # None}
    BY DEF Init
  <2> QED
    BY <1>1, <2>1, <2>2, <2>3 DEF Init, TypeOK
<1>3. Fresh /\ Called /\ Handled /\ OwnAnswer
  BY DEF Init, Fresh, Called, Handled, OwnAnswer, Call
<1>4. AnswersAsked
  BY <1>1 DEF Init, In!Init, AnswersAsked
<1>5. Cached
  BY DEF Init, Cached
<1> QED
  BY <1>2, <1>3, <1>4, <1>5 DEF IInv

(* A step after which every call that was written still is, under its name *)
(* and with the same answers, keeps what is said of names and answers.     *)
LEMMA WrittenStay ==
  ASSUME IInv, UNCHANGED <<got, handling>>,
         \A c \in Call : step[c] \in {"put", "done"} =>
             /\ id'[c] = id[c]
             /\ step'[c] \in {"put", "done"} /\ (step[c] = "done" => step'[c] = "done")
  PROVE  Written \subseteq Written' /\ Called' /\ Handled' /\ OwnAnswer'
<1>1. Written \subseteq Written'
  BY DEF Written
<1>2. Called'
  BY DEF IInv, Called
<1>4. Handled'
  <2>1. \A n \in Conn : handling[n] \in Call \cup {None}
    BY Numbers DEF IInv
  <2> QED
    BY <2>1 DEF IInv, Handled
<1>3. ASSUME NEW c \in Call PROVE (got[c] \subseteq {c} \/ SameName(c))'
  <2>1. CASE got[c] \subseteq {c}
    BY <2>1
  <2>2. CASE ~(got[c] \subseteq {c})
    <3>1. step[c] = "done" /\ SameName(c)
      BY <2>2 DEF IInv, Called, OwnAnswer
    <3>2. PICK d \in Call \ {c} : step[d] \in {"put", "done"} /\ id[d] = id[c]
      BY <3>1 DEF SameName
    <3>3. step'[d] \in {"put", "done"} /\ id'[d] = id'[c]
      BY <3>1, <3>2
    <3> QED
      BY <3>2, <3>3 DEF SameName
  <2> QED
    BY <2>1, <2>2
<1> QED
  BY <1>1, <1>2, <1>3, <1>4 DEF OwnAnswer

(* Naming a call that has not been made.                                   *)
LEMMA Naming ==
  ASSUME IInv, NEW c \in Call, step[c] = "new", Names(c)
  PROVE  /\ now' \in Time /\ id' \in [Call -> Time] /\ step' \in [Call -> State]
         /\ step' = [step EXCEPT ![c] = "write"]
         /\ \A d \in Call \ {c} : id'[d] = id[d] /\ step'[d] = step[d]
         /\ \A d \in Call : step[d] # "new" => id'[d] = id[d] /\ step'[d] = step[d]
<1>1. step \in [Call -> State] /\ id \in [Call -> Time]
  BY Numbers DEF IInv
<1>2. now' \in Time /\ id' = [id EXCEPT ![c] = now'] /\ step' = [step EXCEPT ![c] = "write"]
  BY DEF Names
<1> QED
  BY <1>1, <1>2 DEF State

(* A step that leaves calls, answers and the cache alone.                  *)
LEMMA QuietStep ==
  ASSUME IInv, TypeOK', UNCHANGED <<sent, asked, conn, step, id, requestCache, handling, got>>
  PROVE  IInv'
  BY DEF IInv, Fresh, AnswersAsked, Cached, Called, Handled, OwnAnswer, SameName, Written

(* The application connects, or the listener for a redirect.               *)
LEMMA OpenedStep ==
  ASSUME IInv, conn < MaxConnect, Opened,
         UNCHANGED <<requestCache, handling, resting, on, answers>>
  PROVE  IInv'
<1>0. TypeOK /\ MaxConnect \in Nat /\ conn \in 0..MaxConnect
  BY Numbers DEF IInv
<1>1. conn' = conn + 1 /\ conn' \in Conn /\ conn' \in 0..MaxConnect
  BY <1>0 DEF Opened, Conn
<1>2. step[conn'] = "new" /\ conn' \in Call
  BY <1>0, <1>1 DEF IInv, Fresh, Call, Conn
<1>3. Names(conn')
  BY DEF Opened
<1>4. /\ now' \in Time /\ id' \in [Call -> Time] /\ step' \in [Call -> State]
      /\ \A d \in Call \ {conn'} : step'[d] = step[d]
      /\ \A d \in Call : step[d] # "new" => id'[d] = id[d] /\ step'[d] = step[d]
  BY <1>2, <1>3, Naming
<1>5. sent' = <<>> /\ received' = <<>> /\ broken' \in BOOLEAN /\ asked' = {}
  BY DEF Opened, In!Reconnect
<1>6. <<>> \in Seq(Message) /\ Len(<<>>) = 0
  OBVIOUS
<1>7. TypeOK'
  BY <1>0, <1>1, <1>4, <1>5, <1>6 DEF TypeOK, Opened, answers, State
<1>8. Called' /\ Handled' /\ OwnAnswer'
  BY <1>4, WrittenStay DEF answers
<1>9. Fresh'
  <2>1. ASSUME NEW n \in Conn, n > conn' PROVE step'[n] = "new"
    <3>1. n # conn' /\ n > conn /\ n \in Call
      BY <1>0, <1>1, <2>1 DEF Conn, Call
    <3> QED
      BY <1>4, <3>1 DEF IInv, Fresh
  <2> QED
    BY <2>1 DEF Fresh
<1>10. AnswersAsked'
  BY <1>5, <1>6 DEF AnswersAsked
<1>11. Cached'
  <2>1. requestCache \in [Time -> Call \cup {None}]
    BY <1>0, Numbers
  <2>2. ASSUME NEW t \in Time, requestCache[t] # None
        PROVE  step'[requestCache[t]] = "done" /\ id'[requestCache[t]] = t
    <3>1. requestCache[t] \in Call /\ step[requestCache[t]] = "done" /\ id[requestCache[t]] = t
      BY <2>1, <2>2 DEF IInv, Cached
    <3> QED
      BY <1>4, <3>1
  <2> QED
    BY <2>2 DEF Cached
<1> QED
  BY <1>7, <1>8, <1>9, <1>10, <1>11 DEF IInv

LEMMA ConnectStep == IInv /\ Connect => IInv'
<1> SUFFICES ASSUME IInv, Connect PROVE IInv'
  OBVIOUS
<1>1. CASE Opened
  BY <1>1, OpenedStep DEF Connect
<1>2. CASE NotOpened
  <2>1. TypeOK'
    BY <1>2 DEF IInv, TypeOK, Connect, NotOpened, link, answers
  <2> QED
    BY <1>2, <2>1, QuietStep DEF Connect, NotOpened, link, answers
<1> QED
  BY <1>1, <1>2 DEF Connect

LEMMA OutsideStep ==
  ASSUME IInv, CloseConnect \/ ServerFails \/ LinkBreaks
  PROVE  IInv'
<1>0. TypeOK
  BY DEF IInv
<1>1. CASE CloseConnect
  <2>1. TypeOK'
    BY <1>0, <1>1 DEF TypeOK, CloseConnect, link, server, calls, answers
  <2> QED
    BY <1>1, <2>1, QuietStep DEF CloseConnect, link, server, calls, answers
<1>2. CASE ServerFails
  <2>1. TypeOK'
    BY <1>0, <1>2 DEF TypeOK, ServerFails, link, calls, answers
  <2> QED
    BY <1>2, <2>1, QuietStep DEF ServerFails, link, calls, answers
<1>3. CASE LinkBreaks
  <2>1. TypeOK'
    BY <1>0, <1>3 DEF TypeOK, LinkBreaks, server, calls, answers
  <2> QED
    BY <1>3, <2>1, QuietStep DEF LinkBreaks, server, calls, answers
<1> QED
  BY <1>1, <1>2, <1>3

(* The server sends a message of its own or the answer to a call it has    *)
(* read.                                                                   *)
LEMMA SendStep ==
  ASSUME IInv, NEW m \in Message, In!Send(m),
         m.type # "REDIRECT" => m.to \in Written,
         asked' \subseteq asked,
         UNCHANGED <<peer, now, conn, socket, calls, on, answers>>
  PROVE  IInv'
<1>0. TypeOK /\ sent \in Seq(Message)
  BY Numbers DEF IInv
<1>1. sent' = Append(sent, m) /\ sent' \in Seq(Message)
      /\ UNCHANGED <<received, broken>>
  BY <1>0 DEF In!Send
<1>2. TypeOK'
  BY <1>0, <1>1 DEF TypeOK, calls, answers
<1>3. UNCHANGED <<conn, step, id, requestCache, handling, got, Written>>
  BY DEF calls, answers, Written
<1>4. AnswersAsked'
  <2>1. ASSUME NEW i \in 1..Len(sent'), sent'[i].type # "REDIRECT"
        PROVE  sent'[i].to \in Written
    <3>1. CASE i \in 1..Len(sent)
      <4>1. sent'[i] = sent[i]
        BY <1>0, <1>1, <3>1
      <4> QED
        BY <2>1, <3>1, <4>1 DEF IInv, AnswersAsked
    <3>2. CASE i = Len(sent) + 1
      <4>1. sent'[i] = m
        BY <1>0, <1>1, <3>2
      <4> QED
        BY <2>1, <4>1
    <3> QED
      BY <1>0, <1>1, <3>1, <3>2
  <2> QED
    BY <1>3, <2>1 DEF IInv, AnswersAsked
<1> QED
  BY <1>2, <1>3, <1>4 DEF IInv, Fresh, Cached, Called, Handled, OwnAnswer, SameName

LEMMA ServerStep ==
  ASSUME IInv, ServerRedirects \/ \E c \in Call : ServerAnswers(c)
  PROVE  IInv'
<1>1. CASE ServerRedirects
  <2>1. [type |-> "REDIRECT"] \in Message
    BY DEF Message
  <2>2. In!Send([type |-> "REDIRECT"]) /\ asked' \subseteq asked
        /\ UNCHANGED <<peer, now, conn, socket, calls, on, answers>>
    BY <1>1 DEF ServerRedirects, server
  <2> QED
    BY <2>1, <2>2, SendStep
<1>2. ASSUME NEW c \in Call, ServerAnswers(c) PROVE IInv'
  <2>1. PICK type \in {"RESPONSE", "ERROR"} : In!Send([type |-> type, to |-> c])
    BY <1>2 DEF ServerAnswers
  <2>2. [type |-> type, to |-> c] \in Message /\ [type |-> type, to |-> c].to = c
    BY DEF Message, Answer
  <2>3. c \in Written /\ asked' \subseteq asked
        /\ UNCHANGED <<peer, now, conn, socket, calls, on, answers>>
    BY <1>2 DEF ServerAnswers, IInv, AnswersAsked
  <2> QED
    BY <2>1, <2>2, <2>3, SendStep
<1> QED
  BY <1>1, <1>2

(* The caller's own steps.                                                 *)
LEMMA CallStep ==
  ASSUME IInv, NEW c \in Call,
         \/ c \in Request /\ (Name(c) \/ SendNothing(c))
         \/ Write(c) \/ Put(c)
  PROVE  IInv'
<1>0. /\ TypeOK /\ step \in [Call -> State] /\ id \in [Call -> Time] /\ asked \subseteq Call
      /\ requestCache \in [Time -> Call \cup {None}] /\ conn \in 0..MaxConnect
  BY Numbers DEF IInv
<1>1. CASE c \in Request /\ Name(c)
  <2>1. step[c] = "new" /\ Names(c)
    BY <1>1 DEF Name
  <2>2. /\ now' \in Time /\ id' \in [Call -> Time] /\ step' \in [Call -> State]
        /\ \A d \in Call \ {c} : step'[d] = step[d]
        /\ \A d \in Call : step[d] # "new" => id'[d] = id[d] /\ step'[d] = step[d]
    BY <2>1, Naming
  <2>3. UNCHANGED <<sent, received, broken, peer, asked, conn, socket, login, requestCache,
                    handling, resting, on, got, early, accepted, refused, thrown>>
    BY <1>1 DEF Name, link, server, answers
  <2>4. TypeOK'
    BY <1>0, <2>2, <2>3 DEF TypeOK, State
  <2>5. Written \subseteq Written' /\ Called' /\ Handled' /\ OwnAnswer'
    BY <2>2, <2>3, WrittenStay
  <2>6. Fresh'
    <3>1. \A n \in Conn : n # c /\ n \in Call
      BY <1>1, ChatAssumption DEF Call
    <3> QED
      BY <2>2, <2>3, <3>1 DEF IInv, Fresh
  <2>7. AnswersAsked' /\ Cached'
    BY <1>0, <2>2, <2>3, <2>5 DEF IInv, AnswersAsked, Cached
  <2> QED
    BY <2>4, <2>5, <2>6, <2>7 DEF IInv
<1>2. CASE c \in Request /\ SendNothing(c)
  <2>1. step[c] = "new" /\ step' = [step EXCEPT ![c] = "dropped"]
    BY <1>2 DEF SendNothing
  <2>2. UNCHANGED <<sent, received, broken, peer, asked, now, conn, socket, login, id,
                    requestCache, handling, resting, on, got, early, accepted, refused, thrown>>
    BY <1>2 DEF SendNothing, link, server, answers
  <2>3. /\ step' \in [Call -> State]
        /\ \A d \in Call \ {c} : step'[d] = step[d]
        /\ \A d \in Call : step[d] # "new" => step'[d] = step[d]
    BY <1>0, <2>1 DEF State
  <2>4. TypeOK'
    BY <1>0, <2>2, <2>3 DEF TypeOK, State
  <2>5. Written \subseteq Written' /\ Called' /\ Handled' /\ OwnAnswer'
    BY <2>2, <2>3, WrittenStay
  <2>6. Fresh'
    <3>1. \A n \in Conn : n # c /\ n \in Call
      BY <1>2, ChatAssumption DEF Call
    <3> QED
      BY <2>2, <2>3, <3>1 DEF IInv, Fresh
  <2>7. AnswersAsked' /\ Cached'
    BY <1>0, <2>2, <2>3, <2>5 DEF IInv, AnswersAsked, Cached
  <2> QED
    BY <2>4, <2>5, <2>6, <2>7 DEF IInv
<1>3. CASE Write(c)
  <2>1. step[c] = "write"
    BY <1>3 DEF Write
  <2>2. UNCHANGED <<sent, received, broken, peer, now, conn, socket, login, id,
                    requestCache, handling, resting, got, early, accepted, refused, thrown>>
    BY <1>3 DEF Write, link, answers
  <2>3. /\ step' \in [Call -> State]
        /\ \A d \in Call \ {c} : step'[d] = step[d]
    BY <1>0, <1>3 DEF Write, State
  <2>4. asked' \subseteq asked \cup {c} /\ (asked' # asked => step'[c] = "put")
    BY <1>0, <1>3 DEF Write
  <2>5. on' \in [Call -> 0..MaxConnect]
    BY <1>0, <1>3 DEF Write, TypeOK
  <2>6. TypeOK'
    BY <1>0, <2>2, <2>3, <2>4, <2>5 DEF TypeOK, State
  <2>7. Written \subseteq Written' /\ Called' /\ Handled' /\ OwnAnswer'
    BY <2>1, <2>2, <2>3, WrittenStay
  <2>8. Fresh'
    <3>1. \A n \in Conn : n > conn => n # c /\ n \in Call
      BY <2>1 DEF IInv, Fresh, Call
    <3> QED
      BY <2>2, <2>3, <3>1 DEF IInv, Fresh
  <2>9. AnswersAsked'
    <3>1. asked' \subseteq Written'
      BY <1>0, <2>4, <2>7 DEF IInv, AnswersAsked, Written
    <3> QED
      BY <2>2, <2>7, <3>1 DEF IInv, AnswersAsked
  <2>10. Cached'
    BY <1>0, <2>1, <2>2, <2>3 DEF IInv, Cached
  <2> QED
    BY <2>6, <2>7, <2>8, <2>9, <2>10 DEF IInv
<1>4. CASE Put(c)
  <2>1. /\ step[c] = "put" /\ step' = [step EXCEPT ![c] = "done"]
        /\ requestCache' = [requestCache EXCEPT ![id[c]] = c]
    BY <1>4 DEF Put
  <2>2. UNCHANGED <<sent, received, broken, peer, asked, now, conn, socket, login, id,
                    handling, resting, on, got, early, accepted, refused, thrown>>
    BY <1>4 DEF Put, link, server, answers
  <2>3. /\ step' \in [Call -> State] /\ step'[c] = "done"
        /\ \A d \in Call \ {c} : step'[d] = step[d]
    BY <1>0, <2>1 DEF State
  <2>4. /\ requestCache' \in [Time -> Call \cup {None}]
        /\ \A t \in Time : requestCache'[t] = IF t = id[c] THEN c ELSE requestCache[t]
    BY <1>0, <2>1
  <2>5. TypeOK'
    BY <1>0, <2>2, <2>3, <2>4 DEF TypeOK, State
  <2>6. Written \subseteq Written' /\ Called' /\ Handled' /\ OwnAnswer'
    BY <2>1, <2>2, <2>3, WrittenStay
  <2>7. Fresh'
    <3>1. \A n \in Conn : n > conn => n # c /\ n \in Call
      BY <2>1 DEF IInv, Fresh, Call
    <3> QED
      BY <2>2, <2>3, <3>1 DEF IInv, Fresh
  <2>8. AnswersAsked'
    BY <2>2, <2>6 DEF IInv, AnswersAsked
  <2>9. Cached'
    BY <1>0, <2>2, <2>3, <2>4 DEF IInv, Cached
  <2> QED
    BY <2>5, <2>6, <2>7, <2>8, <2>9 DEF IInv
<1> QED
  BY <1>1, <1>2, <1>3, <1>4

(* A listener hands an answer to the handler it finds.                     *)
LEMMA AnswerStep ==
  ASSUME IInv, NEW n \in Conn, ListenAnswer(n)
  PROVE  IInv'
<1>0. /\ TypeOK /\ step \in [Call -> State] /\ id \in [Call -> Time] /\ sent \in Seq(Message)
      /\ requestCache \in [Time -> Call \cup {None}] /\ got \in [Call -> SUBSET Call]
      /\ handling \in [Conn -> Call \cup {None}]
  BY Numbers DEF IInv
<1> PICK k \in Given(n) : AnswerOf(n, k)
  BY DEF ListenAnswer, AnswerOf
<1>1. received' \in Seq(Message) /\ UNCHANGED <<sent, broken>>
      /\ k \in 1..Len(sent) /\ sent[k] \in Message
  BY <1>0, GivenTypes DEF AnswerOf
<1> DEFINE c == sent[k].to
           handler == requestCache[id[c]]
<1>3. c \in Call /\ step[c] \in {"put", "done"}
  <2>1. sent[k].type # "REDIRECT"
    BY DEF AnswerOf
  <2>2. c \in Call
    BY <1>1, <2>1, AnswerTypes
  <2>3. c \in Written
    BY <1>1, <2>1 DEF IInv, AnswersAsked
  <2> QED
    BY <2>2, <2>3 DEF Written
<1>4. id[c] \in Time /\ handler \in Call \cup {None}
  BY <1>0, <1>3
<1>6. UNCHANGED <<peer, asked, now, conn, socket, step, id, requestCache, on, thrown>>
  BY DEF AnswerOf, server
<1>7. early' \subseteq Call
  <2>1. early' = IF step[c] = "put" THEN early \cup {c} ELSE early
    BY DEF AnswerOf
  <2> QED
    BY <1>0, <1>3, <2>1 DEF TypeOK
<1> HIDE DEF c
<1>8. CASE handler = None
  <2>1. UNCHANGED <<got, handling, login, resting, accepted, refused>>
    BY <1>8 DEF AnswerOf, HandlerOf, c
  <2>2. TypeOK'
    BY <1>0, <1>1, <1>6, <1>7, <2>1 DEF TypeOK
  <2> QED
    BY <1>1, <1>6, <2>1, <2>2, QuietStep
<1>9. CASE handler # None
  <2>0. handler \in Call /\ step[handler] = "done" /\ id[handler] = id[c]
    BY <1>4, <1>9 DEF IInv, Cached
  <2>1. /\ got' = [got EXCEPT ![handler] = @ \cup {c}]
        /\ handling' = [handling EXCEPT ![n] = handler]
    BY <1>9 DEF AnswerOf, HandlerOf, c
  <2>2. /\ accepted' \in {accepted, accepted \cup ({handler} \cap Conn)}
        /\ refused' \in {refused, refused \cup ({handler} \cap Conn)}
        /\ login' \in {login, login \/ {handler} \cap Conn # {}}
        /\ resting' \in {resting, resting \cup {n}}
    BY <1>9 DEF AnswerOf, HandlerOf, c
  <2>3. /\ handling' \in [Conn -> Call \cup {None}] /\ handling'[n] # None
        /\ \A m \in Conn \ {n} : handling'[m] = handling[m]
    BY <1>0, <1>9, <2>0, <2>1
  <2>4. got' \in [Call -> SUBSET Call]
    BY <1>0, <1>3, <2>0, <2>1
  <2>5. accepted' \subseteq Conn /\ refused' \subseteq Conn /\ login' \in BOOLEAN
        /\ resting' \subseteq {m \in Conn : handling'[m] # None}
    BY <1>0, <2>2, <2>3 DEF TypeOK
  <2>6. TypeOK'
    BY <1>0, <1>1, <1>6, <1>7, <2>3, <2>4, <2>5 DEF TypeOK
  <2>7. Fresh' /\ AnswersAsked' /\ Cached'
    BY <1>1, <1>6 DEF IInv, Fresh, AnswersAsked, Written, Cached
  <2>8. Handled'
    BY <1>0, <1>6, <2>0, <2>1 DEF IInv, Handled
  <2>9. \A d \in Call : got'[d] = IF d = handler THEN got[d] \cup {c} ELSE got[d]
    BY <1>0, <2>1
  <2>10. Called'
    BY <1>6, <2>0, <2>9 DEF IInv, Called
  <2>11. OwnAnswer'
    <3>1. ASSUME NEW d \in Call PROVE (got[d] \subseteq {d} \/ SameName(d))'
      <4>1. SameName(d) => SameName(d)'
        BY <1>6 DEF SameName
      <4>2. CASE d # handler
        BY <2>9, <4>1, <4>2 DEF IInv, OwnAnswer
      <4>3. CASE d = handler /\ c = d
        BY <2>9, <4>1, <4>3 DEF IInv, OwnAnswer
      <4>4. CASE d = handler /\ c # d
        BY <1>3, <1>6, <2>0, <4>4 DEF SameName
      <4> QED
        BY <4>2, <4>3, <4>4
    <3> QED
      BY <3>1 DEF OwnAnswer
  <2> QED
    BY <2>6, <2>7, <2>8, <2>10, <2>11 DEF IInv
<1> QED
  BY <1>8, <1>9

(* A handler wakes, returns or throws.                                     *)
LEMMA HandleStep ==
  ASSUME IInv, NEW n \in Conn, Handle(n)
  PROVE  IInv'
<1>0. /\ TypeOK /\ id \in [Call -> Time] /\ requestCache \in [Time -> Call \cup {None}]
      /\ handling \in [Conn -> Call \cup {None}] /\ None \notin Call
  BY Numbers, ChatAssumption DEF IInv
<1>1. CASE Wake(n)
  <2>1. TypeOK'
    BY <1>0, <1>1 DEF TypeOK, Wake, link, server, answers
  <2> QED
    BY <1>1, <2>1, QuietStep DEF Wake, link, server, answers
<1>2. CASE HandlerReturns(n)
  <2>1. /\ handling[n] \in Call /\ n \notin resting
        /\ requestCache' = [requestCache EXCEPT ![id[handling[n]]] = None]
        /\ handling' = [handling EXCEPT ![n] = None]
        /\ UNCHANGED <<sent, received, broken, peer, asked, now, conn, socket, login, step, id,
                       resting, on, got, early, accepted, refused, thrown>>
    BY <1>0, <1>2 DEF HandlerReturns, Remove, link, server, answers
  <2>2. id[handling[n]] \in Time
    BY <1>0, <2>1
  <2>3. /\ requestCache' \in [Time -> Call \cup {None}]
        /\ \A t \in Time : requestCache'[t] \in {None, requestCache[t]}
    BY <1>0, <2>1, <2>2
  <2>4. /\ handling' \in [Conn -> Call \cup {None}]
        /\ \A m \in Conn : handling'[m] = IF m = n THEN None ELSE handling[m]
    BY <1>0, <2>1
  <2>5. resting' \subseteq {m \in Conn : handling'[m] # None}
    BY <1>0, <2>1, <2>4 DEF TypeOK
  <2>6. TypeOK'
    BY <1>0, <2>1, <2>3, <2>4, <2>5 DEF TypeOK
  <2>7. Fresh' /\ AnswersAsked' /\ Called' /\ OwnAnswer'
    BY <2>1 DEF IInv, Fresh, AnswersAsked, Written, Called, OwnAnswer, SameName
  <2>8. Cached'
    BY <2>1, <2>3 DEF IInv, Cached
  <2>9. Handled'
    BY <2>1, <2>4 DEF IInv, Handled
  <2> QED
    BY <2>6, <2>7, <2>8, <2>9 DEF IInv
<1>3. CASE HandlerThrows(n)
  <2>1. /\ handling' = [handling EXCEPT ![n] = None] /\ resting' = resting \ {n}
        /\ thrown' = thrown \cup {handling[n]} /\ broken' \in {broken, TRUE}
        /\ UNCHANGED <<sent, received, peer, asked, now, conn, socket, login, step, id,
                       requestCache, on, got, early, accepted, refused>>
    BY <1>3 DEF HandlerThrows, server
  <2>2. handling[n] \in Call
    <3>1. handling[n] \in Request \/ n \in resting
      BY <1>3 DEF HandlerThrows
    <3> QED
      BY <1>0, <3>1 DEF TypeOK, Call
  <2>4. /\ handling' \in [Conn -> Call \cup {None}]
        /\ \A m \in Conn : handling'[m] = IF m = n THEN None ELSE handling[m]
    BY <1>0, <2>1
  <2>5. resting' \subseteq {m \in Conn : handling'[m] # None}
    BY <1>0, <2>1, <2>4 DEF TypeOK
  <2>6. TypeOK'
    BY <1>0, <2>1, <2>2, <2>4, <2>5 DEF TypeOK
  <2>7. Fresh' /\ AnswersAsked' /\ Cached' /\ Called' /\ OwnAnswer'
    BY <2>1 DEF IInv, Fresh, AnswersAsked, Written, Cached, Called, OwnAnswer, SameName
  <2>9. Handled'
    BY <2>1, <2>4 DEF IInv, Handled
  <2> QED
    BY <2>6, <2>7, <2>9 DEF IInv
<1> QED
  BY <1>1, <1>2, <1>3 DEF Handle

LEMMA RedirectStep ==
  ASSUME IInv, NEW n \in Conn, ListenRedirect(n)
  PROVE  IInv'
<1>0. PICK k \in Given(n) :
        /\ conn < MaxConnect /\ UNCHANGED <<requestCache, handling, resting, on, answers>>
        /\ \/ Opened
           \/ Receive(k) /\ socket' = "closed" /\ UNCHANGED <<conn, peer, asked, login, step, id, now>>
  BY DEF ListenRedirect
<1>1. CASE Opened
  BY <1>0, <1>1, OpenedStep
<1>2. CASE ~Opened
  <2>1. received' \in Seq(Message) /\ UNCHANGED <<sent, broken>>
    BY <1>0, <1>2, GivenTypes DEF IInv
  <2>3. TypeOK'
    BY <1>0, <1>2, <2>1 DEF IInv, TypeOK, answers
  <2> QED
    BY <1>0, <1>2, <2>1, <2>3, QuietStep DEF answers
<1> QED
  BY <1>1, <1>2

LEMMA StutterStep == IInv /\ UNCHANGED vars => IInv'
<1> SUFFICES ASSUME IInv, UNCHANGED vars PROVE IInv'
  OBVIOUS
<1>1. TypeOK'
  BY DEF IInv, TypeOK, vars, link, server, calls, answers
<1> QED
  BY <1>1, QuietStep DEF vars, link, server, calls, answers

LEMMA NextIInv == IInv /\ [Next]_vars => IInv'
<1>1. \A r \in Request : r \in Call
  BY DEF Call
<1> QED
  BY <1>1, ConnectStep, OutsideStep, ServerStep, CallStep, AnswerStep, HandleStep, RedirectStep,
     StutterStep DEF Next, Listen

-----------------------------------------------------------------------------
(* What the cache waits for, kept beside IInv.  A call was written on this *)
(* connection or on an earlier one.                                        *)
OnPast == \A c \in Call : on[c] <= conn

(* Why a handler may wait in vain.                                         *)
Excused(c) == c \in early \/ SameName(c) \/ c \in thrown \/ on[c] # conn \/ broken

(* A call that was written is to be answered, or was and has left the      *)
(* cache, unless excused.                                                  *)
Waits(c) ==
    step[c] \in {"put", "done"} =>
        \/ OnItsWay(c) \/ Excused(c)
        \/ step[c] = "done" /\ \A t \in Time : requestCache[t] # c

(* The listener reads what was sent.                                       *)
ReadPast == Len(received) <= Len(sent)

WInv == OnPast /\ ReadPast /\ \A c \in Call : Waits(c)

(* Calls that were written stay so, under their names.                     *)
WrittenKept == \A c \in Call : step[c] \in {"put", "done"} =>
    step'[c] \in {"put", "done"} /\ id'[c] = id[c] /\ on'[c] = on[c]

(* A call that the step neither answers nor puts waits as before.          *)
LEMMA StillWaits ==
  ASSUME WInv, WrittenKept, NEW c \in Call, step'[c] = step[c], conn' = conn,
         early \subseteq early', thrown \subseteq thrown', broken => broken',
         OnItsWay(c) => OnItsWay(c)',
         \A t \in Time : requestCache'[t] = c => requestCache[t] = c
  PROVE  Waits(c)'
<1>1. CASE step[c] \notin {"put", "done"}
  BY <1>1 DEF Waits
<1>2. CASE step[c] \in {"put", "done"}
  <2>1. \/ OnItsWay(c) \/ Excused(c)
        \/ step[c] = "done" /\ \A t \in Time : requestCache[t] # c
    BY <1>2 DEF WInv, Waits
  <2>2. SameName(c) => SameName(c)'
    BY <1>2 DEF WrittenKept, SameName
  <2>3. Excused(c) => Excused(c)'
    BY <1>2, <2>2 DEF WrittenKept, Excused
  <2> QED
    BY <2>1, <2>3 DEF Waits
<1> QED
  BY <1>1, <1>2

(* A step of another thread that takes nothing from the stream.            *)
LEMMA OthersWait ==
  ASSUME WInv, broken => broken',
         UNCHANGED <<asked, sent, received, conn, step, id, requestCache, handling, on, early, thrown>>
  PROVE  WInv'
<1>1. OnPast' /\ ReadPast'
  BY DEF WInv, OnPast, ReadPast
<1>2. ASSUME NEW c \in Call PROVE Waits(c)'
  <2>1. OnItsWay(c)' = OnItsWay(c)
    BY DEF OnItsWay
  <2> QED
    BY <2>1, StillWaits DEF WrittenKept
<1> QED
  BY <1>1, <1>2 DEF WInv

(* A new connection: whatever was written was written on an earlier one.   *)
LEMMA OpenedWaits ==
  ASSUME IInv, WInv, conn < MaxConnect, Opened, UNCHANGED <<requestCache, handling, resting, on, answers>>
  PROVE  WInv'
<1>1. TypeOK /\ MaxConnect \in Nat /\ conn \in 0..MaxConnect /\ conn' = conn + 1
  BY Numbers DEF IInv, Opened
<1>2. conn' \in Conn /\ conn' \in Call /\ step[conn'] = "new"
  BY <1>1 DEF IInv, Fresh, Conn, Call
<1>3. on \in [Call -> 0..MaxConnect] /\ on' = on
  BY <1>1 DEF TypeOK
<1>4. \A c \in Call : on'[c] < conn'
  <2> SUFFICES ASSUME NEW c \in Call PROVE on[c] < conn + 1
    BY <1>1, <1>3
  <2>1. on[c] \in 0..MaxConnect /\ on[c] <= conn
    BY <1>3 DEF WInv, OnPast
  <2> QED
    BY <1>1, <2>1
<1>5. \A c \in Call : on'[c] <= conn' /\ on'[c] # conn'
  <2> SUFFICES ASSUME NEW c \in Call PROVE on'[c] <= conn' /\ on'[c] # conn'
    OBVIOUS
  <2>1. on'[c] < conn' /\ on'[c] \in 0..MaxConnect /\ conn' \in 0..(MaxConnect + 1)
    BY <1>1, <1>3, <1>4
  <2> QED
    BY <1>1, <2>1
<1>6. ReadPast'
  <2>1. sent' = <<>> /\ received' = <<>> /\ Len(<<>>) = 0
    BY DEF Opened, In!Reconnect
  <2> QED
    BY <2>1 DEF ReadPast
<1> QED
  BY <1>5, <1>6 DEF WInv, OnPast, Waits, Excused

(* The server sends: what was on its way still is, and an answer is.       *)
LEMMA SentWaits ==
  ASSUME IInv, WInv, NEW m \in Message, In!Send(m),
         UNCHANGED <<peer, now, conn, socket, calls, on, answers>>,
         asked' \subseteq asked,
         \A c \in asked \ asked' : m.type # "REDIRECT" /\ m.to = c
  PROVE  WInv'
<1>1. sent \in Seq(Message) /\ received \in Seq(Message) /\ sent' = Append(sent, m) /\ received' = received
  BY DEF IInv, TypeOK, In!Send
<1>2. UNCHANGED <<step, id, requestCache, handling, early, thrown, broken>>
  BY DEF calls, answers, In!Send
<1>3. Len(sent') = Len(sent) + 1 /\ sent'[Len(sent) + 1] = m
      /\ \A i \in 1..Len(sent) : sent'[i] = sent[i]
  BY <1>1
<1>4. Len(sent) \in Nat /\ Len(received) \in Nat /\ Len(received) <= Len(sent)
  BY <1>1 DEF WInv, ReadPast
<1>5. ASSUME NEW c \in Call, OnItsWay(c) PROVE OnItsWay(c)'
  <2>1. CASE c \in asked'
    BY <2>1 DEF OnItsWay
  <2>2. CASE c \in asked \ asked'
    <3>1. Len(sent) + 1 \in Len(received) + 1 .. Len(sent')
      BY <1>3, <1>4
    <3> QED
      BY <1>1, <1>3, <2>2, <3>1 DEF OnItsWay
  <2>3. CASE c \notin asked /\ \E n \in Conn : handling[n] = c
    BY <1>2, <2>3 DEF OnItsWay
  <2>4. CASE c \notin asked /\ ~\E n \in Conn : handling[n] = c
    <3>1. PICK i \in Len(received) + 1 .. Len(sent) : sent[i].type # "REDIRECT" /\ sent[i].to = c
      BY <1>5, <2>4 DEF OnItsWay
    <3>2. i \in Len(received) + 1 .. Len(sent') /\ sent'[i] = sent[i]
      BY <1>3, <1>4
    <3> QED
      BY <1>1, <3>1, <3>2 DEF OnItsWay
  <2> QED
    BY <2>1, <2>2, <2>3, <2>4
<1>6. OnPast' /\ ReadPast'
  BY <1>1, <1>3, <1>4 DEF WInv, OnPast, ReadPast
<1>7. ASSUME NEW c \in Call PROVE Waits(c)'
  BY <1>2, <1>5, StillWaits DEF WrittenKept
<1> QED
  BY <1>6, <1>7 DEF WInv

LEMMA ServerWaits ==
  ASSUME IInv, WInv, ServerRedirects \/ \E c \in Call : ServerAnswers(c)
  PROVE  WInv'
<1>1. CASE ServerRedirects
  <2> DEFINE m == [type |-> "REDIRECT"]
  <2>1. m \in Message /\ In!Send(m) /\ asked' = asked
        /\ UNCHANGED <<peer, now, conn, socket, calls, on, answers>>
    BY <1>1 DEF ServerRedirects, server, Message
  <2> HIDE DEF m
  <2> QED
    BY <2>1, SentWaits
<1>2. ASSUME NEW c \in Call, ServerAnswers(c) PROVE WInv'
  <2>1. PICK type \in {"RESPONSE", "ERROR"} : In!Send([type |-> type, to |-> c])
    BY <1>2 DEF ServerAnswers
  <2> DEFINE m == [type |-> type, to |-> c]
  <2>2. m \in Message /\ m.to = c /\ m.type # "REDIRECT"
    BY DEF Message, Answer
  <2>3. In!Send(m) /\ asked' = asked \ {c} /\ UNCHANGED <<peer, now, conn, socket, calls, on, answers>>
    BY <1>2, <2>1 DEF ServerAnswers
  <2> HIDE DEF m
  <2> QED
    BY <2>2, <2>3, SentWaits
<1> QED
  BY <1>1, <1>2

(* The caller's own steps: what it writes is asked, and what it puts under *)
(* its name was.                                                           *)
LEMMA CallWaits ==
  ASSUME IInv, WInv, NEW c \in Call,
         \/ c \in Request /\ (Name(c) \/ SendNothing(c))
         \/ Write(c) \/ Put(c)
  PROVE  WInv'
<1>0. /\ TypeOK /\ step \in [Call -> State] /\ id \in [Call -> Time] /\ conn \in 0..MaxConnect
      /\ requestCache \in [Time -> Call \cup {None}] /\ on \in [Call -> 0..MaxConnect]
  BY Numbers DEF IInv, TypeOK
<1>1. UNCHANGED <<sent, received, broken, conn, handling, early, thrown>>
  BY DEF Name, SendNothing, Write, Put, link, server, answers
<1>2. ReadPast'
  BY <1>1 DEF WInv, ReadPast
<1>3. OnItsWay(c) => OnItsWay(c)'
  BY <1>1 DEF OnItsWay, Name, SendNothing, Write, Put, server
<1>4. \A d \in Call : OnItsWay(d) => OnItsWay(d)'
  BY <1>1 DEF OnItsWay, Name, SendNothing, Write, Put, server
<1>5. CASE c \in Request /\ (Name(c) \/ SendNothing(c))
  <2>1. step[c] = "new" /\ on' = on /\ requestCache' = requestCache
    BY <1>5 DEF Name, SendNothing
  <2>2. /\ step'[c] \in {"write", "dropped"}
        /\ \A d \in Call \ {c} : step'[d] = step[d] /\ id'[d] = id[d]
    <3>1. CASE Name(c)
      BY <1>0, <2>1, <3>1, Naming DEF Name, Names
    <3>2. CASE SendNothing(c)
      BY <1>0, <3>2 DEF SendNothing
    <3> QED
      BY <1>5, <3>1, <3>2
  <2>3. WrittenKept
    BY <2>1, <2>2 DEF WrittenKept
  <2>4. Waits(c)'
    BY <2>2 DEF Waits
  <2>5. ASSUME NEW d \in Call \ {c} PROVE Waits(d)'
    BY <1>1, <1>4, <2>1, <2>2, <2>3, StillWaits
  <2> QED
    BY <1>1, <1>2, <2>1, <2>4, <2>5 DEF WInv, OnPast
<1>6. CASE Write(c)
  <2>1. /\ step[c] = "write" /\ id' = id /\ requestCache' = requestCache
        /\ \A d \in Call \ {c} : step'[d] = step[d] /\ on'[d] = on[d]
        /\ \/ step'[c] = "put" /\ asked' = asked \cup {c} /\ on'[c] = conn
           \/ step'[c] = "failed" /\ on' = on
    BY <1>0, <1>6 DEF Write
  <2>2. WrittenKept
    BY <2>1 DEF WrittenKept
  <2>3. Waits(c)'
    BY <2>1 DEF Waits, OnItsWay
  <2>4. ASSUME NEW d \in Call \ {c} PROVE Waits(d)'
    BY <1>1, <1>4, <2>1, <2>2, StillWaits
  <2>5. OnPast'
    <3> SUFFICES ASSUME NEW d \in Call PROVE on'[d] <= conn
      BY <1>1 DEF OnPast
    <3>1. on[d] <= conn /\ conn <= conn
      BY <1>0 DEF WInv, OnPast
    <3> QED
      BY <2>1, <3>1
  <2> QED
    BY <1>2, <2>3, <2>4, <2>5 DEF WInv
<1>7. CASE Put(c)
  <2>1. /\ step[c] = "put" /\ id' = id /\ on' = on /\ step'[c] = "done"
        /\ \A d \in Call \ {c} : step'[d] = step[d]
        /\ \A t \in Time : requestCache'[t] \in {c, requestCache[t]}
    BY <1>0, <1>7 DEF Put
  <2>2. WrittenKept
    BY <2>1 DEF WrittenKept
  <2>3. Waits(c)'
    <3>1. OnItsWay(c) \/ Excused(c)
      BY <2>1 DEF WInv, Waits
    <3>2. SameName(c) => SameName(c)'
      BY <2>1, <2>2 DEF WrittenKept, SameName
    <3> QED
      BY <1>1, <1>4, <2>1, <3>1, <3>2 DEF Waits, Excused
  <2>4. ASSUME NEW d \in Call \ {c} PROVE Waits(d)'
    BY <1>1, <1>4, <2>1, <2>2, StillWaits
  <2> QED
    BY <1>1, <1>2, <2>1, <2>3, <2>4 DEF WInv, OnPast
<1> QED
  BY <1>5, <1>6, <1>7

(* The next message is read: of the calls only the one it answers, if any, *)
(* is no longer on its way.                                                *)
LEMMA ReadOne ==
  ASSUME IInv, NEW n \in Conn, NEW k \in Given(n), Receive(k), asked' = asked,
         NEW c \in Call, OnItsWay(c), ~broken, \A m \in Conn : handling[m] = c => handling'[m] = c
  PROVE  OnItsWay(c)' \/ (sent[k].type # "REDIRECT" /\ sent[k].to = c)
<1>1. /\ k = Len(received) + 1 /\ Len(received') = k /\ sent' = sent
      /\ Len(received) \in Nat /\ Len(sent) \in Nat
  BY GivenTypes DEF IInv
<1>2. CASE c \in asked
  BY <1>2 DEF OnItsWay
<1>3. CASE \E m \in Conn : handling[m] = c
  BY <1>3 DEF OnItsWay
<1>4. ASSUME NEW i \in Len(received) + 1 .. Len(sent), sent[i].type # "REDIRECT", sent[i].to = c,
             ~(sent[k].type # "REDIRECT" /\ sent[k].to = c)
      PROVE  OnItsWay(c)'
  <2>1. i # k
    BY <1>4
  <2>2. i \in Len(received') + 1 .. Len(sent')
    BY <1>1, <2>1
  <2> QED
    BY <1>1, <1>4, <2>2 DEF OnItsWay
<1> QED
  BY <1>2, <1>3, <1>4 DEF OnItsWay

(* The answer is read: a listener is in the handler of its call.           *)
LEMMA AnswerWaits ==
  ASSUME IInv, WInv, NEW n \in Conn, ListenAnswer(n)
  PROVE  WInv'
<1>0. /\ TypeOK /\ step \in [Call -> State] /\ id \in [Call -> Time] /\ sent \in Seq(Message)
      /\ requestCache \in [Time -> Call \cup {None}] /\ None \notin Call
      /\ handling \in [Conn -> Call \cup {None}]
  BY Numbers, ChatAssumption DEF IInv
<1> PICK k \in Given(n) : AnswerOf(n, k)
  BY DEF ListenAnswer
<1>1. /\ Receive(k) /\ k \in 1..Len(sent) /\ sent[k] \in Message /\ sent[k].type # "REDIRECT"
      /\ UNCHANGED <<asked, conn, step, id, requestCache, on, thrown, sent, broken>>
      /\ handling[n] = None
  BY <1>0, GivenTypes DEF AnswerOf, server
<1>2. PICK c \in Call : c = sent[k].to /\ step[c] \in {"put", "done"}
  <2>1. sent[k].to \in Written
    BY <1>1 DEF IInv, AnswersAsked
  <2> QED
    BY <1>1, <2>1, AnswerTypes DEF Written
<1>3. ReadPast'
  BY <1>0, <1>1, GivenTypes DEF ReadPast
<1>4. early' = IF step[c] = "put" THEN early \cup {c} ELSE early
  BY <1>2 DEF AnswerOf
<1>5. IF requestCache[id[c]] = None THEN handling' = handling
      ELSE handling' = [handling EXCEPT ![n] = requestCache[id[c]]]
  BY <1>2 DEF AnswerOf, HandlerOf
<1>6. \A d \in Call, m \in Conn : handling[m] = d => handling'[m] = d
  BY <1>0, <1>1, <1>5
<1>7. WrittenKept /\ early \subseteq early'
  BY <1>1, <1>4 DEF WrittenKept
<1>8. ASSUME NEW d \in Call \ {c} PROVE Waits(d)'
  <2>1. CASE broken
    BY <1>1, <2>1 DEF Waits, Excused
  <2>2. CASE ~broken
    <3>1. OnItsWay(d) => OnItsWay(d)'
      BY <1>1, <1>2, <1>6, <2>2, ReadOne
    <3> QED
      BY <1>1, <1>7, <3>1, StillWaits
  <2> QED
    BY <2>1, <2>2
<1>9. Waits(c)'
  <2>1. CASE step[c] = "put"
    BY <1>4, <2>1 DEF Waits, Excused
  <2>2. CASE step[c] = "done"
    <3>1. id[c] \in Time /\ requestCache[id[c]] \in Call \cup {None}
      BY <1>0
    <3>2. CASE requestCache[id[c]] = None
      <4>1. ASSUME NEW t \in Time, requestCache[t] = c PROVE FALSE
        BY <1>0, <3>2, <4>1 DEF IInv, Cached
      <4> QED
        BY <1>1, <2>2, <4>1 DEF Waits
    <3>3. CASE requestCache[id[c]] = c
      <4>1. handling'[n] = c
        BY <1>0, <1>5, <3>3
      <4> QED
        BY <4>1 DEF Waits, OnItsWay
    <3>4. CASE requestCache[id[c]] \in Call \ {c}
      <4>1. SameName(c)'
        BY <1>0, <1>1, <3>1, <3>4 DEF IInv, Cached, SameName
      <4> QED
        BY <4>1 DEF Waits, Excused
    <3> QED
      BY <3>1, <3>2, <3>3, <3>4
  <2> QED
    BY <1>2, <2>1, <2>2
<1> QED
  BY <1>1, <1>3, <1>8, <1>9 DEF WInv, OnPast

(* A handler that returns is removed under its name; one that throws is    *)
(* excused.                                                                *)
LEMMA HandleWaits ==
  ASSUME IInv, WInv, NEW n \in Conn, Handle(n)
  PROVE  WInv'
<1>0. /\ TypeOK /\ id \in [Call -> Time] /\ requestCache \in [Time -> Call \cup {None}]
      /\ handling \in [Conn -> Call \cup {None}] /\ None \notin Call
  BY Numbers, ChatAssumption DEF IInv
<1>1. CASE Wake(n)
  BY <1>1, OthersWait DEF Wake, link, server, answers
<1>2. CASE HandlerReturns(n) \/ HandlerThrows(n)
  <2>1. /\ UNCHANGED <<sent, received, asked, conn, step, id, on, early>>
        /\ thrown \subseteq thrown' /\ handling' = [handling EXCEPT ![n] = None]
    BY <1>2 DEF HandlerReturns, HandlerThrows, link, server, answers
  <2>7. broken => broken'
    BY <1>2 DEF HandlerReturns, HandlerThrows, link
  <2>2. WrittenKept /\ OnPast' /\ ReadPast'
    BY <2>1 DEF WInv, OnPast, ReadPast, WrittenKept
  <2>3. \/ requestCache' = requestCache /\ thrown' = thrown \cup {handling[n]}
        \/ requestCache' = [requestCache EXCEPT ![id[handling[n]]] = None] /\ handling[n] # None
    BY <1>2 DEF HandlerReturns, HandlerThrows, Remove
  <2>4. \A t \in Time : requestCache'[t] \in {None, requestCache[t]}
    BY <1>0, <2>3
  <2>5. ASSUME NEW c \in Call, c # handling[n] PROVE Waits(c)'
    <3>1. \A m \in Conn : handling[m] = c => handling'[m] = c
      BY <1>0, <2>1, <2>5
    <3>2. OnItsWay(c) => OnItsWay(c)'
      BY <2>1, <3>1 DEF OnItsWay
    <3>3. \A t \in Time : requestCache'[t] = c => requestCache[t] = c
      BY <1>0, <2>4
    <3> QED
      BY <2>1, <2>2, <2>7, <3>2, <3>3, StillWaits
  <2>6. ASSUME NEW c \in Call, c = handling[n] PROVE Waits(c)'
    <3>1. CASE c \in thrown'
      BY <3>1 DEF Waits, Excused
    <3>2. CASE c \notin thrown'
      <4>1. requestCache' = [requestCache EXCEPT ![id[c]] = None] /\ step[c] = "done" /\ id[c] \in Time
        BY <1>0, <2>3, <2>6, <3>2 DEF IInv, Handled
      <4>2. ASSUME NEW t \in Time, requestCache'[t] = c PROVE FALSE
        <5>1. requestCache[t] = c
          BY <1>0, <2>4, <4>2
        <5>2. id[c] = t
          BY <1>0, <5>1 DEF IInv, Cached
        <5> QED
          BY <1>0, <4>1, <4>2, <5>2
      <4> QED
        BY <2>1, <4>1, <4>2 DEF Waits
    <3> QED
      BY <3>1, <3>2
  <2> QED
    BY <2>2, <2>5, <2>6 DEF WInv
<1> QED
  BY <1>1, <1>2 DEF Handle

(* A redirect is read: it answers nobody.                                  *)
LEMMA RedirectWaits ==
  ASSUME IInv, WInv, NEW n \in Conn, ListenRedirect(n)
  PROVE  WInv'
<1>0. PICK k \in Given(n) :
        /\ sent[k].type = "REDIRECT"
        /\ conn < MaxConnect /\ UNCHANGED <<requestCache, handling, resting, on, answers>>
        /\ \/ Opened
           \/ Receive(k) /\ socket' = "closed" /\ UNCHANGED <<conn, peer, asked, login, step, id, now>>
  BY DEF ListenRedirect
<1>1. CASE Opened
  BY <1>0, <1>1, OpenedWaits
<1>2. CASE ~Opened
  <2>1. Receive(k) /\ UNCHANGED <<conn, step, id, asked, requestCache, handling, on, early, thrown>>
    BY <1>0, <1>2 DEF answers
  <2>2. ReadPast' /\ UNCHANGED <<sent, broken>>
    BY <2>1, GivenTypes DEF ReadPast, IInv
  <2>3. ASSUME NEW c \in Call PROVE Waits(c)'
    <3>1. CASE broken
      BY <2>2, <3>1 DEF Waits, Excused
    <3>2. CASE ~broken
      <4>1. OnItsWay(c) => OnItsWay(c)'
        BY <1>0, <2>1, <3>2, ReadOne
      <4> QED
        BY <2>1, <2>2, <4>1, StillWaits DEF WrittenKept
    <3> QED
      BY <3>1, <3>2
  <2> QED
    BY <2>1, <2>2, <2>3 DEF WInv, OnPast
<1> QED
  BY <1>1, <1>2

LEMMA InitWInv == Init => WInv
<1> SUFFICES ASSUME Init PROVE WInv
  OBVIOUS
<1>1. Len(<<>>) = 0
  OBVIOUS
<1>2. OnPast /\ ReadPast
  BY <1>1 DEF Init, In!Init, OnPast, ReadPast
<1>3. \A c \in Call : Waits(c)
  BY DEF Init, Waits
<1> QED
  BY <1>2, <1>3 DEF WInv

LEMMA NextWInv == IInv /\ WInv /\ [Next]_vars => WInv'
<1> SUFFICES ASSUME IInv, WInv, [Next]_vars PROVE WInv'
  OBVIOUS
<1>1. CASE Connect
  <2>1. CASE Opened
    BY <1>1, <2>1, OpenedWaits DEF Connect
  <2>2. CASE NotOpened
    BY <1>1, <2>2, OthersWait DEF Connect, NotOpened, link, answers
  <2> QED
    BY <1>1, <2>1, <2>2 DEF Connect
<1>2. CASE CloseConnect
  BY <1>2, OthersWait DEF CloseConnect, link, server, calls, answers
<1>3. CASE ServerFails
  BY <1>3, OthersWait DEF ServerFails, link, calls, answers
<1>4. CASE LinkBreaks
  BY <1>4, OthersWait DEF LinkBreaks, server, calls, answers
<1>6. CASE UNCHANGED vars
  BY <1>6, OthersWait DEF vars, link, server, calls, answers
<1>7. \A r \in Request : r \in Call
  BY DEF Call
<1> QED
  BY <1>1, <1>2, <1>3, <1>4, <1>6, <1>7, ServerWaits, CallWaits, AnswerWaits, HandleWaits, RedirectWaits
     DEF Next, Listen

-----------------------------------------------------------------------------
(* How a SIGN_IN was answered, kept beside IInv.  No call has two answers, *)
(* and none that is answered is still to be.                               *)
Answers(i, c) == sent[i].type # "REDIRECT" /\ sent[i].to = c

Once == \A i \in 1..Len(sent) : \A c \in Call : Answers(i, c) =>
            c \notin asked /\ \A j \in 1..Len(sent) : Answers(j, c) => j = i

Coming(c) == c \in asked \/ \E i \in Len(received) + 1 .. Len(sent) : Answers(i, c)

(* A SIGN_IN whose handler was told will not be told again, and was told   *)
(* one thing, unless another call has the name.                            *)
ToldOnce == \A n \in accepted \cup refused :
    step[n] = "done" /\ (SameName(n) \/ (n \notin accepted \cap refused /\ ~Coming(n)))

(* A listener that sleeps does so in the handler of a refused SIGN_IN.     *)
RestsRefused == \A n \in resting : handling[n] \in refused

LInv == Once /\ ToldOnce /\ RestsRefused /\ AcceptedIsUsable

(* A step on the same connection that tells no handler.                    *)
LEMMA NobodyTold ==
  ASSUME IInv, LInv, UNCHANGED <<accepted, refused>>, conn' = conn, Once',
         resting' \subseteq resting, \A n \in resting' : handling'[n] = handling[n],
         login => login', WrittenKept, \A c \in Call : step[c] = "done" => step'[c] = "done",
         \A c \in Call : step[c] = "done" /\ Coming(c)' => Coming(c)
  PROVE  LInv'
<1>1. accepted \subseteq Call /\ refused \subseteq Call
  BY DEF IInv, TypeOK, Call
<1>2. \A c \in Call : SameName(c) /\ step[c] = "done" => SameName(c)'
  BY DEF WrittenKept, SameName
<1>3. ToldOnce'
  BY <1>1, <1>2 DEF LInv, ToldOnce
<1>4. RestsRefused'
  BY DEF LInv, RestsRefused
<1>5. AcceptedIsUsable'
  BY <1>1, <1>2 DEF LInv, AcceptedIsUsable, ToldOnce
<1> QED
  BY <1>3, <1>4, <1>5 DEF LInv

(* Where the server and the stream do not move.                            *)
LEMMA NobodyAsked ==
  ASSUME IInv, LInv, UNCHANGED <<accepted, refused, conn, sent, asked, received>>,
         resting' \subseteq resting, \A n \in resting' : handling'[n] = handling[n],
         login => login', WrittenKept, \A c \in Call : step[c] = "done" => step'[c] = "done"
  PROVE  LInv'
<1>1. Once' /\ \A c \in Call : Coming(c)' => Coming(c)
  BY DEF LInv, Once, Coming, Answers
<1> QED
  BY <1>1, NobodyTold

(* A new connection has not been answered yet.                             *)
LEMMA OpenedLogs ==
  ASSUME IInv, LInv, conn < MaxConnect, Opened,
         UNCHANGED <<requestCache, handling, resting, on, answers>>
  PROVE  LInv'
<1>1. TypeOK /\ MaxConnect \in Nat /\ conn \in 0..MaxConnect /\ conn' = conn + 1 /\ login'
  BY Numbers DEF IInv, Opened
<1>2. conn' \in Conn /\ conn' \in Call /\ step[conn'] = "new"
  BY <1>1 DEF IInv, Fresh, Conn, Call
<1>3. /\ UNCHANGED <<accepted, refused, resting, handling>>
      /\ accepted \subseteq Call /\ refused \subseteq Call
  BY <1>1 DEF TypeOK, answers, Call
<1>4. \A d \in Call : step[d] # "new" => step'[d] = step[d] /\ id'[d] = id[d]
  BY <1>2, Naming DEF Opened
<1>5. sent' = <<>> /\ received' = <<>> /\ asked' = {} /\ Len(<<>>) = 0
  BY DEF Opened, In!Reconnect
<1>6. Once' /\ \A c \in Call : ~Coming(c)'
  BY <1>5 DEF Once, Coming
<1>7. \A c \in Call : SameName(c) /\ step[c] = "done" => SameName(c)'
  BY <1>4 DEF SameName
<1>8. ToldOnce'
  BY <1>3, <1>4, <1>6, <1>7 DEF LInv, ToldOnce
<1>9. RestsRefused' /\ AcceptedIsUsable'
  BY <1>1, <1>3 DEF LInv, RestsRefused, AcceptedIsUsable
<1> QED
  BY <1>6, <1>8, <1>9 DEF LInv

(* The server answers a call once, and a call is written once.             *)
LEMMA SentLogs ==
  ASSUME IInv, LInv, NEW m \in Message, In!Send(m),
         UNCHANGED <<peer, now, conn, socket, calls, on, answers>>,
         \/ m.type = "REDIRECT" /\ asked' = asked
         \/ m.type # "REDIRECT" /\ m.to \in asked /\ asked' = asked \ {m.to}
  PROVE  LInv'
<1>1. /\ sent \in Seq(Message) /\ sent' = Append(sent, m) /\ received' = received
      /\ received \in Seq(Message)
  BY DEF IInv, TypeOK, In!Send
<1>2. /\ Len(sent') = Len(sent) + 1 /\ Len(sent) \in Nat /\ Len(received) \in Nat
      /\ sent'[Len(sent) + 1] = m /\ \A i \in 1..Len(sent) : sent'[i] = sent[i]
  BY <1>1
<1>3. \A i \in 1..Len(sent'), c \in Call : Answers(i, c)' =>
        IF i \in 1..Len(sent) THEN Answers(i, c)
        ELSE i = Len(sent) + 1 /\ c \in asked /\ asked' = asked \ {c}
  BY <1>2 DEF Answers
<1>4. Once'
  <2> SUFFICES ASSUME NEW i \in 1..Len(sent'), NEW c \in Call, Answers(i, c)'
               PROVE  c \notin asked' /\ \A j \in 1..Len(sent') : Answers(j, c)' => j = i
    BY DEF Once
  <2>1. CASE i \in 1..Len(sent)
    <3>1. Answers(i, c) /\ c \notin asked
      BY <1>3, <2>1 DEF LInv, Once
    <3>2. asked' \subseteq asked
      OBVIOUS
    <3>3. ASSUME NEW j \in 1..Len(sent'), Answers(j, c)' PROVE j = i
      <4>1. j \in 1..Len(sent) /\ Answers(j, c)
        BY <1>3, <3>1, <3>3
      <4> QED
        BY <2>1, <3>1, <4>1 DEF LInv, Once
    <3> QED
      BY <3>1, <3>2, <3>3
  <2>2. CASE i \notin 1..Len(sent)
    <3>1. i = Len(sent) + 1 /\ c \in asked /\ asked' = asked \ {c}
      BY <1>3, <2>2
    <3>2. ASSUME NEW j \in 1..Len(sent'), Answers(j, c)' PROVE j = i
      <4>1. j \notin 1..Len(sent)
        BY <1>3, <3>1, <3>2 DEF LInv, Once
      <4> QED
        BY <1>3, <3>1, <3>2, <4>1
    <3> QED
      BY <3>1, <3>2
  <2> QED
    BY <2>1, <2>2
<1>5. ASSUME NEW c \in Call, Coming(c)' PROVE Coming(c)
  <2>1. CASE c \in asked'
    BY <2>1 DEF Coming
  <2>2. CASE c \notin asked'
    <3>1. PICK i \in Len(received') + 1 .. Len(sent') : Answers(i, c)'
      BY <1>5, <2>2 DEF Coming
    <3>2. i \in 1..Len(sent') /\ (i \in 1..Len(sent) => i \in Len(received) + 1 .. Len(sent))
      BY <1>1, <1>2
    <3> QED
      BY <1>3, <3>1, <3>2 DEF Coming
  <2> QED
    BY <2>1, <2>2
<1> QED
  BY <1>4, <1>5, NobodyTold DEF calls, answers, WrittenKept

LEMMA ServerLogs ==
  ASSUME IInv, LInv, ServerRedirects \/ \E c \in Call : ServerAnswers(c)
  PROVE  LInv'
<1>1. CASE ServerRedirects
  <2> DEFINE m == [type |-> "REDIRECT"]
  <2>1. m \in Message /\ In!Send(m) /\ asked' = asked /\ m.type = "REDIRECT"
        /\ UNCHANGED <<peer, now, conn, socket, calls, on, answers>>
    BY <1>1 DEF ServerRedirects, server, Message
  <2> HIDE DEF m
  <2> QED
    BY <2>1, SentLogs
<1>2. ASSUME NEW c \in Call, ServerAnswers(c) PROVE LInv'
  <2>1. PICK type \in {"RESPONSE", "ERROR"} : In!Send([type |-> type, to |-> c])
    BY <1>2 DEF ServerAnswers
  <2> DEFINE m == [type |-> type, to |-> c]
  <2>2. m \in Message /\ m.to = c /\ m.type # "REDIRECT"
    BY DEF Message, Answer
  <2>3. In!Send(m) /\ c \in asked /\ asked' = asked \ {c}
        /\ UNCHANGED <<peer, now, conn, socket, calls, on, answers>>
    BY <1>2, <2>1 DEF ServerAnswers
  <2> HIDE DEF m
  <2> QED
    BY <2>2, <2>3, SentLogs
<1> QED
  BY <1>1, <1>2

LEMMA CallLogs ==
  ASSUME IInv, LInv, NEW c \in Call,
         \/ c \in Request /\ (Name(c) \/ SendNothing(c))
         \/ Write(c) \/ Put(c)
  PROVE  LInv'
<1>1. step \in [Call -> State] /\ id \in [Call -> Time]
  BY Numbers DEF IInv
<1>2. UNCHANGED <<accepted, refused, conn, handling, resting, login, sent, received>>
      /\ step[c] # "done"
  BY DEF Name, SendNothing, Write, Put, answers, link
<1>3. /\ \A d \in Call \ {c} : step'[d] = step[d] /\ id'[d] = id[d]
      /\ step[c] \in {"new", "write"} \/ (step[c] = "put" /\ step'[c] = "done" /\ id' = id)
  BY <1>1 DEF Name, Names, SendNothing, Write, Put
<1>4. asked' = asked \/ (asked' = asked \cup {c} /\ step[c] = "write")
  BY DEF Name, SendNothing, Write, Put, server
<1>5. \A d \in Call : step[d] \in {"put", "done"} => on'[d] = on[d]
  BY DEF Name, SendNothing, Write, Put, IInv, TypeOK
<1>6. WrittenKept
  BY <1>3, <1>5 DEF WrittenKept
<1>7. Once'
  <2>1. ASSUME step[c] = "write", NEW i \in 1..Len(sent) PROVE ~Answers(i, c)
    BY <2>1 DEF IInv, AnswersAsked, Written, Answers
  <2> QED
    BY <1>2, <1>4, <2>1 DEF LInv, Once, Answers
<1>8. \A d \in Call : step[d] = "done" /\ Coming(d)' => Coming(d)
  BY <1>2, <1>4 DEF Coming, Answers
<1>9. \A d \in Call : step[d] = "done" => step'[d] = "done"
  BY <1>2, <1>3
<1> QED
  BY <1>2, <1>6, <1>7, <1>8, <1>9, NobodyTold

(* What is read is no longer coming.                                       *)
LEMMA ReadLogs ==
  ASSUME IInv, LInv, NEW n \in Conn, NEW k \in Given(n), Receive(k), asked' = asked
  PROVE  /\ Once' /\ \A c \in Call : Coming(c)' => Coming(c)
         /\ \A c \in Call : Answers(k, c) => Coming(c) /\ ~Coming(c)'
<1>1. /\ k \in 1..Len(sent) /\ sent' = sent /\ Len(received') = k /\ Len(received) < k
      /\ Len(received) \in Nat /\ Len(sent) \in Nat
  BY GivenTypes DEF IInv
<1>2. Once'
  BY <1>1 DEF LInv, Once, Answers
<1>3. \A i \in Len(received') + 1 .. Len(sent') : i \in Len(received) + 1 .. Len(sent) /\ i \in 1..Len(sent) /\ i # k
  BY <1>1
<1>4. \A c \in Call : Coming(c)' => Coming(c)
  BY <1>1, <1>3 DEF Coming, Answers
<1>5. ASSUME NEW c \in Call, Answers(k, c) PROVE Coming(c) /\ ~Coming(c)'
  <2>1. k \in Len(received) + 1 .. Len(sent)
    BY <1>1
  <2>2. c \notin asked /\ \A j \in 1..Len(sent) : Answers(j, c) => j = k
    BY <1>1, <1>5 DEF LInv, Once
  <2>3. ~Coming(c)'
    BY <1>1, <1>3, <2>2 DEF Coming, Answers
  <2> QED
    BY <1>5, <2>1, <2>3 DEF Coming
<1> QED
  BY <1>2, <1>4, <1>5

(* The handler that is told of the answer had not been told before, or     *)
(* shares its name.                                                        *)
LEMMA AnswerLogs ==
  ASSUME IInv, LInv, NEW n \in Conn, ListenAnswer(n)
  PROVE  LInv'
<1>0. /\ TypeOK /\ step \in [Call -> State] /\ id \in [Call -> Time] /\ sent \in Seq(Message)
      /\ requestCache \in [Time -> Call \cup {None}] /\ None \notin Call
      /\ handling \in [Conn -> Call \cup {None}] /\ accepted \subseteq Call /\ refused \subseteq Call
      /\ \A m \in Conn : m # None
  BY Numbers, ChatAssumption DEF IInv, TypeOK, Call
<1> PICK k \in Given(n) : AnswerOf(n, k)
  BY DEF ListenAnswer
<1>1. /\ Receive(k) /\ k \in 1..Len(sent) /\ sent[k] \in Message /\ sent[k].type # "REDIRECT"
      /\ UNCHANGED <<asked, conn, step, id, on>> /\ handling[n] = None
  BY <1>0, GivenTypes DEF AnswerOf, server
<1>2. PICK c \in Call : c = sent[k].to /\ step[c] \in {"put", "done"} /\ Answers(k, c)
  <2>1. sent[k].to \in Written
    BY <1>1 DEF IInv, AnswersAsked
  <2> QED
    BY <1>1, <2>1, AnswerTypes DEF Written, Answers
<1>3. /\ Once' /\ \A d \in Call : Coming(d)' => Coming(d)
      /\ Coming(c) /\ ~Coming(c)'
  BY <1>1, <1>2, ReadLogs
<1>4. PICK handler \in Call \cup {None} : handler = requestCache[id[c]]
  BY <1>0
<1>5. \A d \in Call : SameName(d)' = SameName(d)
  BY <1>1 DEF SameName
<1>6. CASE handler = None
  <2>1. UNCHANGED <<handling, login, resting, accepted, refused>>
    BY <1>2, <1>4, <1>6 DEF AnswerOf, HandlerOf
  <2> QED
    BY <1>1, <1>3, <2>1, NobodyTold DEF WrittenKept
<1>7. CASE handler # None
  <2>0. handler \in Call /\ step[handler] = "done" /\ id[handler] = id[c]
    BY <1>0, <1>2, <1>4, <1>7 DEF IInv, Cached
  <2>1. handling' = [handling EXCEPT ![n] = handler]
    BY <1>2, <1>4, <1>7 DEF AnswerOf, HandlerOf
  <2>2. \/ /\ accepted' = accepted \cup ({handler} \cap Conn) /\ refused' = refused
           /\ login' = (login \/ {handler} \cap Conn # {}) /\ resting' = resting
        \/ /\ refused' = refused \cup ({handler} \cap Conn) /\ accepted' = accepted /\ login' = login
           /\ resting' = IF handler \in Conn THEN resting \cup {n} ELSE resting
    BY <1>2, <1>4, <1>7 DEF AnswerOf, HandlerOf, Rests
  <2>3. SameName(handler) \/ (handler = c /\ handler \notin accepted \cup refused /\ ~Coming(handler)')
    <3>1. CASE handler = c
      <4>1. handler \in accepted \cup refused => SameName(handler)
        BY <1>3, <3>1 DEF LInv, ToldOnce
      <4> QED
        BY <1>3, <3>1, <4>1
    <3>2. CASE handler # c
      BY <1>2, <2>0, <3>2 DEF SameName
    <3> QED
      BY <3>1, <3>2
  <2>4. ToldOnce'
    <3> SUFFICES ASSUME NEW m \in accepted' \cup refused'
                 PROVE  step'[m] = "done" /\ (SameName(m)' \/ (m \notin accepted' \cap refused' /\ ~Coming(m)'))
      BY DEF ToldOnce
    <3>1. CASE m = handler
      BY <1>1, <1>5, <2>0, <2>2, <2>3, <3>1
    <3>2. CASE m # handler
      <4>1. m \in accepted \cup refused /\ m \in Call /\ (m \in accepted' \cap refused' => m \in accepted \cap refused)
        BY <1>0, <2>2, <3>2
      <4> QED
        BY <1>1, <1>3, <1>5, <4>1 DEF LInv, ToldOnce
    <3> QED
      BY <3>1, <3>2
  <2>5. RestsRefused'
    <3> SUFFICES ASSUME NEW m \in resting' PROVE handling'[m] \in refused'
      BY DEF RestsRefused
    <3>1. CASE m = n
      <4>1. n \notin resting
        BY <1>0, <1>1 DEF TypeOK
      <4> QED
        BY <1>0, <2>1, <2>2, <3>1, <4>1
    <3>2. CASE m # n
      <4>1. m \in resting /\ m \in Conn /\ handling'[m] = handling[m]
        BY <1>0, <2>1, <2>2, <3>2 DEF TypeOK
      <4> QED
        BY <2>2, <4>1 DEF LInv, RestsRefused
    <3> QED
      BY <3>1, <3>2
  <2>6. AcceptedIsUsable'
    <3> SUFFICES ASSUME conn \in accepted', ~login'
                 PROVE  (\E m \in refused' : m < conn) \/ SameName(conn)
      BY <1>0, <1>1, <1>5, <2>0, <2>2 DEF AcceptedIsUsable
    <3>1. conn \in accepted /\ ~login
      <4>1. CASE conn \in accepted
        <5>1. login' = login \/ login' = (login \/ {handler} \cap Conn # {})
          BY <2>2
        <5>2. ~login
          BY <5>1, Zenon
        <5> QED
          BY <4>1, <5>2
      <4>2. CASE conn \notin accepted
        <5>1. conn \in {handler} \cap Conn
          <6>1. conn \in accepted' /\ accepted' \subseteq accepted \cup ({handler} \cap Conn)
            BY <2>2
          <6> QED
            BY <4>2, <6>1
        <5>2. accepted' # accepted
          BY <4>2
        <5>3. login' = (login \/ {handler} \cap Conn # {})
          BY <2>2, <5>2
        <5>4. login'
          BY <5>1, <5>3
        <5> QED
          BY <5>4
      <4> QED
        BY <4>1, <4>2
    <3> QED
      BY <2>2, <3>1 DEF LInv, AcceptedIsUsable
  <2> QED
    BY <1>3, <2>4, <2>5, <2>6 DEF LInv
<1> QED
  BY <1>6, <1>7

(* A handler that ends.  The listener of a refused SIGN_IN that wakes: if  *)
(* the present one was accepted, the refused one is earlier.               *)
LEMMA HandleLogs ==
  ASSUME IInv, LInv, NEW n \in Conn, Handle(n)
  PROVE  LInv'
<1>0. handling \in [Conn -> Call \cup {None}] /\ resting \subseteq Conn /\ refused \subseteq Conn
      /\ accepted \subseteq Call
  BY Numbers DEF IInv, TypeOK, Call
<1>1. CASE Wake(n)
  <2>1. /\ n \in resting /\ resting' = resting \ {n}
        /\ UNCHANGED <<conn, step, id, accepted, refused, handling, sent, received, asked>>
    BY <1>1 DEF Wake, answers, link, server
  <2>2. Once' /\ ToldOnce' /\ RestsRefused'
    BY <2>1 DEF LInv, Once, Coming, Answers, ToldOnce, RestsRefused, SameName
  <2>3. AcceptedIsUsable'
    <3> SUFFICES ASSUME conn \in accepted PROVE (\E m \in refused : m < conn) \/ SameName(conn)
      BY <2>1 DEF AcceptedIsUsable, SameName
    <3>1. PICK m \in refused : m \in Conn /\ step[m] = "done"
      BY <1>0, <2>1 DEF LInv, RestsRefused, ToldOnce
    <3>2. m <= conn /\ m \in Nat /\ conn \in Nat
      BY <1>0, <3>1, Numbers DEF IInv, Fresh, Conn
    <3>3. m = conn => SameName(conn)
      BY DEF LInv, ToldOnce
    <3> QED
      BY <3>2, <3>3
  <2> QED
    BY <2>2, <2>3 DEF LInv
<1>2. CASE HandlerReturns(n) \/ HandlerThrows(n)
  <2>1. /\ UNCHANGED <<conn, step, id, on, login, accepted, refused, sent, received, asked>>
        /\ resting' = resting \ {n} /\ handling' = [handling EXCEPT ![n] = None]
    BY <1>2 DEF HandlerReturns, HandlerThrows, answers, link, server
  <2>2. resting' \subseteq resting /\ \A m \in resting' : handling'[m] = handling[m]
    BY <1>0, <2>1
  <2> QED
    BY <2>1, <2>2, NobodyAsked DEF WrittenKept
<1> QED
  BY <1>1, <1>2 DEF Handle

LEMMA RedirectLogs ==
  ASSUME IInv, LInv, NEW n \in Conn, ListenRedirect(n)
  PROVE  LInv'
<1>0. PICK k \in Given(n) :
        /\ sent[k].type = "REDIRECT"
        /\ conn < MaxConnect /\ UNCHANGED <<requestCache, handling, resting, on, answers>>
        /\ \/ Opened
           \/ Receive(k) /\ socket' = "closed" /\ UNCHANGED <<conn, peer, asked, login, step, id, now>>
  BY DEF ListenRedirect
<1>1. CASE Opened
  BY <1>0, <1>1, OpenedLogs
<1>2. CASE ~Opened
  <2>1. Receive(k) /\ UNCHANGED <<conn, step, id, on, login, asked, handling, resting, accepted, refused>>
    BY <1>0, <1>2 DEF answers
  <2>2. Once' /\ \A c \in Call : Coming(c)' => Coming(c)
    BY <2>1, ReadLogs
  <2> QED
    BY <2>1, <2>2, NobodyTold DEF WrittenKept
<1> QED
  BY <1>1, <1>2

LEMMA InitLInv == Init => LInv
<1> SUFFICES ASSUME Init PROVE LInv
  OBVIOUS
<1>1. Len(<<>>) = 0
  OBVIOUS
<1> QED
  BY <1>1, ChatAssumption DEF Init, In!Init, LInv, Once, ToldOnce, RestsRefused, AcceptedIsUsable

LEMMA NextLInv == IInv /\ LInv /\ [Next]_vars => LInv'
<1> SUFFICES ASSUME IInv, LInv, [Next]_vars PROVE LInv'
  OBVIOUS
<1>1. CASE Connect
  <2>1. CASE Opened
    BY <1>1, <2>1, OpenedLogs DEF Connect
  <2>2. CASE NotOpened
    BY <1>1, <2>2, NobodyAsked DEF Connect, NotOpened, answers, link, WrittenKept
  <2> QED
    BY <1>1, <2>1, <2>2 DEF Connect
<1>2. CASE CloseConnect
  BY <1>2, NobodyAsked DEF CloseConnect, link, server, calls, answers, WrittenKept
<1>3. CASE ServerFails
  BY <1>3, NobodyAsked DEF ServerFails, link, calls, answers, WrittenKept
<1>4. CASE LinkBreaks
  BY <1>4, NobodyAsked DEF LinkBreaks, server, calls, answers, WrittenKept
<1>6. CASE UNCHANGED vars
  BY <1>6, NobodyAsked DEF vars, link, server, calls, answers, WrittenKept
<1>8. \A r \in Request : r \in Call
  BY DEF Call
<1> QED
  BY <1>1, <1>2, <1>3, <1>4, <1>6, <1>8, ServerLogs, CallLogs, AnswerLogs, HandleLogs, RedirectLogs
     DEF Next, Listen

-----------------------------------------------------------------------------
(* The inductive invariant of the chat client.                             *)
THEOREM Invariance == Spec => []IInv
  BY InitIInv, NextIInv, PTL DEF Spec

(* Every variable keeps its type.                                          *)
THEOREM TypeCorrect == Spec => []TypeOK
  BY Invariance, PTL DEF IInv

(* A handler is given the answer to its own call, unless two calls were    *)
(* named in one millisecond.                                               *)
THEOREM AnswersAreOwn == Spec => []OwnAnswer
  BY Invariance, PTL DEF IInv

(* Write, Put, ListenAnswer and HandlerReturns: no handler waits in the    *)
(* cache in vain, but for an answer that came before put(), a name used    *)
(* twice, a handler that threw, a connection that was replaced or a stream *)
(* that broke.                                                             *)
THEOREM HandlersAreAnswered == Spec => []NothingWaitsInVain
<1>1. IInv /\ WInv => NothingWaitsInVain
  <2> SUFFICES ASSUME IInv, WInv, NEW t \in Time, NEW c \in Call, requestCache[t] = c
               PROVE  OnItsWay(c) \/ Excused(c)
    BY DEF NothingWaitsInVain, Excused
  <2>1. step[c] = "done"
    BY ChatAssumption DEF IInv, Cached
  <2> QED
    BY <2>1 DEF WInv, Waits
<1>2. Init => IInv /\ WInv
  BY InitIInv, InitWInv
<1>3. IInv /\ WInv /\ [Next]_vars => (IInv /\ WInv)'
  BY NextIInv, NextWInv
<1> QED
  BY <1>1, <1>2, <1>3, PTL DEF Spec

(* ListenAnswer and Wake: a connection whose SIGN_IN was accepted can be   *)
(* used, unless an earlier SIGN_IN was refused and its handler takes back  *)
(* loginSuccess, or another call has its name; the safety half of          *)
(* LoginFollowsAnswers.                                                    *)
THEOREM AcceptedCanSend == Spec => []AcceptedIsUsable
<1>1. IInv /\ LInv => AcceptedIsUsable
  BY DEF LInv
<1>2. Init => IInv /\ LInv
  BY InitIInv, InitLInv
<1>3. IInv /\ LInv /\ [Next]_vars => (IInv /\ LInv)'
  BY NextIInv, NextLInv
<1> QED
  BY <1>1, <1>2, <1>3, PTL DEF Spec

-----------------------------------------------------------------------------
(***************************************************************************)
(* The ping threads of the same client (Heartbeat): the server, the        *)
(* connections and the socket are those above, the rest is their own.  A   *)
(* connection is given up only after three pings without a PONG, for any   *)
(* number of connections and of pings under way.  Liveness stays with TLC. *)
(***************************************************************************)
CONSTANT MaxPing
VARIABLES connecting, pinged, pongs, pinger, signal, pingSuccess, failPingCount, counted,
          disconnects, heard, missed, causes

HB == INSTANCE Heartbeat

(* HeartbeatAssumption beside ChatAssumption.                              *)
PingAssumption == MaxPing \in Nat \ {0}

(* The numbers, apart from the rest of the types.                          *)
LEMMA PingNumbers ==
  ASSUME PingAssumption, HB!TypeOK
  PROVE  /\ MaxConnect \in Nat /\ MaxPing \in Nat /\ MaxPing # 0
         /\ pinged \in 0..MaxPing /\ pongs \in 0..MaxPing /\ conn \in 0..MaxConnect
         /\ failPingCount \in 0..4 /\ disconnects \in 0..2 /\ missed \in 0..3
         /\ counted \in [HB!Conn -> 0..4]
         /\ pinger \in [HB!Conn -> HB!Statement]
  BY ChatAssumption DEF HB!TypeOK, PingAssumption

LEMMA InitPings == PingAssumption /\ HB!Init => HB!IInv
<1> SUFFICES ASSUME PingAssumption, HB!Init PROVE HB!IInv
  OBVIOUS
<1>1. HB!TypeOK
  <2>1. 0 \in 0..MaxPing /\ 0 \in 0..MaxConnect
    BY ChatAssumption DEF PingAssumption
  <2>2. causes \subseteq {"earlyPong", "twoThreads", "closedConnecting"}
    BY DEF HB!Init
  <2>3. heard \in [HB!Conn -> BOOLEAN] /\ signal \in BOOLEAN /\ pingSuccess \in BOOLEAN
    BY DEF HB!Init
  <2>4. /\ failPingCount \in 0..4 /\ disconnects \in 0..2 /\ missed \in 0..3
        /\ counted \in [HB!Conn -> 0..4] /\ pinger \in [HB!Conn -> HB!Statement]
    BY DEF HB!Init, HB!Statement
  <2> QED
    BY <2>1, <2>2, <2>3, <2>4 DEF HB!Init, HB!TypeOK
<1>2. HB!OneThread /\ HB!FlagIsHeard /\ HB!LostIsMissed
  BY DEF HB!Init, HB!OneThread, HB!FlagIsHeard, HB!LostIsMissed, HB!Running
<1> QED
  BY <1>1, <1>2 DEF HB!IInv

(* What the invariants say of two states with the same threads and flags.  *)
LEMMA SameThreads ==
  ASSUME HB!IInv, HB!Alone' => HB!Alone,
         UNCHANGED <<pinger, pingSuccess, failPingCount, counted, disconnects, heard, missed>>
  PROVE  HB!Alone' => HB!OneThread' /\ HB!FlagIsHeard' /\ HB!LostIsMissed'
  BY DEF HB!IInv, HB!OneThread, HB!FlagIsHeard, HB!LostIsMissed, HB!Running

(* A step that closes leaves the excuses of the heartbeat as they are.     *)
LEMMA ClosingTypes ==
  ASSUME HB!TypeOK, HB!CloseConnect
  PROVE  /\ socket' \in {"none", "open", "closed"} /\ signal' \in BOOLEAN
         /\ causes' \subseteq {"earlyPong", "twoThreads", "closedConnecting"}
         /\ HB!Alone' => HB!Alone
  BY DEF HB!TypeOK, HB!CloseConnect, HB!Alone

(* The three steps of connecting.                                          *)
LEMMA ConnectPings ==
  ASSUME PingAssumption, HB!IInv,
         HB!ConnectSocket \/ HB!ConnectFails \/ HB!LoginServer \/ HB!StartPings
  PROVE  HB!IInv'
<1>0. HB!TypeOK /\ MaxConnect \in Nat /\ conn \in 0..MaxConnect
  BY PingNumbers DEF HB!IInv
<1>1. CASE HB!ConnectSocket
  <2>1. conn' \in 0..MaxConnect /\ conn' # 0 /\ 0 \in 0..MaxPing
    BY <1>0, <1>1, PingNumbers DEF HB!ConnectSocket
  <2>2. HB!TypeOK'
    BY <1>0, <1>1, <2>1 DEF HB!ConnectSocket, HB!TypeOK, HB!beat, HB!history
  <2> QED
    BY <1>1, <2>2, SameThreads DEF HB!ConnectSocket, HB!IInv, HB!beat, HB!history, HB!Alone
<1>2. CASE HB!ConnectFails
  <2>1. HB!TypeOK'
    BY <1>0, <1>2 DEF HB!ConnectFails, HB!TypeOK, HB!server, HB!beat, HB!history
  <2> QED
    BY <1>2, <2>1, SameThreads DEF HB!ConnectFails, HB!IInv, HB!beat, HB!history, HB!Alone
<1>3. CASE HB!LoginServer
  <2>1. HB!TypeOK'
    BY <1>0, <1>3 DEF HB!LoginServer, HB!TypeOK, HB!server, HB!beat, HB!history
  <2> QED
    BY <1>3, <2>1, SameThreads DEF HB!LoginServer, HB!IInv, HB!beat, HB!history, HB!Alone
<1>4. CASE HB!StartPings
  <2>1. conn \in HB!Conn /\ pinger' = [pinger EXCEPT ![conn] = "head"]
    <3>1. conn # 0
      BY <1>0, <1>4 DEF HB!StartPings, HB!TypeOK
    <3> QED
      BY <1>0, <1>4, <3>1 DEF HB!StartPings, HB!Conn
  <2>2. HB!TypeOK'
    <3>1. pinger' \in [HB!Conn -> HB!Statement]
      BY <1>0, <2>1 DEF HB!TypeOK, HB!Statement
    <3>2. causes' \subseteq {"earlyPong", "twoThreads", "closedConnecting"}
      BY <1>0, <1>4 DEF HB!StartPings, HB!TypeOK
    <3> QED
      BY <1>0, <1>4, <3>1, <3>2 DEF HB!StartPings, HB!TypeOK, HB!server
  <2>3. ASSUME HB!Alone' PROVE HB!OneThread' /\ HB!FlagIsHeard' /\ HB!LostIsMissed'
    <3>1. HB!Running = {} /\ HB!Alone
      BY <1>4, <2>3 DEF HB!StartPings, HB!Alone
    <3>2. \A n \in HB!Conn : pinger'[n] = IF n = conn THEN "head" ELSE "off"
      BY <1>0, <2>1, <3>1 DEF HB!TypeOK, HB!Running
    <3>3. HB!OneThread'
      BY <2>1, <3>2 DEF HB!OneThread, HB!Running
    <3>4. HB!FlagIsHeard'
      <4>1. \A n \in HB!Conn : ~heard[n]
        BY <3>1 DEF HB!IInv, HB!FlagIsHeard, HB!Running
      <4> QED
        BY <1>4, <3>2, <4>1 DEF HB!FlagIsHeard, HB!StartPings
    <3>5. HB!LostIsMissed'
      BY <1>4, <3>1, <3>2 DEF HB!IInv, HB!LostIsMissed, HB!StartPings
    <3> QED
      BY <3>3, <3>4, <3>5
  <2> QED
    BY <2>2, <2>3 DEF HB!IInv
<1> QED
  BY <1>1, <1>2, <1>3, <1>4

(* A step of the server, the listener or the application.                  *)
LEMMA OutsidePings ==
  ASSUME PingAssumption, HB!IInv,
         HB!Close \/ HB!ServerPongs \/ HB!ServerFails \/ HB!ListenPong
  PROVE  HB!IInv'
<1>0. HB!TypeOK
  BY DEF HB!IInv
<1>1. CASE HB!Close
  <2>1. HB!TypeOK' /\ (HB!Alone' => HB!Alone)
    BY <1>0, <1>1, ClosingTypes DEF HB!Close, HB!TypeOK, HB!server
  <2> QED
    BY <1>1, <2>1, SameThreads DEF HB!Close, HB!IInv
<1>2. CASE HB!ServerPongs
  <2>1. HB!TypeOK'
    <3>1. pinged' \in 0..MaxPing /\ pongs' \in 0..MaxPing
      BY <1>0, <1>2, PingNumbers DEF HB!ServerPongs
    <3> QED
      BY <1>0, <1>2, <3>1 DEF HB!ServerPongs, HB!TypeOK, HB!client, HB!beat, HB!history
  <2> QED
    BY <1>2, <2>1, SameThreads DEF HB!ServerPongs, HB!IInv, HB!beat, HB!history, HB!Alone
<1>3. CASE HB!ServerFails
  <2>1. HB!TypeOK'
    BY <1>0, <1>3 DEF HB!ServerFails, HB!TypeOK, HB!client, HB!beat, HB!history
  <2> QED
    BY <1>3, <2>1, SameThreads DEF HB!ServerFails, HB!IInv, HB!beat, HB!history, HB!Alone
<1>4. CASE HB!ListenPong
  <2>1. HB!TypeOK'
    <3>1. pongs' \in 0..MaxPing
      <4>1. pongs > 0 /\ pongs' = pongs - 1
        BY <1>4 DEF HB!ListenPong
      <4> QED
        BY <1>0, <4>1, PingNumbers
    <3>2. causes' \subseteq {"earlyPong", "twoThreads", "closedConnecting"}
      BY <1>0, <1>4 DEF HB!ListenPong, HB!TypeOK
    <3> QED
      BY <1>0, <1>4, <3>1, <3>2 DEF HB!ListenPong, HB!TypeOK, HB!client
  <2>2. ASSUME HB!Alone' PROVE HB!OneThread' /\ HB!FlagIsHeard' /\ HB!LostIsMissed'
    <3>1. HB!Alone /\ \A n \in HB!Conn : pinger[n] # "reset"
      BY <1>4, <2>2 DEF HB!ListenPong, HB!Alone
    <3>2. /\ UNCHANGED <<pinger, failPingCount, counted, disconnects, missed>>
          /\ pingSuccess' = TRUE
          /\ heard' = [n \in HB!Conn |-> pinger[n] \in {"reset", "wait"}]
      BY <1>4 DEF HB!ListenPong
    <3>3. HB!FlagIsHeard'
      BY <3>1, <3>2 DEF HB!FlagIsHeard
    <3> QED
      BY <3>1, <3>2, <3>3 DEF HB!IInv, HB!OneThread, HB!LostIsMissed, HB!Running
  <2> QED
    BY <2>1, <2>2 DEF HB!IInv
<1> QED
  BY <1>1, <1>2, <1>3, <1>4

(* A thread that goes on is the one thread.                                *)
OneGoes(n, from, to) ==
  \A m \in HB!Conn : /\ pinger[m] = IF m = n THEN from ELSE "off"
                     /\ pinger'[m] = IF m = n THEN to ELSE "off"

LEMMA GoesOn ==
  ASSUME HB!TypeOK, HB!OneThread, NEW n \in HB!Conn,
         NEW from \in HB!Statement \ {"off"}, NEW to \in HB!Statement, HB!Goes(n, from, to)
  PROVE  HB!OneThread' /\ OneGoes(n, from, to)
<1>1. n \in HB!Running /\ \A m \in HB!Running : m = n
  BY DEF HB!Goes, HB!OneThread, HB!Running
<1>2. OneGoes(n, from, to)
  BY <1>1 DEF HB!Goes, HB!TypeOK, HB!Running, OneGoes
<1> QED
  BY <1>2 DEF HB!OneThread, HB!Running, OneGoes

(* A statement of a thread that leaves the server, the connection and the  *)
(* excuses alone.  What it does to the flags and the numbers is checked    *)
(* where the thread is the only one.                                       *)
LEMMA BeatStep ==
  ASSUME PingAssumption, HB!IInv, NEW n \in HB!Conn,
         NEW from \in HB!Statement \ {"off"}, NEW to \in HB!Statement, HB!Goes(n, from, to),
         UNCHANGED <<peer, pongs, conn, connecting, socket, signal, causes, disconnects>>,
         pinged' \in 0..MaxPing,
         pingSuccess' \in BOOLEAN, failPingCount' \in 0..4,
         counted' \in [HB!Conn -> 0..4], heard' \in [HB!Conn -> BOOLEAN], missed' \in 0..3,
         HB!FlagIsHeard /\ HB!LostIsMissed /\ OneGoes(n, from, to)
           => HB!FlagIsHeard' /\ HB!LostIsMissed'
  PROVE  HB!IInv'
<1>0. HB!TypeOK
  BY DEF HB!IInv
<1>1. HB!TypeOK'
  <2>1. pinger' \in [HB!Conn -> HB!Statement]
    BY <1>0 DEF HB!TypeOK, HB!Goes
  <2> QED
    BY <1>0, <2>1 DEF HB!TypeOK
<1>2. ASSUME HB!Alone' PROVE HB!OneThread' /\ HB!FlagIsHeard' /\ HB!LostIsMissed'
  <2>1. HB!OneThread /\ HB!FlagIsHeard /\ HB!LostIsMissed
    BY <1>2 DEF HB!Alone, HB!IInv
  <2> QED
    BY <1>0, <2>1, GoesOn
<1> QED
  BY <1>1, <1>2 DEF HB!IInv

(* A step of a ping thread.                                                *)
LEMMA BeatPings ==
  ASSUME PingAssumption, HB!IInv, NEW n \in HB!Conn, HB!Beat(n)
  PROVE  HB!IInv'
<1>0. /\ HB!TypeOK /\ pinged \in 0..MaxPing /\ MaxPing \in Nat
      /\ pingSuccess \in BOOLEAN /\ failPingCount \in 0..4 /\ counted \in [HB!Conn -> 0..4]
      /\ heard \in [HB!Conn -> BOOLEAN] /\ missed \in 0..3
  BY PingNumbers DEF HB!IInv, HB!TypeOK
<1> DEFINE Same == UNCHANGED <<peer, pongs, conn, connecting, socket, signal, causes, disconnects>>
           Flags == UNCHANGED <<pingSuccess, failPingCount, counted, heard, missed>>
<1>1. CASE HB!Look(n)
  <2>1. PICK to \in {"off", "sleep"} : HB!Goes(n, "head", to)
    BY <1>1 DEF HB!Look
  <2>2. Same /\ Flags /\ UNCHANGED pinged
    BY <1>1 DEF HB!Look, HB!server, HB!client, HB!history
  <2>8. ASSUME HB!FlagIsHeard, HB!LostIsMissed, OneGoes(n, "head", to)
        PROVE  HB!FlagIsHeard' /\ HB!LostIsMissed'
    BY <1>0, <2>1, <2>2, <2>8 DEF HB!FlagIsHeard, HB!LostIsMissed, OneGoes
  <2> QED
    BY <1>0, <2>1, <2>2, <2>8, BeatStep DEF HB!Statement
<1>2. CASE HB!Ping(n)
  <2>1. PICK to \in {"reset", "head"} : HB!Goes(n, "sleep", to)
    BY <1>2 DEF HB!Ping
  <2>2. Same /\ Flags /\ pinged' \in 0..MaxPing
    BY <1>0, <1>2 DEF HB!Ping, HB!client, HB!history
  <2>8. ASSUME HB!FlagIsHeard, HB!LostIsMissed, OneGoes(n, "sleep", to)
        PROVE  HB!FlagIsHeard' /\ HB!LostIsMissed'
    BY <1>0, <2>1, <2>2, <2>8 DEF HB!FlagIsHeard, HB!LostIsMissed, OneGoes
  <2> QED
    BY <1>0, <2>1, <2>2, <2>8, BeatStep DEF HB!Statement
<1>3. CASE HB!ResetPing(n)
  <2>1. HB!Goes(n, "reset", "wait")
    BY <1>3 DEF HB!ResetPing
  <2>2. /\ Same /\ UNCHANGED <<pinged, failPingCount, counted, heard, missed>>
        /\ pingSuccess' = FALSE
    BY <1>3 DEF HB!ResetPing, HB!server, HB!client, HB!history
  <2>8. ASSUME HB!FlagIsHeard, HB!LostIsMissed, OneGoes(n, "reset", "wait")
        PROVE  HB!FlagIsHeard' /\ HB!LostIsMissed'
    BY <1>0, <2>1, <2>2, <2>8 DEF HB!FlagIsHeard, HB!LostIsMissed, OneGoes
  <2> QED
    BY <1>0, <2>1, <2>2, <2>8, BeatStep DEF HB!Statement
<1>4. CASE HB!PingTimeout(n)
  <2>1. HB!Goes(n, "wait", IF pingSuccess THEN "head" ELSE "count")
    BY <1>4 DEF HB!PingTimeout
  <2>2. /\ Same /\ UNCHANGED <<pinged, pingSuccess, failPingCount, counted>>
        /\ missed' = IF heard[n] \/ missed = 3 THEN missed ELSE missed + 1
        /\ heard' = [heard EXCEPT ![n] = FALSE]
    BY <1>4 DEF HB!PingTimeout, HB!server, HB!client
  <2>3. missed' \in 0..3 /\ heard' \in [HB!Conn -> BOOLEAN] /\ ~heard'[n]
        /\ \A m \in HB!Conn \ {n} : heard'[m] = heard[m]
    BY <1>0, <2>2
  <2>8. ASSUME HB!FlagIsHeard, HB!LostIsMissed,
               OneGoes(n, "wait", IF pingSuccess THEN "head" ELSE "count")
        PROVE  HB!FlagIsHeard' /\ HB!LostIsMissed'
    <3>1. HB!FlagIsHeard'
      BY <2>3, <2>8 DEF HB!FlagIsHeard, OneGoes
    <3>2. (~pingSuccess => ~heard[n]) /\ missed <= missed' /\ (missed = 3 => missed' = 3)
      BY <1>0, <2>2, <2>8 DEF HB!FlagIsHeard, OneGoes
    <3>3. HB!LostIsMissed'
      BY <1>0, <2>2, <2>3, <2>8, <3>2 DEF HB!LostIsMissed, OneGoes
    <3> QED
      BY <3>1, <3>3
  <2> QED
    BY <1>0, <2>1, <2>2, <2>3, <2>8, BeatStep DEF HB!Statement
<1>5. CASE HB!ReadCount(n)
  <2>1. HB!Goes(n, "count", "store")
    BY <1>5 DEF HB!ReadCount
  <2>2. /\ Same /\ UNCHANGED <<pinged, pingSuccess, failPingCount, heard, missed>>
        /\ counted' = [counted EXCEPT ![n] = failPingCount]
    BY <1>5 DEF HB!ReadCount, HB!server, HB!client, HB!history
  <2>3. counted' \in [HB!Conn -> 0..4] /\ counted'[n] = failPingCount
    BY <1>0, <2>2
  <2>8. ASSUME HB!FlagIsHeard, HB!LostIsMissed, OneGoes(n, "count", "store")
        PROVE  HB!FlagIsHeard' /\ HB!LostIsMissed'
    BY <1>0, <2>1, <2>2, <2>8, <2>3 DEF HB!FlagIsHeard, HB!LostIsMissed, OneGoes
  <2> QED
    BY <1>0, <2>1, <2>2, <2>8, <2>3, BeatStep DEF HB!Statement
<1>6. CASE HB!WriteCount(n)
  <2>1. HB!Goes(n, "store", "compare")
    BY <1>6 DEF HB!WriteCount
  <2>2. /\ Same /\ UNCHANGED <<pinged, pingSuccess, heard, missed>>
        /\ failPingCount' = IF counted[n] = 4 THEN 4 ELSE counted[n] + 1
        /\ counted' = [counted EXCEPT ![n] = 0]
    BY <1>6 DEF HB!WriteCount, HB!server, HB!client, HB!history
  <2>3. counted' \in [HB!Conn -> 0..4] /\ counted[n] \in 0..4 /\ failPingCount' \in 0..4
    BY <1>0, <2>2
  <2>8. ASSUME HB!FlagIsHeard, HB!LostIsMissed, OneGoes(n, "store", "compare")
        PROVE  HB!FlagIsHeard' /\ HB!LostIsMissed'
    BY <1>0, <2>1, <2>2, <2>8, <2>3 DEF HB!FlagIsHeard, HB!LostIsMissed, OneGoes
  <2> QED
    BY <1>0, <2>1, <2>2, <2>8, <2>3, BeatStep DEF HB!Statement
<1>7. CASE HB!Compare(n)
  <2>1. PICK to \in {"close", "head"} : HB!Goes(n, "compare", to)
    BY <1>7 DEF HB!Compare
  <2>2. Same /\ Flags /\ UNCHANGED pinged
    BY <1>7 DEF HB!Compare, HB!server, HB!client, HB!history
  <2>3. to = "close" => failPingCount = 3
    BY <1>0, <1>7, <2>1 DEF HB!Compare, HB!Goes, HB!TypeOK
  <2>8. ASSUME HB!FlagIsHeard, HB!LostIsMissed, OneGoes(n, "compare", to)
        PROVE  HB!FlagIsHeard' /\ HB!LostIsMissed'
    BY <1>0, <2>1, <2>2, <2>8, <2>3 DEF HB!FlagIsHeard, HB!LostIsMissed, OneGoes
  <2> QED
    BY <1>0, <2>1, <2>2, <2>8, <2>3, BeatStep DEF HB!Statement
<1>8. CASE HB!GiveUp(n)
  <2>1. HB!Goes(n, "close", "head") /\ HB!CloseConnect
    BY <1>8 DEF HB!GiveUp
  <2>2. /\ Flags /\ UNCHANGED <<peer, pinged, pongs, conn, connecting>>
        /\ disconnects' \in 0..2
    BY <1>0, <1>8 DEF HB!GiveUp, HB!server, HB!TypeOK
  <2>3. HB!TypeOK'
    <3>1. pinger' \in [HB!Conn -> HB!Statement]
      BY <1>0, <2>1 DEF HB!TypeOK, HB!Goes, HB!Statement
    <3> QED
      BY <1>0, <2>1, <2>2, <3>1, ClosingTypes DEF HB!TypeOK
  <2>4. ASSUME HB!Alone' PROVE HB!OneThread' /\ HB!FlagIsHeard' /\ HB!LostIsMissed'
    <3>1. HB!OneThread /\ HB!FlagIsHeard /\ HB!LostIsMissed
      BY <1>0, <2>1, <2>4, ClosingTypes DEF HB!IInv
    <3>2. HB!OneThread' /\ OneGoes(n, "close", "head")
      BY <1>0, <2>1, <3>1, GoesOn DEF HB!Statement
    <3>3. missed = 3
      BY <1>0, <3>1, <3>2 DEF HB!LostIsMissed, OneGoes
    <3>4. HB!FlagIsHeard'
      BY <2>2, <3>1, <3>2 DEF HB!FlagIsHeard, OneGoes
    <3>5. HB!LostIsMissed'
      BY <2>2, <3>2, <3>3 DEF HB!LostIsMissed, OneGoes
    <3> QED
      BY <3>2, <3>4, <3>5
  <2> QED
    BY <2>3, <2>4 DEF HB!IInv
<1> QED
  BY <1>1, <1>2, <1>3, <1>4, <1>5, <1>6, <1>7, <1>8 DEF HB!Beat

LEMMA StutterPings == HB!IInv /\ UNCHANGED HB!vars => HB!IInv'
<1> SUFFICES ASSUME HB!IInv, UNCHANGED HB!vars PROVE HB!IInv'
  OBVIOUS
<1>1. HB!TypeOK'
  BY DEF HB!IInv, HB!TypeOK, HB!vars, HB!server, HB!client, HB!beat, HB!history
<1> QED
  BY <1>1, SameThreads DEF HB!IInv, HB!vars, HB!beat, HB!history, HB!Alone

(* The inductive invariant of the heartbeat.                               *)
THEOREM HeartbeatInvariance ==
  ASSUME PingAssumption
  PROVE  HB!Spec => []HB!IInv
<1>1. HB!IInv /\ [HB!Next]_HB!vars => HB!IInv'
  BY ConnectPings, OutsidePings, BeatPings, StutterPings DEF HB!Next
<1> QED
  BY InitPings, <1>1, PTL DEF HB!Spec

(* Every variable keeps its type: the count of lost pings, what a thread   *)
(* has read of it, and the statement each thread is at.                    *)
THEOREM HeartbeatTypeCorrect ==
  ASSUME PingAssumption
  PROVE  HB!Spec => []HB!TypeOK
  BY HeartbeatInvariance, PTL DEF HB!IInv

(* The client gives a server up only after three pings without a PONG,     *)
(* unless a PONG came before the flag was reset or two threads shared it.  *)
THEOREM GivenUpWhenSilent ==
  ASSUME PingAssumption
  PROVE  HB!Spec => []HB!DisconnectIsEarned
<1>1. HB!IInv => HB!DisconnectIsEarned
  BY DEF HB!IInv, HB!DisconnectIsEarned, HB!LostIsMissed
<1> QED
  BY HeartbeatInvariance, <1>1, PTL

-----------------------------------------------------------------------------
(***************************************************************************)
(* The pool of the notice backends (Backends), which shares nothing with   *)
(* the client above: what it holds as long as ZooKeeper is quiet and every *)
(* backend can be reached, for any backends and senders.                   *)
(***************************************************************************)
CONSTANTS Backend, Sender, MaxChange, Null
VARIABLES data, version, touched, watches, events, up, backEndsInfo, read, pool, lock,
          at, todo, target, denied, notified, excuses

BK == INSTANCE Backends WITH causes <- excuses, refused <- denied

(* The types that the steps below need one by one.                         *)
LEMMA PoolTypes ==
  ASSUME BK!Constants, BK!TypeOK
  PROVE  /\ MaxChange \in Nat /\ version \in Nat /\ touched \in Nat
         /\ version <= MaxChange /\ touched <= MaxChange
         /\ read \in 0..version /\ notified \in 0..version
         /\ watches["backends"] \in 0..2 /\ watches["connectors"] \in 0..2
         /\ watches \in [BK!Path -> 0..2]
         /\ events \in Seq(BK!Path) /\ Len(events) \in Nat
         /\ at \in [BK!Thread -> BK!Place] /\ todo \in [BK!Thread -> SUBSET Backend]
         /\ target \in [Sender -> Backend \cup {Null}]
         /\ lock \in BK!Thread \cup {Null}
         /\ data \subseteq Backend /\ up \subseteq Backend
         /\ backEndsInfo = Null \/ backEndsInfo \subseteq Backend
         /\ pool = Null \/ pool \subseteq BK!Keys
         /\ excuses \subseteq {"zookeeper", "unreachable", "filling"}
  BY DEF BK!Constants, BK!TypeOK, BK!Path

LEMMA PoolNames ==
  ASSUME BK!Constants
  PROVE  /\ "watcher" \in BK!Thread /\ "watcher" \notin Sender /\ Null \notin BK!Thread
         /\ Sender \subseteq BK!Thread /\ \A t \in BK!Thread : t # "watcher" => t \in Sender
         /\ \A S \in SUBSET Backend : S # Null
         /\ \A S \in SUBSET BK!Keys : S # Null
<1>1. ASSUME NEW S \in SUBSET BK!Keys PROVE S # Null
  <2> DEFINE T == {b \in Backend : BK!Key(b) \in S}
  <2>1. S = {b - BK!PORT_DISTANCE : b \in T} /\ T \in SUBSET Backend
    BY DEF BK!Keys, BK!Key
  <2> QED
    BY <2>1 DEF BK!Constants
<1> QED
  BY <1>1 DEF BK!Constants, BK!Thread

LEMMA InitPool ==
  ASSUME BK!Constants, BK!Init
  PROVE  BK!IInv
<1>1. 0 \in 0..MaxChange /\ 0 \in 0..0 /\ 1 \in 0..2 /\ <<>> \in Seq(BK!Path) /\ Len(<<>>) = 0
  BY DEF BK!Constants
<1>2. BK!TypeOK
  <2>1. /\ at \in [BK!Thread -> BK!Place] /\ todo \in [BK!Thread -> SUBSET Backend]
        /\ target \in [Sender -> Backend \cup {Null}] /\ watches \in [BK!Path -> 0..2]
    BY <1>1 DEF BK!Init, BK!Place
  <2>2. /\ data \subseteq Backend /\ up \subseteq Backend /\ denied \in BOOLEAN
        /\ excuses \subseteq {"zookeeper", "unreachable", "filling"}
    BY DEF BK!Init
  <2> QED
    BY <1>1, <2>1, <2>2 DEF BK!Init, BK!TypeOK
<1>3. BK!TwoWatches
  <2>1. watches["backends"] = 1 /\ watches["connectors"] = 1 /\ Len(events) = 0
        /\ at["watcher"] = "idle"
    BY <1>1, PoolNames DEF BK!Init, BK!Path
  <2> QED
    BY <2>1 DEF BK!TwoWatches
<1>4. BK!Locked /\ BK!Made /\ BK!Quiet /\ BK!Filled /\ BK!Targeted /\ BK!RefusedWhileFilling
  BY PoolNames DEF BK!Init, BK!Locked, BK!Made, BK!Quiet,
     BK!Filled, BK!Targeted, BK!RefusedWhileFilling
<1> QED
  BY <1>2, <1>3, <1>4 DEF BK!IInv

(* Steps of ZooKeeper and the backends.                                    *)
LEMMA FireTypes ==
  ASSUME BK!Constants, BK!TypeOK, NEW p \in BK!Path, BK!Fire(p)
  PROVE  /\ watches' \in [BK!Path -> 0..2] /\ events' \in Seq(BK!Path)
         /\ watches'["backends"] + watches'["connectors"] + Len(events')
              = watches["backends"] + watches["connectors"] + Len(events)
<1>0. watches \in [BK!Path -> 0..2] /\ watches[p] \in 0..2 /\ events \in Seq(BK!Path)
  BY PoolTypes
<1> DEFINE fired == [i \in 1..watches[p] |-> p]
<1>1. fired \in Seq(BK!Path) /\ Len(fired) = watches[p]
  BY <1>0
<1>2. events' = events \o fired /\ watches' = [watches EXCEPT ![p] = 0]
  BY DEF BK!Fire
<1> HIDE DEF fired
<1>3. events' \in Seq(BK!Path) /\ Len(events') = Len(events) + watches[p]
  BY <1>0, <1>1, <1>2
<1>4. watches' \in [BK!Path -> 0..2]
  BY <1>0, <1>2
<1>5. /\ p = "backends" => watches'["backends"] = 0 /\ watches'["connectors"] = watches["connectors"]
      /\ p = "connectors" => watches'["connectors"] = 0 /\ watches'["backends"] = watches["backends"]
      /\ p \in {"backends", "connectors"}
  BY <1>0, <1>2 DEF BK!Path
<1>6. Len(events) \in Nat /\ watches["backends"] \in 0..2 /\ watches["connectors"] \in 0..2
  BY PoolTypes
<1> QED
  BY <1>3, <1>4, <1>5, <1>6

LEMMA ZookeeperStep ==
  ASSUME BK!Constants, BK!IInv, BK!BackendsChange \/ BK!ConnectorsChange
  PROVE  BK!IInv'
<1>0. BK!TypeOK
  BY DEF BK!IInv
<1>1. PICK p \in BK!Path : BK!Fire(p)
  BY DEF BK!BackendsChange, BK!ConnectorsChange, BK!Path
<1>2. /\ watches' \in [BK!Path -> 0..2] /\ events' \in Seq(BK!Path)
      /\ watches'["backends"] + watches'["connectors"] + Len(events')
           = watches["backends"] + watches["connectors"] + Len(events)
  BY <1>0, <1>1, FireTypes
<1>3. /\ version' \in 0..MaxChange /\ touched' \in 0..MaxChange /\ ~(version' = 0 /\ touched' = 0)
      /\ read' \in 0..version' /\ notified' \in 0..version'
  <2>1. CASE BK!BackendsChange
    <3>1. version < MaxChange /\ version' = version + 1 /\ UNCHANGED <<touched, read>>
          /\ notified' \in {version', notified}
      BY <2>1 DEF BK!BackendsChange, BK!cache
    <3> QED
      BY <1>0, <3>1, PoolTypes
  <2>2. CASE BK!ConnectorsChange
    <3>1. touched < MaxChange /\ touched' = touched + 1 /\ UNCHANGED <<version, read, notified>>
      BY <2>2 DEF BK!ConnectorsChange, BK!cache, BK!history
    <3> QED
      BY <1>0, <3>1, PoolTypes
  <2> QED
    BY <2>1, <2>2
<1>4. data' \subseteq Backend
  BY <1>0, PoolTypes DEF BK!BackendsChange, BK!ConnectorsChange
<1>5. UNCHANGED <<up, backEndsInfo, pool, lock, at, todo, target, denied, excuses>>
  BY DEF BK!BackendsChange, BK!ConnectorsChange, BK!cache, BK!threads, BK!history
<1>6. BK!TypeOK'
  BY <1>0, <1>2, <1>3, <1>4, <1>5 DEF BK!TypeOK
<1>7. BK!TwoWatches'
  <2>1. BK!TwoWatches
    BY DEF BK!IInv
  <2> QED
    BY <1>2, <1>5, <2>1 DEF BK!TwoWatches
<1>8. BK!Locked' /\ BK!Made'
  BY <1>5 DEF BK!IInv, BK!Locked, BK!Made
<1>9. ~BK!Undisturbed'
  BY <1>3 DEF BK!Undisturbed
<1> QED
  BY <1>6, <1>7, <1>8, <1>9 DEF BK!IInv

(* A backend stops or starts.                                              *)
LEMMA BackendStep ==
  ASSUME BK!Constants, BK!IInv, NEW b \in Backend, BK!BackendStops(b) \/ BK!BackendStarts(b)
  PROVE  BK!IInv'
<1>1. /\ up' \subseteq Backend
      /\ UNCHANGED <<data, version, touched, watches, events, BK!cache, pool, lock, BK!threads, BK!history>>
  BY DEF BK!BackendStops, BK!BackendStarts, BK!zookeeper, BK!IInv, BK!TypeOK
<1>2. BK!TypeOK'
  BY <1>1 DEF BK!IInv, BK!TypeOK, BK!cache, BK!threads, BK!history
<1> QED
  BY <1>1, <1>2 DEF BK!IInv, BK!TwoWatches, BK!Locked, BK!Made, BK!Undisturbed, BK!Quiet,
     BK!Filled, BK!Targeted,
     BK!RefusedWhileFilling, BK!KeysOf, BK!cache, BK!threads, BK!history

LEMMA PoolStutters ==
  ASSUME BK!Constants, BK!IInv, UNCHANGED BK!vars
  PROVE  BK!IInv'
<1>1. BK!TypeOK'
  BY DEF BK!IInv, BK!TypeOK, BK!vars, BK!zookeeper, BK!cache, BK!threads, BK!history
<1> QED
  BY <1>1 DEF BK!IInv, BK!TwoWatches, BK!Locked, BK!Made, BK!Undisturbed, BK!Quiet,
     BK!Filled, BK!Targeted,
     BK!RefusedWhileFilling, BK!KeysOf, BK!vars, BK!zookeeper, BK!cache, BK!threads, BK!history

(* A thread that goes on, and what the watches and the lock make of it.    *)
LEMMA ThreadGoesOn ==
  ASSUME BK!Constants, BK!TypeOK, NEW t \in BK!Thread, NEW to \in BK!Place, BK!Goes(t, to)
  PROVE  /\ at' \in [BK!Thread -> BK!Place]
         /\ \A u \in BK!Thread : at'[u] = IF u = t THEN to ELSE at[u]
  BY PoolTypes DEF BK!Goes

LEMMA KeepWatches ==
  ASSUME BK!Constants, BK!TypeOK, BK!TwoWatches, UNCHANGED <<watches, events>>,
         at'["watcher"] = "idle" \/ at["watcher"] # "idle"
  PROVE  BK!TwoWatches'
<1>1. Len(events) \in Nat /\ watches["backends"] \in 0..2 /\ watches["connectors"] \in 0..2
  BY PoolTypes
<1> QED
  BY <1>1 DEF BK!TwoWatches

(* Without the lock a thread goes from one place outside the loops to      *)
(* another.                                                                *)
LEMMA KeepLock ==
  ASSUME BK!Constants, BK!TypeOK, BK!Locked, UNCHANGED lock, NEW t \in BK!Thread,
         at[t] \notin {"fill", "refresh"}, at'[t] \notin {"fill", "refresh"},
         \A u \in BK!Thread \ {t} : at'[u] = at[u]
  PROVE  BK!Locked'
  BY PoolNames DEF BK!Locked

LEMMA TakeLock ==
  ASSUME BK!Constants, BK!TypeOK, BK!Locked, BK!Free, NEW t \in BK!Thread, lock' = t,
         at'[t] \in {"fill", "refresh"}, at'[t] = "refresh" => t = "watcher",
         \A u \in BK!Thread \ {t} : at'[u] = at[u]
  PROVE  BK!Locked'
  BY PoolNames DEF BK!Locked, BK!Free

LEMMA FreeLock ==
  ASSUME BK!Constants, BK!TypeOK, BK!Locked, NEW t \in BK!Thread, at[t] \in {"fill", "refresh"}, lock' = Null,
         at'[t] \notin {"fill", "refresh"},
         \A u \in BK!Thread \ {t} : at'[u] = at[u]
  PROVE  BK!Locked'
  BY PoolNames DEF BK!Locked

(* getBackEndsInfo.                                                        *)
LEMMA Known ==
  ASSUME BK!Constants, BK!TypeOK, BK!KnowsBackends
  PROVE  /\ backEndsInfo' \subseteq Backend /\ backEndsInfo' # Null /\ read' \in 0..version
         /\ backEndsInfo # Null => backEndsInfo' = backEndsInfo
<1>1. version \in Nat /\ read \in 0..version /\ data \subseteq Backend
      /\ (backEndsInfo = Null \/ backEndsInfo \subseteq Backend)
  BY PoolTypes
<1>2. backEndsInfo' \subseteq Backend /\ (backEndsInfo # Null => backEndsInfo' = backEndsInfo)
  BY <1>1 DEF BK!KnowsBackends, BK!cache
<1>3. read' \in 0..version
  BY <1>1 DEF BK!KnowsBackends, BK!cache
<1> QED
  BY <1>2, <1>3, PoolNames

LEMMA CheckPoolStep ==
  ASSUME BK!Constants, BK!IInv, NEW t \in BK!Thread, BK!CheckPool(t)
  PROVE  BK!IInv'
<1>0. BK!TypeOK /\ BK!Locked /\ BK!TwoWatches
  BY DEF BK!IInv
<1>1. PICK to \in BK!Place : /\ BK!Goes(t, to) /\ to \in {"init", "lock", "get"}
                             /\ to = "get" => pool # Null
  BY DEF BK!CheckPool, BK!Place
<1>2. at' \in [BK!Thread -> BK!Place] /\ \A u \in BK!Thread : at'[u] = IF u = t THEN to ELSE at[u]
  BY <1>0, <1>1, ThreadGoesOn
<1>3. UNCHANGED <<data, version, touched, watches, events, up, backEndsInfo, read, pool, lock,
                  todo, target, denied, notified, excuses>>
  BY DEF BK!CheckPool, BK!zookeeper, BK!cache, BK!history
<1>4. at[t] = IF t = "watcher" THEN "update" ELSE "client"
  BY DEF BK!CheckPool
<1>5. BK!TypeOK'
  BY <1>0, <1>2, <1>3 DEF BK!TypeOK
<1>6. BK!TwoWatches'
  BY <1>0, <1>2, <1>3, <1>4, KeepWatches, PoolNames
<1>7. BK!Locked'
  BY <1>0, <1>1, <1>2, <1>3, <1>4, KeepLock
<1>9. BK!Made'
  BY <1>2, <1>3, PoolNames DEF BK!IInv, BK!Made, BK!CheckPool, BK!Goes
<1>8. ASSUME BK!Undisturbed' PROVE BK!Quiet' /\ BK!Filled' /\ BK!Targeted' /\ BK!RefusedWhileFilling'
  <2>1. BK!Undisturbed /\ BK!Quiet /\ t # "watcher"
    BY <1>3, <1>4, <1>8 DEF BK!Undisturbed, BK!IInv, BK!Quiet
  <2>2. BK!Quiet' /\ BK!Filled' /\ BK!RefusedWhileFilling'
    BY <1>2, <1>3, <2>1, PoolNames DEF BK!IInv, BK!Quiet, BK!Filled, BK!KeysOf, BK!RefusedWhileFilling
  <2>3. BK!Targeted'
    BY <1>1, <1>2, <1>3, <1>4, <2>1, PoolNames DEF BK!IInv, BK!Targeted
  <2> QED
    BY <2>2, <2>3
<1> QED
  BY <1>5, <1>6, <1>7, <1>8, <1>9 DEF BK!IInv

LEMMA StartFillStep ==
  ASSUME BK!Constants, BK!IInv, NEW t \in BK!Thread, BK!StartFill(t)
  PROVE  BK!IInv'
<1>0. BK!TypeOK /\ BK!Locked /\ BK!TwoWatches
  BY DEF BK!IInv
<1>1. UNCHANGED <<data, version, touched, watches, events, up, target, denied, notified, excuses>>
      /\ at[t] = "init" /\ BK!Free
  BY DEF BK!StartFill, BK!zookeeper, BK!history
<1>2. CASE pool = Null
  <2>1. /\ lock' = t /\ pool' = {} /\ BK!KnowsBackends /\ BK!Goes(t, "fill")
        /\ todo' = [todo EXCEPT ![t] = backEndsInfo']
    BY <1>2 DEF BK!StartFill
  <2>2. /\ backEndsInfo' \subseteq Backend /\ backEndsInfo' # Null /\ read' \in 0..version
        /\ backEndsInfo # Null => backEndsInfo' = backEndsInfo
    BY <1>0, <2>1, Known
  <2>3. at' \in [BK!Thread -> BK!Place] /\ \A u \in BK!Thread : at'[u] = IF u = t THEN "fill" ELSE at[u]
    BY <1>0, <2>1, ThreadGoesOn DEF BK!Place
  <2>4. todo' \in [BK!Thread -> SUBSET Backend] /\ todo'[t] = backEndsInfo'
    BY <1>0, <2>1, <2>2, PoolTypes
  <2>5. BK!TypeOK'
    BY <1>0, <1>1, <2>1, <2>2, <2>3, <2>4 DEF BK!TypeOK
  <2>6. BK!TwoWatches'
    BY <1>0, <1>1, <2>3, KeepWatches, PoolNames
  <2>7. BK!Locked'
    BY <1>0, <1>1, <2>1, <2>3, TakeLock
  <2>9. BK!Made'
    BY <2>1, PoolNames DEF BK!Made
  <2>8. ASSUME BK!Undisturbed' PROVE BK!Quiet' /\ BK!Filled' /\ BK!Targeted' /\ BK!RefusedWhileFilling'
    <3>1. BK!Undisturbed /\ BK!Quiet /\ t # "watcher"
      BY <1>1, <2>8 DEF BK!Undisturbed, BK!IInv, BK!Quiet
    <3>2. BK!Quiet' /\ BK!RefusedWhileFilling'
      BY <1>1, <2>3, <3>1, PoolNames DEF BK!IInv, BK!Quiet, BK!RefusedWhileFilling
    <3>3. BK!Filled'
      BY <2>1, <2>2, <2>4, PoolNames DEF BK!Filled, BK!KeysOf
    <3>4. BK!Targeted'
      BY <1>1, <1>2, <2>2, <2>3, <3>1, PoolNames DEF BK!IInv, BK!Targeted
    <3> QED
      BY <3>2, <3>3, <3>4
  <2> QED
    BY <2>5, <2>6, <2>7, <2>8, <2>9 DEF BK!IInv
<1>3. CASE pool # Null
  <2>1. UNCHANGED <<lock, pool, backEndsInfo, read, todo>> /\ BK!Goes(t, BK!AfterPool(t))
    BY <1>3 DEF BK!StartFill, BK!cache
  <2>2. BK!AfterPool(t) \in {"watch", "get"}
    BY DEF BK!AfterPool
  <2>3. /\ at' \in [BK!Thread -> BK!Place]
        /\ \A u \in BK!Thread : at'[u] = IF u = t THEN BK!AfterPool(t) ELSE at[u]
    BY <1>0, <2>1, <2>2, ThreadGoesOn DEF BK!Place
  <2>4. BK!TypeOK'
    BY <1>0, <1>1, <2>1, <2>3 DEF BK!TypeOK
  <2>5. BK!TwoWatches'
    BY <1>0, <1>1, <2>3, KeepWatches, PoolNames
  <2>6. BK!Locked'
    BY <1>0, <1>1, <2>1, <2>2, <2>3, KeepLock
  <2>8. BK!Made'
    BY <1>3, <2>1 DEF BK!Made
  <2>7. ASSUME BK!Undisturbed' PROVE BK!Quiet' /\ BK!Filled' /\ BK!Targeted' /\ BK!RefusedWhileFilling'
    <3>1. BK!Undisturbed /\ BK!Quiet /\ t # "watcher"
      BY <1>1, <2>7 DEF BK!Undisturbed, BK!IInv, BK!Quiet
    <3>2. BK!Quiet' /\ BK!Filled' /\ BK!RefusedWhileFilling'
      BY <1>1, <2>1, <2>3, <3>1, PoolNames DEF BK!IInv, BK!Quiet, BK!Filled, BK!KeysOf, BK!RefusedWhileFilling
    <3>3. BK!Targeted'
      BY <1>1, <1>3, <2>1, <2>2, <2>3, <3>1, PoolNames DEF BK!IInv, BK!Targeted
    <3> QED
      BY <3>2, <3>3
  <2> QED
    BY <2>4, <2>5, <2>6, <2>7, <2>8 DEF BK!IInv
<1> QED
  BY <1>2, <1>3

LEMMA StartRefreshStep ==
  ASSUME BK!Constants, BK!IInv, BK!StartRefresh
  PROVE  BK!IInv'
<1>0. BK!TypeOK /\ BK!Locked /\ BK!TwoWatches
  BY DEF BK!IInv
<1>1. UNCHANGED <<data, version, touched, watches, events, up, pool, target, denied, notified,
                  excuses>>
      /\ at["watcher"] = "lock" /\ BK!Free /\ lock' = "watcher"
      /\ BK!KnowsBackends /\ BK!Goes("watcher", "refresh")
      /\ todo' = [todo EXCEPT !["watcher"] = backEndsInfo']
  BY DEF BK!StartRefresh, BK!zookeeper, BK!history
<1>2. backEndsInfo' \subseteq Backend /\ read' \in 0..version
  BY <1>0, <1>1, Known
<1>3. /\ at' \in [BK!Thread -> BK!Place]
      /\ \A u \in BK!Thread : at'[u] = IF u = "watcher" THEN "refresh" ELSE at[u]
  BY <1>0, <1>1, ThreadGoesOn, PoolNames DEF BK!Place
<1>4. todo' \in [BK!Thread -> SUBSET Backend]
  BY <1>0, <1>1, <1>2, PoolTypes
<1>5. BK!TypeOK'
  BY <1>0, <1>1, <1>2, <1>3, <1>4, PoolNames DEF BK!TypeOK
<1>6. BK!TwoWatches'
  BY <1>0, <1>1, <1>3, KeepWatches, PoolNames
<1>7. BK!Locked' /\ BK!Made'
  <2>1. BK!Locked'
    BY <1>0, <1>1, <1>3, TakeLock, PoolNames
  <2>2. BK!Made'
    BY <1>1 DEF BK!IInv, BK!Made
  <2> QED
    BY <2>1, <2>2
<1>8. ~BK!Undisturbed'
  BY <1>1 DEF BK!IInv, BK!Undisturbed, BK!Quiet
<1> QED
  BY <1>5, <1>6, <1>7, <1>8 DEF BK!IInv

(* A round of a loop: the backend has its connection, or gets it.          *)
LEMMA LoopStep ==
  ASSUME BK!Constants, BK!IInv, NEW t \in BK!Thread, NEW b \in Backend,
         BK!KeepConnection(t, b) \/ BK!OpenConnection(t, b)
  PROVE  BK!IInv'
<1>0. BK!TypeOK /\ BK!Locked /\ BK!Made /\ BK!TwoWatches /\ todo \in [BK!Thread -> SUBSET Backend]
      /\ (pool = Null \/ pool \subseteq BK!Keys)
  BY PoolTypes DEF BK!IInv
<1>1. UNCHANGED <<data, version, touched, watches, events, up, backEndsInfo, read, lock, at, target,
                  denied, notified, excuses>>
  BY DEF BK!KeepConnection, BK!OpenConnection, BK!zookeeper, BK!cache, BK!history
<1>2. b \in todo[t] /\ at[t] \in {"fill", "refresh"} /\ todo' = [todo EXCEPT ![t] = @ \ {b}]
  BY DEF BK!KeepConnection, BK!OpenConnection, BK!Loops
<1>3. lock = t /\ lock # Null /\ pool # Null
  BY <1>0, <1>2, PoolNames DEF BK!Locked, BK!Made
<1>4. todo' \in [BK!Thread -> SUBSET Backend] /\ todo'[t] = todo[t] \ {b}
  BY <1>0, <1>2
<1>5. pool' = pool \cup {BK!Key(b)}
  BY DEF BK!KeepConnection, BK!OpenConnection
<1>6. pool' \subseteq BK!Keys /\ pool' # Null
  BY <1>0, <1>3, <1>5, PoolNames DEF BK!Keys
<1>7. BK!TypeOK'
  BY <1>0, <1>1, <1>4, <1>6 DEF BK!TypeOK
<1>8. BK!TwoWatches' /\ BK!Locked' /\ BK!Made'
  BY <1>0, <1>1, <1>6 DEF BK!TwoWatches, BK!Locked, BK!Made
<1>9. ASSUME BK!Undisturbed' PROVE BK!Quiet' /\ BK!Filled' /\ BK!Targeted' /\ BK!RefusedWhileFilling'
  <2>1. BK!Undisturbed
    BY <1>1, <1>9 DEF BK!Undisturbed
  <2>2. BK!Quiet' /\ BK!Targeted' /\ BK!RefusedWhileFilling'
    BY <1>1, <1>6, <2>1 DEF BK!IInv, BK!Quiet, BK!Targeted, BK!RefusedWhileFilling
  <2>3. todo[t] \subseteq backEndsInfo /\ pool \cup BK!KeysOf(todo[t]) = BK!KeysOf(backEndsInfo)
        /\ backEndsInfo # Null
    BY <1>3, <2>1 DEF BK!IInv, BK!Filled
  <2>4. pool' \cup BK!KeysOf(todo'[t]) = BK!KeysOf(backEndsInfo)
    BY <1>2, <1>4, <1>5, <2>3 DEF BK!KeysOf
  <2>5. BK!Filled'
    BY <1>1, <1>3, <1>4, <2>3, <2>4 DEF BK!Filled, BK!KeysOf
  <2> QED
    BY <2>2, <2>5
<1> QED
  BY <1>7, <1>8, <1>9 DEF BK!IInv

LEMMA OpenFailsStep ==
  ASSUME BK!Constants, BK!IInv, NEW t \in BK!Thread, NEW b \in Backend, BK!OpenFails(t, b)
  PROVE  BK!IInv'
<1>0. BK!TypeOK /\ BK!Locked /\ BK!TwoWatches /\ todo \in [BK!Thread -> SUBSET Backend]
      /\ target \in [Sender -> Backend \cup {Null}]
  BY PoolTypes DEF BK!IInv
<1>1. UNCHANGED <<data, version, touched, watches, events, up, backEndsInfo, read, pool,
                  denied, notified>>
  BY DEF BK!OpenFails, BK!zookeeper, BK!cache
<1>2. /\ at[t] \in {"fill", "refresh"} /\ todo' = [todo EXCEPT ![t] = {}] /\ lock' = Null
      /\ BK!Goes(t, BK!AfterThrow(t)) /\ BK!Forget(t) /\ excuses' = excuses \cup {"unreachable"}
  BY DEF BK!OpenFails, BK!Loops, BK!Excuse
<1>3. BK!AfterThrow(t) \in {"watch", "idle"}
  BY DEF BK!AfterThrow
<1>4. /\ at' \in [BK!Thread -> BK!Place]
      /\ \A u \in BK!Thread : at'[u] = IF u = t THEN BK!AfterThrow(t) ELSE at[u]
  BY <1>0, <1>2, <1>3, ThreadGoesOn DEF BK!Place
<1>5. todo' \in [BK!Thread -> SUBSET Backend] /\ target' \in [Sender -> Backend \cup {Null}]
  BY <1>0, <1>2 DEF BK!Forget
<1>6. BK!TypeOK'
  BY <1>0, <1>1, <1>2, <1>4, <1>5 DEF BK!TypeOK
<1>7. BK!TwoWatches'
  <2>1. at["watcher"] = "idle" => at'["watcher"] = "idle"
    BY <1>2, <1>4, PoolNames
  <2> QED
    BY <1>0, <1>1, <2>1, KeepWatches
<1>8. BK!Locked' /\ BK!Made'
  <2>1. BK!Locked'
    BY <1>0, <1>2, <1>3, <1>4, FreeLock
  <2>2. BK!Made'
    BY <1>1, <1>2, <1>3, <1>4, PoolNames DEF BK!IInv, BK!Made
  <2> QED
    BY <2>1, <2>2
<1>9. ~BK!Undisturbed'
  BY <1>2 DEF BK!Undisturbed
<1> QED
  BY <1>6, <1>7, <1>8, <1>9 DEF BK!IInv

(* The list cannot be read: never while nothing has changed.               *)
LEMMA ReadFailsStep ==
  ASSUME BK!Constants, BK!IInv, NEW t \in BK!Thread, BK!ReadFails(t)
  PROVE  BK!IInv'
<1>0. BK!TypeOK /\ BK!Locked /\ BK!Made /\ BK!TwoWatches /\ target \in [Sender -> Backend \cup {Null}]
      /\ excuses \subseteq {"zookeeper", "unreachable", "filling"}
      /\ (pool = Null \/ pool \subseteq BK!Keys)
  BY PoolTypes DEF BK!IInv
<1>1. UNCHANGED <<data, version, touched, watches, events, up, backEndsInfo, read, lock, todo,
                  denied, notified>>
  BY DEF BK!ReadFails, BK!zookeeper, BK!cache
<1>2. /\ at[t] \in {"init", "lock"} /\ backEndsInfo = Null /\ pool' \in {pool, {}}
      /\ at[t] = "init" => pool' = {}
      /\ at[t] = "lock" => t = "watcher"
      /\ BK!Goes(t, BK!AfterThrow(t)) /\ BK!Forget(t) /\ excuses' = excuses \cup {"zookeeper"}
  BY DEF BK!ReadFails, BK!Excuse
<1>3. BK!AfterThrow(t) \in {"watch", "idle"} /\ (t # "watcher" => BK!AfterThrow(t) = "idle")
  BY DEF BK!AfterThrow
<1>4. /\ at' \in [BK!Thread -> BK!Place]
      /\ \A u \in BK!Thread : at'[u] = IF u = t THEN BK!AfterThrow(t) ELSE at[u]
  BY <1>0, <1>2, <1>3, ThreadGoesOn DEF BK!Place
<1>5. /\ target' \in [Sender -> Backend \cup {Null}] /\ (pool' = Null \/ pool' \subseteq BK!Keys)
      /\ \A u \in Sender \ {t} : target'[u] = target[u]
      /\ excuses' \subseteq {"zookeeper", "unreachable", "filling"}
  BY <1>0, <1>2 DEF BK!Forget
<1>6. BK!TypeOK'
  BY <1>0, <1>1, <1>4, <1>5 DEF BK!TypeOK
<1>7. BK!TwoWatches'
  <2>1. at["watcher"] = "idle" => at'["watcher"] = "idle"
    BY <1>2, <1>4, PoolNames
  <2> QED
    BY <1>0, <1>1, <2>1, KeepWatches
<1>8. BK!Locked' /\ BK!Made'
  <2>1. BK!Locked'
    BY <1>0, <1>1, <1>2, <1>3, <1>4, KeepLock
  <2>2. BK!Made'
    BY <1>0, <1>1, <1>2, <1>3, <1>4, PoolNames DEF BK!Made
  <2> QED
    BY <2>1, <2>2
<1>9. ~BK!Undisturbed
  <2>1. SUFFICES ASSUME BK!Undisturbed PROVE FALSE
    OBVIOUS
  <2>2. BK!Quiet /\ BK!Targeted
    BY <2>1 DEF BK!IInv
  <2>3. t # "watcher"
    BY <1>2, <2>2 DEF BK!Quiet
  <2>4. t \in Sender /\ at[t] # "init"
    BY <1>2, <2>2, <2>3, PoolNames DEF BK!Targeted
  <2> QED
    BY <1>2, <2>3, <2>4
<1>10. ~BK!Undisturbed'
  BY <1>1, <1>2, <1>9 DEF BK!Undisturbed
<1> QED
  BY <1>6, <1>7, <1>8, <1>10 DEF BK!IInv

LEMMA EndFillStep ==
  ASSUME BK!Constants, BK!IInv, NEW t \in BK!Thread, BK!EndFill(t)
  PROVE  BK!IInv'
<1>0. BK!TypeOK /\ BK!Locked /\ BK!Made /\ BK!TwoWatches
  BY DEF BK!IInv
<1>1. UNCHANGED <<data, version, touched, watches, events, up, backEndsInfo, read, pool, todo, target,
                  denied, notified, excuses>>
  BY DEF BK!EndFill, BK!zookeeper, BK!cache, BK!history
<1>2. /\ at[t] = "fill" /\ todo[t] = {} /\ lock' = Null /\ BK!Goes(t, BK!AfterPool(t))
  BY DEF BK!EndFill
<1>3. BK!AfterPool(t) \in {"watch", "get"}
  BY DEF BK!AfterPool
<1>4. /\ at' \in [BK!Thread -> BK!Place]
      /\ \A u \in BK!Thread : at'[u] = IF u = t THEN BK!AfterPool(t) ELSE at[u]
  BY <1>0, <1>2, <1>3, ThreadGoesOn DEF BK!Place
<1>5. lock = t /\ pool # Null
  BY <1>0, <1>2, PoolNames DEF BK!Locked, BK!Made
<1>6. BK!TypeOK'
  BY <1>0, <1>1, <1>2, <1>4 DEF BK!TypeOK
<1>7. BK!TwoWatches'
  BY <1>0, <1>1, <1>2, <1>4, KeepWatches, PoolNames
<1>8. BK!Locked' /\ BK!Made'
  <2>1. BK!Locked'
    BY <1>0, <1>2, <1>3, <1>4, FreeLock
  <2> QED
    BY <1>1, <1>5, <2>1 DEF BK!Made
<1>9. ASSUME BK!Undisturbed' PROVE BK!Quiet' /\ BK!Filled' /\ BK!Targeted' /\ BK!RefusedWhileFilling'
  <2>1. BK!Undisturbed /\ BK!Quiet /\ t # "watcher"
    BY <1>1, <1>2, <1>9 DEF BK!Undisturbed, BK!IInv, BK!Quiet
  <2>2. BK!Quiet' /\ BK!RefusedWhileFilling'
    BY <1>1, <1>4, <2>1, PoolNames DEF BK!IInv, BK!Quiet, BK!RefusedWhileFilling
  <2>3. BK!Filled'
    <3>1. backEndsInfo # Null /\ pool \cup BK!KeysOf(todo[t]) = BK!KeysOf(backEndsInfo)
      BY <1>5, <2>1, PoolNames DEF BK!IInv, BK!Filled
    <3>2. BK!KeysOf(todo[t]) = {}
      BY <1>2 DEF BK!KeysOf
    <3> QED
      BY <1>1, <1>2, <3>1, <3>2 DEF BK!Filled, BK!KeysOf
  <2>4. BK!Targeted'
    BY <1>1, <1>2, <1>4, <1>5, <2>1, PoolNames DEF BK!IInv, BK!Targeted
  <2> QED
    BY <2>2, <2>3, <2>4
<1> QED
  BY <1>6, <1>7, <1>8, <1>9 DEF BK!IInv

(* The watcher's other steps come only after a change.                     *)
LEMMA PruneStep ==
  ASSUME BK!Constants, BK!IInv, BK!Prune
  PROVE  BK!IInv'
<1>0. BK!TypeOK /\ BK!Locked /\ BK!Made /\ BK!TwoWatches /\ (pool = Null \/ pool \subseteq BK!Keys)
      /\ target \in [Sender -> Backend \cup {Null}]
  BY PoolTypes DEF BK!IInv
<1>1. UNCHANGED <<data, version, touched, watches, events, up, backEndsInfo, read, todo,
                  denied, notified, excuses>>
      /\ at["watcher"] = "refresh" /\ lock' = Null
  BY DEF BK!Prune, BK!zookeeper, BK!cache, BK!history
<1>2. lock = "watcher" /\ pool # Null
  BY <1>0, <1>1, PoolNames DEF BK!Locked, BK!Made
<1>3. pool' \subseteq BK!Keys /\ pool' # Null
  BY <1>0, <1>2, PoolNames DEF BK!Prune
<1>10. target' \in [Sender -> Backend \cup {Null}]
  BY <1>0 DEF BK!Prune, BK!Close
<1>4. PICK to \in {"watch", "idle"} : BK!Goes("watcher", to)
  BY DEF BK!Prune
<1>5. /\ at' \in [BK!Thread -> BK!Place]
      /\ \A u \in BK!Thread : at'[u] = IF u = "watcher" THEN to ELSE at[u]
  BY <1>0, <1>4, ThreadGoesOn, PoolNames DEF BK!Place
<1>6. BK!TypeOK'
  BY <1>0, <1>1, <1>3, <1>5, <1>10 DEF BK!TypeOK
<1>7. BK!TwoWatches'
  BY <1>0, <1>1, KeepWatches
<1>8. BK!Locked' /\ BK!Made'
  <2>1. BK!Locked'
    BY <1>0, <1>1, <1>4, <1>5, FreeLock, PoolNames
  <2> QED
    BY <1>3, <2>1 DEF BK!Made
<1>9. ~BK!Undisturbed'
  BY <1>1 DEF BK!IInv, BK!Undisturbed, BK!Quiet
<1> QED
  BY <1>6, <1>7, <1>8, <1>9 DEF BK!IInv

LEMMA NoticeStep ==
  ASSUME BK!Constants, BK!IInv, BK!Notice
  PROVE  BK!IInv'
<1>0. BK!TypeOK /\ BK!Locked /\ BK!Made /\ BK!TwoWatches /\ events \in Seq(BK!Path)
  BY PoolTypes DEF BK!IInv
<1>1. UNCHANGED <<data, version, touched, watches, up, pool, lock, todo, target, denied, notified>>
      /\ at["watcher"] = "idle" /\ events # <<>> /\ events' = Tail(events)
      /\ BK!Goes("watcher", "update")
  BY DEF BK!Notice
<1>2. events' \in Seq(BK!Path) /\ Len(events') = Len(events) - 1
  BY <1>0, <1>1
<1>3. /\ backEndsInfo' = Null \/ backEndsInfo' \subseteq Backend
      /\ read' \in {read, version}
      /\ excuses' \subseteq {"zookeeper", "unreachable", "filling"}
  BY <1>0, PoolTypes DEF BK!Notice, BK!cache, BK!Excuse
<1>4. read' \in 0..version
  BY <1>0, <1>3, PoolTypes
<1>5. /\ at' \in [BK!Thread -> BK!Place]
      /\ \A u \in BK!Thread : at'[u] = IF u = "watcher" THEN "update" ELSE at[u]
  BY <1>0, <1>1, ThreadGoesOn, PoolNames DEF BK!Place
<1>6. BK!TypeOK'
  BY <1>0, <1>1, <1>2, <1>3, <1>4, <1>5 DEF BK!TypeOK
<1>7. BK!TwoWatches'
  <2>1. Len(events) \in Nat /\ watches["backends"] \in 0..2 /\ watches["connectors"] \in 0..2
    BY <1>0, PoolTypes
  <2>2. at'["watcher"] = "update" /\ at["watcher"] = "idle" /\ UNCHANGED watches
    BY <1>1, <1>5, PoolNames
  <2> QED
    BY <1>0, <1>2, <2>1, <2>2 DEF BK!TwoWatches
<1>8. BK!Locked' /\ BK!Made'
  <2>1. at'["watcher"] = "update" /\ UNCHANGED <<lock, pool>>
    BY <1>1, <1>5, PoolNames
  <2>2. BK!Locked'
    BY <1>0, <1>1, <1>5, <2>1, KeepLock, PoolNames
  <2> QED
    BY <1>0, <2>1, <2>2 DEF BK!Made
<1>9. ~BK!Undisturbed'
  BY <1>1, <1>3 DEF BK!IInv, BK!Undisturbed, BK!Quiet, BK!Notice, BK!Excuse
<1> QED
  BY <1>6, <1>7, <1>8, <1>9 DEF BK!IInv

LEMMA WatchAgainStep ==
  ASSUME BK!Constants, BK!IInv, BK!WatchAgain
  PROVE  BK!IInv'
<1>0. BK!TypeOK /\ BK!Locked /\ BK!Made /\ BK!TwoWatches /\ watches \in [BK!Path -> 0..2]
      /\ excuses \subseteq {"zookeeper", "unreachable", "filling"}
  BY PoolTypes DEF BK!IInv
<1>1. UNCHANGED <<data, version, touched, events, up, backEndsInfo, read, pool, lock, todo, target,
                  denied, notified>>
      /\ at["watcher"] = "watch" /\ BK!Goes("watcher", "idle")
      /\ watches' \in {watches, [watches EXCEPT !["connectors"] = @ + 1]}
      /\ excuses' \in {excuses, excuses \cup {"zookeeper"}}
  BY DEF BK!WatchAgain, BK!cache, BK!Excuse
<1>2. /\ at' \in [BK!Thread -> BK!Place]
      /\ \A u \in BK!Thread : at'[u] = IF u = "watcher" THEN "idle" ELSE at[u]
  BY <1>0, <1>1, ThreadGoesOn, PoolNames DEF BK!Place
<1>3. Len(events) \in Nat /\ watches["backends"] \in 0..2 /\ watches["connectors"] \in 0..2
  BY <1>0, PoolTypes
<1>4. watches["backends"] + watches["connectors"] + Len(events) + 1 <= 2
  BY <1>0, <1>1 DEF BK!TwoWatches
<1>5. watches["connectors"] + 1 \in 0..2
  BY <1>3, <1>4
<1>6. /\ watches' \in [BK!Path -> 0..2]
      /\ watches'["connectors"] \in {watches["connectors"], watches["connectors"] + 1}
      /\ watches'["backends"] = watches["backends"]
      /\ excuses' \subseteq {"zookeeper", "unreachable", "filling"}
  BY <1>0, <1>1, <1>5 DEF BK!Path
<1>7. BK!TypeOK'
  BY <1>0, <1>1, <1>2, <1>6 DEF BK!TypeOK
<1>8. BK!TwoWatches'
  <2>1. at'["watcher"] = "idle"
    BY <1>2, PoolNames
  <2> QED
    BY <1>1, <1>3, <1>4, <1>6, <2>1 DEF BK!TwoWatches
<1>9. BK!Locked' /\ BK!Made'
  <2>1. at'["watcher"] = "idle" /\ UNCHANGED <<lock, pool>>
    BY <1>1, <1>2, PoolNames
  <2>2. BK!Locked'
    BY <1>0, <1>1, <1>2, <2>1, KeepLock, PoolNames
  <2> QED
    BY <1>0, <2>1, <2>2 DEF BK!Made
<1>10. ~BK!Undisturbed'
  BY <1>1 DEF BK!IInv, BK!Undisturbed, BK!Quiet
<1> QED
  BY <1>7, <1>8, <1>9, <1>10 DEF BK!IInv

(* The senders.                                                            *)
LEMMA FindBackendStep ==
  ASSUME BK!Constants, BK!IInv, NEW s \in Sender, BK!FindBackend(s)
  PROVE  BK!IInv'
<1>0. BK!TypeOK /\ BK!Locked /\ BK!Made /\ BK!TwoWatches /\ target \in [Sender -> Backend \cup {Null}]
      /\ s \in BK!Thread /\ s # "watcher" /\ at \in [BK!Thread -> BK!Place]
  BY PoolTypes, PoolNames DEF BK!IInv
<1>1. UNCHANGED <<data, version, touched, watches, events, up, pool, lock, todo, denied, notified,
                  excuses>>
      /\ at[s] = "idle" /\ BK!KnowsBackends
  BY DEF BK!FindBackend, BK!zookeeper, BK!history
<1>2. /\ backEndsInfo' \subseteq Backend /\ backEndsInfo' # Null /\ read' \in 0..version
      /\ backEndsInfo # Null => backEndsInfo' = backEndsInfo
  BY <1>0, <1>1, Known
<1>3. /\ at' \in [BK!Thread -> BK!Place] /\ at'[s] \in {"idle", "client"}
      /\ \A u \in BK!Thread \ {s} : at'[u] = at[u]
  <2>1. CASE UNCHANGED at
    BY <1>0, <1>1, <2>1
  <2>2. CASE BK!Goes(s, "client")
    BY <1>0, <2>2, ThreadGoesOn DEF BK!Place
  <2> QED
    BY <2>1, <2>2 DEF BK!FindBackend
<1>4. /\ target' \in [Sender -> Backend \cup {Null}]
      /\ \A u \in Sender \ {s} : target'[u] = target[u]
      /\ at'[s] = "client" => target'[s] \in backEndsInfo'
  <2>1. CASE UNCHANGED <<at, target>>
    BY <1>0, <1>1, <2>1
  <2>2. CASE ~UNCHANGED <<at, target>>
    <3>1. PICK b \in backEndsInfo' : target' = [target EXCEPT ![s] = b]
      BY <2>2 DEF BK!FindBackend
    <3> QED
      BY <1>0, <1>2, <3>1
  <2> QED
    BY <2>1, <2>2
<1>5. BK!TypeOK'
  BY <1>0, <1>1, <1>2, <1>3, <1>4 DEF BK!TypeOK
<1>6. BK!TwoWatches'
  BY <1>0, <1>1, <1>3, KeepWatches, PoolNames
<1>7. BK!Locked'
  BY <1>0, <1>1, <1>3, KeepLock
<1>8. BK!Made'
  BY <1>0, <1>1, <1>3, PoolNames DEF BK!Made
<1>9. ASSUME BK!Undisturbed' PROVE BK!Quiet' /\ BK!Filled' /\ BK!Targeted' /\ BK!RefusedWhileFilling'
  <2>1. BK!Undisturbed
    BY <1>1, <1>9 DEF BK!Undisturbed
  <2>2. BK!Quiet' /\ BK!RefusedWhileFilling'
    BY <1>0, <1>1, <1>3, <2>1, PoolNames DEF BK!IInv, BK!Quiet, BK!RefusedWhileFilling
  <2>3. BK!Filled'
    BY <1>1, <1>2, <2>1 DEF BK!IInv, BK!Filled, BK!KeysOf
  <2>4. BK!Targeted'
    <3>1. ASSUME NEW u \in Sender
          PROVE  /\ at'[u] \in {"client", "init", "fill", "get"} =>
                      backEndsInfo' # Null /\ target'[u] \in backEndsInfo'
                 /\ at'[u] = "get" => pool' # Null
      <4>1. CASE u = s
        BY <1>2, <1>3, <1>4, <4>1
      <4>2. CASE u # s
        BY <1>1, <1>2, <1>3, <1>4, <2>1, <4>2, PoolNames DEF BK!IInv, BK!Targeted
      <4> QED
        BY <4>1, <4>2
    <3> QED
      BY <3>1 DEF BK!Targeted
  <2> QED
    BY <2>2, <2>3, <2>4
<1> QED
  BY <1>5, <1>6, <1>7, <1>8, <1>9 DEF BK!IInv

(* A notice finds its connection, is being sent or has been.               *)
LEMMA SenderStep ==
  ASSUME BK!Constants, BK!IInv, NEW s \in Sender, BK!LookUp(s) \/ BK!Send(s) \/ BK!Answered(s)
  PROVE  BK!IInv'
<1>0. BK!TypeOK /\ BK!Locked /\ BK!Made /\ BK!TwoWatches /\ target \in [Sender -> Backend \cup {Null}]
      /\ s \in BK!Thread /\ s # "watcher"
      /\ excuses \subseteq {"zookeeper", "unreachable", "filling"}
  BY PoolTypes, PoolNames DEF BK!IInv
<1>1. UNCHANGED <<data, version, touched, watches, events, up, backEndsInfo, read, pool, lock, todo,
                  notified>>
  BY DEF BK!LookUp, BK!Send, BK!Answered, BK!zookeeper, BK!cache, BK!history
<1>2. at[s] \in {"get", "send", "call"} /\ \E to \in {"send", "call", "idle"} : BK!Goes(s, to)
  BY DEF BK!LookUp, BK!Send, BK!Answered
<1>3. /\ at' \in [BK!Thread -> BK!Place] /\ at'[s] \in {"send", "call", "idle"}
      /\ \A u \in BK!Thread \ {s} : at'[u] = at[u]
  BY <1>0, <1>2, ThreadGoesOn DEF BK!Place
<1>4. /\ target' \in [Sender -> Backend \cup {Null}]
      /\ \A u \in Sender \ {s} : target'[u] = target[u]
  BY <1>0 DEF BK!LookUp, BK!Send, BK!Answered, BK!Forget
<1>5. /\ denied' \in BOOLEAN /\ excuses' \in {excuses, excuses \cup {"filling"}}
      /\ excuses' \subseteq {"zookeeper", "unreachable", "filling"}
  <2>1. denied \in BOOLEAN
    BY <1>0 DEF BK!TypeOK
  <2> QED
    BY <1>0, <2>1 DEF BK!LookUp, BK!Send, BK!Answered, BK!history
<1>6. BK!TypeOK'
  BY <1>0, <1>1, <1>3, <1>4, <1>5 DEF BK!TypeOK
<1>7. BK!TwoWatches'
  BY <1>0, <1>1, <1>3, KeepWatches, PoolNames
<1>8. BK!Locked' /\ BK!Made'
  <2>1. BK!Locked'
    BY <1>0, <1>1, <1>2, <1>3, KeepLock
  <2>2. BK!Made'
    BY <1>0, <1>1, <1>3, PoolNames DEF BK!Made
  <2> QED
    BY <2>1, <2>2
<1>9. ASSUME BK!Undisturbed' PROVE BK!Quiet' /\ BK!Filled' /\ BK!Targeted' /\ BK!RefusedWhileFilling'
  <2>1. BK!Undisturbed /\ BK!Quiet /\ BK!Filled /\ BK!Targeted /\ BK!RefusedWhileFilling
    BY <1>1, <1>5, <1>9 DEF BK!Undisturbed, BK!IInv
  <2>2. BK!Quiet' /\ BK!Filled'
    BY <1>0, <1>1, <1>3, <2>1, PoolNames DEF BK!Quiet, BK!Filled, BK!KeysOf
  <2>3. BK!Targeted'
    <3>1. ASSUME NEW u \in Sender
          PROVE  /\ at'[u] \in {"client", "init", "fill", "get"} =>
                      backEndsInfo # Null /\ target'[u] \in backEndsInfo
                 /\ at'[u] = "get" => pool # Null
      <4>1. CASE u = s
        BY <1>3, <4>1
      <4>2. CASE u # s
        BY <1>3, <1>4, <2>1, <4>2, PoolNames DEF BK!Targeted
      <4> QED
        BY <4>1, <4>2
    <3> QED
      BY <1>1, <3>1 DEF BK!Targeted
  <2>4. BK!RefusedWhileFilling'
    <3>1. CASE BK!LookUp(s) /\ BK!Key(target[s]) \notin pool
      <4>1. at[s] = "get" /\ target[s] \in backEndsInfo /\ pool # Null
        BY <2>1, <3>1 DEF BK!LookUp, BK!Targeted
      <4>2. BK!Key(target[s]) \in BK!KeysOf(backEndsInfo)
        BY <4>1 DEF BK!KeysOf
      <4>3. lock # Null
        BY <2>1, <3>1, <4>1, <4>2 DEF BK!Filled
      <4>4. lock \in BK!Thread /\ at[lock] \in {"fill", "refresh"}
        BY <1>0, <4>3, PoolTypes DEF BK!Locked
      <4>5. lock \in Sender /\ at[lock] = "fill"
        BY <1>0, <2>1, <4>4, PoolNames DEF BK!Quiet, BK!Locked
      <4>6. BK!Filling
        BY <4>4, <4>5 DEF BK!Filling
      <4>7. "filling" \in excuses'
        BY <3>1, <4>6 DEF BK!LookUp
      <4> QED
        BY <4>7 DEF BK!RefusedWhileFilling
    <3>2. CASE ~(BK!LookUp(s) /\ BK!Key(target[s]) \notin pool)
      <4>1. UNCHANGED <<denied, excuses>>
        BY <3>2 DEF BK!LookUp, BK!Send, BK!Answered, BK!history
      <4> QED
        BY <2>1, <4>1 DEF BK!RefusedWhileFilling
    <3> QED
      BY <3>1, <3>2
  <2> QED
    BY <2>2, <2>3, <2>4
<1> QED
  BY <1>6, <1>7, <1>8, <1>9 DEF BK!IInv

(* The inductive invariant of the backends.                                *)
THEOREM BackendsInvariance ==
  ASSUME BK!Constants
  PROVE  BK!Spec => []BK!IInv
<1>1. BK!IInv /\ [BK!Next]_(BK!vars) => BK!IInv'
  <2>1. ASSUME BK!IInv, NEW t \in BK!Thread, BK!UsesPool(t) PROVE BK!IInv'
    BY <2>1, CheckPoolStep, StartFillStep, ReadFailsStep, EndFillStep, LoopStep, OpenFailsStep DEF BK!UsesPool
  <2>2. "watcher" \in BK!Thread /\ Sender \subseteq BK!Thread
    BY PoolNames
  <2> QED
    BY <2>1, <2>2, ZookeeperStep, BackendStep, StartRefreshStep, PruneStep, NoticeStep,
       WatchAgainStep, FindBackendStep, SenderStep, PoolStutters
    DEF BK!Next, BK!Watcher, BK!Proceeds
<1>2. BK!Init => BK!IInv
  BY InitPool
<1> QED
  BY <1>1, <1>2, PTL DEF BK!Spec

(* Every variable keeps its type; there are never more than two watches.   *)
THEOREM BackendsTypeCorrect ==
  ASSUME BK!Constants
  PROVE  BK!Spec => []BK!TypeOK
  BY BackendsInvariance, PTL DEF BK!IInv

(* While nothing has changed in ZooKeeper and every backend could be       *)
(* reached, the filled pool is the list, and a notice finds no connection  *)
(* missing unless it looked while the pool was being filled.               *)
THEOREM PoolIsTheList ==
  ASSUME BK!Constants
  PROVE  BK!Spec => []BK!PoolServesTheList
<1>1. BK!IInv => BK!PoolServesTheList
  BY DEF BK!IInv, BK!Filled, BK!RefusedWhileFilling, BK!KeysOf, BK!PoolServesTheList
<1> QED
  BY BackendsInvariance, <1>1, PTL
=============================================================================
