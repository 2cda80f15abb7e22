-------------------------- MODULE K8sClientProofs --------------------------
(***************************************************************************)
(* K8sClient for any number of calls and of writes by controllers.  The    *)
(* argument is the order of the versions: what is still on its way carries *)
(* a version that was current once, a write moves the version, and so at   *)
(* most one of the requests in flight can still have an effect.            *)
(***************************************************************************)
EXTENDS K8sClient, TLAPS

Objects  == [replicas : Counts, ready : Counts, note : Nat, rv : Nat \ {0}]
Requests == [call : Nat, kind : Kinds, want : Counts, note : Nat, rv : Nat \ {0}]
Calls    == [op : {"none", "scale", "wait"}, want : Counts, base : Nat]
Scaling  == {"get", "fallback", "update", "sent"}
Waiting  == {"poll", "poll fallback", "pause"}
Replies  == {"none", "conflict", "same", "moved"}

ObjType == DOMAIN obj \subseteq Kinds /\ obj \in [DOMAIN obj -> Objects]

TypeInv ==
    /\ ObjType
    /\ call \in Calls /\ calls \in Nat
    /\ pc \in {"idle"} \cup Scaling \cup Waiting
    /\ attempt \in 1..Attempts /\ kind \in Kinds
    /\ copy \in [note : Nat, rv : Nat]
    /\ flight \subseteq Requests
    /\ reply \in Replies
    /\ answer \in {"none", "nil", "failed", "conflict"}
    /\ done \in BOOLEAN /\ held \in Counts \cup {Unset}

\* Where each operation is, and that a fallback is taken only without a deployment.
ControlInv ==
    /\ pc \in Scaling => call.op = "scale" /\ held = Unset
    /\ pc \notin Scaling => attempt = 1
    /\ pc \in Waiting => call.op = "wait"
    /\ pc \in {"fallback", "poll fallback"} => "deployment" \notin DOMAIN obj
    /\ reply # "none" => pc = "sent"

\* What was read of the target under version rv is the object's while rv is current.
ReadOf(note, rv) ==
    /\ Target \in DOMAIN obj
    /\ rv \in 1..obj[Target].rv
    /\ rv = obj[Target].rv => note = obj[Target].note

ReadInv ==
    /\ pc \in {"update", "sent"} => kind = Target /\ ReadOf(copy.note, copy.rv)
    /\ \A r \in flight : r.kind = Target /\ ReadOf(r.note, r.rv)

\* At most one request of the call in progress is on its way, and only unanswered.
RequestInv ==
    \A r \in flight :
        /\ r.call <= calls
        /\ r.call = calls /\ pc # "idle" =>
             pc = "sent" /\ reply = "none" /\ r = Request(copy.rv)

\* No request on its way can have an effect any more.
AllStale == \A r \in flight : r.rv < obj[Target].rv

\* The target has the count n and keeps it until another scale sends a request.
Settled(n) == Target \in DOMAIN obj /\ obj[Target].replicas = n /\ AllStale

SettledInv ==
    /\ reply = "moved" => Settled(call.want)
    /\ held # Unset => Settled(held)

\* Each attempt has found a later version than the one before.
AttemptInv ==
    /\ pc # "idle" => Base >= call.base
    /\ pc \in {"get", "fallback"} => Base >= call.base + (attempt - 1)
    /\ pc \in {"update", "sent"} => copy.rv >= call.base + (attempt - 1)
    /\ reply = "conflict" => Base > copy.rv

IInv ==
    /\ TypeInv /\ ControlInv /\ ReadInv
    /\ RequestInv /\ SettledInv /\ AttemptInv

-----------------------------------------------------------------------------
(* Steps that leave the object and the requests as they are.               *)

LEMMA InitIInv == Init => IInv
<1> SUFFICES ASSUME Init PROVE IInv
  OBVIOUS
<1>1. PICK present \in SUBSET Kinds, n \in Counts :
          obj = [k \in present |-> [replicas |-> n, ready |-> n, note |-> 0, rv |-> 1]]
  BY DEF Init
<1>2. DOMAIN obj = present /\ obj \in [DOMAIN obj -> Objects]
  BY <1>1 DEF Objects
<1>3. TypeInv
  <2>1. done \in BOOLEAN /\ ObjType
    BY <1>2 DEF Init, ObjType
  <2>2. QED
    BY <2>1 DEF Init, TypeInv, NoCall, NoCopy, Calls, Attempts, Kinds, Replies, Counts
<1>4. ControlInv /\ ReadInv /\ RequestInv /\ SettledInv /\ AttemptInv
  BY DEF Init, ControlInv, Scaling, Waiting, ReadInv, RequestInv, SettledInv, AttemptInv
<1>5. QED
  BY <1>3, <1>4 DEF IInv

\* What is said of the object and of the requests stays true when both stay.
LEMMA SameWorld ==
    ASSUME UNCHANGED <<obj, flight>>
    PROVE  /\ Target' = Target /\ Base' = Base /\ AllStale' = AllStale /\ ObjType' = ObjType
           /\ \A n, v : ReadOf(n, v)' = ReadOf(n, v)
           /\ \A n : Settled(n)' = Settled(n)
  BY DEF Target, Base, AllStale, ReadOf, Settled, ObjType

LEMMA BaseType == TypeInv => Base \in Nat
  BY DEF TypeInv, ObjType, Base, Objects

LEMMA ReturnKeeps ==
    ASSUME IInv, NEW a \in {"nil", "failed", "conflict"}, Return(a),
           held' \in Counts \cup {Unset}, held' # Unset => Settled(held')
    PROVE  IInv'
<1>1. UNCHANGED <<obj, calls, flight>> /\ pc' = "idle" /\ reply' = "none"
  BY DEF Return
<1>2. TypeInv'
  <2>1. done' \in BOOLEAN
    BY DEF Return
  <2>2. QED
    BY <2>1, SameWorld DEF IInv, TypeInv, Return, NoCall, NoCopy, Calls, Attempts, Kinds,
       Replies, Counts
<1>3. ControlInv' /\ AttemptInv'
  BY <1>1 DEF Return, ControlInv, Scaling, Waiting, AttemptInv
<1>4. ReadInv'
  BY <1>1, SameWorld DEF IInv, ReadInv
<1>5. RequestInv'
  BY <1>1 DEF IInv, RequestInv
<1>6. SettledInv'
  BY <1>1, SameWorld DEF SettledInv
<1>7. QED
  BY <1>2, <1>3, <1>4, <1>5, <1>6 DEF IInv

LEMMA GoToKeeps ==
    ASSUME IInv, NEW at, GoTo(at), held' = held,
           \/ pc \in Waiting /\ at \in {"poll", "pause"}
           \/ /\ "deployment" \notin DOMAIN obj
              /\ \/ pc = "poll" /\ at = "poll fallback"
                 \/ pc = "get" /\ at = "fallback"
    PROVE  IInv'
<1>1. /\ UNCHANGED <<obj, call, calls, attempt, kind, copy, flight, reply, answer, done, held>>
      /\ pc' = at /\ reply = "none"
  BY DEF GoTo, IInv, ControlInv, Waiting
<1>2. TypeInv'
  BY <1>1, SameWorld DEF IInv, TypeInv, Scaling, Waiting
<1>3. ControlInv'
  BY <1>1 DEF IInv, ControlInv, Scaling, Waiting
<1>4. ReadInv'
  BY <1>1, SameWorld DEF IInv, ReadInv, Waiting
<1>5. RequestInv'
  BY <1>1 DEF IInv, RequestInv, Waiting
<1>6. SettledInv'
  BY <1>1, SameWorld DEF IInv, SettledInv
<1>7. AttemptInv'
  BY <1>1, SameWorld DEF IInv, AttemptInv, Waiting
<1>8. QED
  BY <1>2, <1>3, <1>4, <1>5, <1>6, <1>7 DEF IInv

LEMMA BeginKeeps ==
    ASSUME IInv, NEW op \in {"scale", "wait"}, NEW n \in Counts, Begin(op, n)
    PROVE  IInv'
<1>1. /\ UNCHANGED <<obj, attempt, kind, copy, flight, reply, done>>
      /\ calls' = calls + 1 /\ call' = [op |-> op, want |-> n, base |-> Base]
      /\ pc = "idle" /\ reply = "none" /\ answer' = "none"
      /\ \/ op = "scale" /\ pc' = "get" /\ held' = Unset
         \/ op = "wait" /\ pc' = "poll" /\ held' = held
  BY DEF Begin, IInv, ControlInv
<1>2. call' \in Calls /\ call'.op = op /\ call'.base = Base /\ Base \in Nat
  BY <1>1, BaseType DEF IInv, Calls
<1>3. TypeInv'
  <2>1. calls' \in Nat /\ pc' \in {"idle"} \cup Scaling \cup Waiting
    <3>1. calls \in Nat
      BY DEF IInv, TypeInv
    <3>2. pc' \in Scaling \cup Waiting
      BY <1>1 DEF Scaling, Waiting
    <3>3. QED
      BY <1>1, <3>1, <3>2
  <2>2. done' \in BOOLEAN
    BY <1>1 DEF IInv, TypeInv
  <2>3. QED
    BY <1>1, <1>2, <2>1, <2>2, SameWorld DEF IInv, TypeInv
<1>4. ControlInv'
  BY <1>1, <1>2 DEF IInv, ControlInv, Scaling, Waiting
<1>5. ReadInv'
  BY <1>1, SameWorld DEF IInv, ReadInv
<1>6. RequestInv'
  <2> SUFFICES ASSUME NEW r \in flight PROVE r.call <= calls' /\ r.call # calls'
    BY <1>1 DEF RequestInv
  <2>1. r.call <= calls /\ r.call \in Nat /\ calls \in Nat
    BY DEF IInv, RequestInv, TypeInv, Requests
  <2>2. QED
    BY <1>1, <2>1
<1>7. SettledInv'
  BY <1>1, SameWorld DEF IInv, SettledInv
<1>8. AttemptInv'
  <2>1. attempt = 1
    BY <1>1 DEF IInv, ControlInv, Scaling
  <2>2. QED
    BY <1>1, <1>2, <2>1, SameWorld DEF AttemptInv
<1>9. QED
  BY <1>3, <1>4, <1>5, <1>6, <1>7, <1>8 DEF IInv

\* The target is one of the two objects if there is any.
LEMMA TargetOfRead ==
    ASSUME NEW k \in Kinds, k \in DOMAIN obj,
           k = "deployment" \/ "deployment" \notin DOMAIN obj
    PROVE  k = Target
  BY DEF Target, Kinds

LEMMA ReadKeeps ==
    ASSUME IInv, Read
    PROVE  IInv'
<1> DEFINE k == IF pc = "get" THEN "deployment" ELSE "statefulset"
<1>0. pc \in {"get", "fallback"} /\ k \in Kinds
      /\ (k = "deployment" \/ "deployment" \notin DOMAIN obj)
  BY DEF Read, IInv, ControlInv, Kinds
<1>1. CASE k \in DOMAIN obj
  <2>1. /\ pc' = "update" /\ kind' = k
        /\ copy' = [note |-> obj[k].note, rv |-> obj[k].rv]
        /\ UNCHANGED <<obj, call, calls, attempt, flight, reply, answer, done, held>>
    BY <1>1 DEF Read
  <2>2. k = Target /\ obj[k] \in Objects
    BY <1>0, <1>1, TargetOfRead DEF IInv, TypeInv, ObjType
  <2>3. reply = "none"
    BY <1>0 DEF IInv, ControlInv
  <2>4. copy' \in [note : Nat, rv : Nat] /\ copy'.note = obj[k].note /\ copy'.rv = obj[k].rv
        /\ copy'.rv \in Nat \ {0}
    BY <2>1, <2>2 DEF Objects
  <2> HIDE DEF k
  <2>5. TypeInv'
    <3>1. done' \in BOOLEAN /\ pc' \in {"idle"} \cup Scaling \cup Waiting
      BY <2>1 DEF IInv, TypeInv, Scaling
    <3>2. QED
      BY <1>0, <2>1, <2>4, <3>1, SameWorld DEF IInv, TypeInv
  <2>6. ControlInv'
    BY <1>0, <2>1, <2>3 DEF IInv, ControlInv, Scaling, Waiting
  <2>7. ReadInv'
    <3>1. ReadOf(copy'.note, copy'.rv)
      BY <1>1, <2>2, <2>4 DEF ReadOf
    <3>2. QED
      BY <2>1, <2>2, <3>1, SameWorld DEF IInv, ReadInv
  <2>8. RequestInv'
    BY <1>0, <2>1 DEF IInv, RequestInv
  <2>9. SettledInv'
    BY <2>1, SameWorld DEF IInv, SettledInv
  <2>10. AttemptInv'
    <3>1. Base = copy'.rv
      BY <1>1, <2>2, <2>4 DEF Base
    <3>2. QED
      BY <1>0, <2>1, <2>3, <3>1, SameWorld DEF IInv, AttemptInv
  <2>11. QED
    BY <2>5, <2>6, <2>7, <2>8, <2>9, <2>10 DEF IInv
<1>2. CASE k \notin DOMAIN obj /\ pc = "get"
  BY <1>2, GoToKeeps DEF Read
<1>3. CASE k \notin DOMAIN obj /\ pc # "get"
  <2>1. Return("failed") /\ held' = held
    BY <1>3 DEF Read
  <2>2. QED
    BY <2>1, ReturnKeeps DEF IInv, TypeInv, SettledInv
<1>4. QED
  BY <1>1, <1>2, <1>3

\* A request joins those on the way under the version that was read.
LEMMA SendKeeps ==
    ASSUME IInv, Send
    PROVE  IInv'
<1>1. /\ pc = "update" /\ pc' = "sent" /\ flight' = flight \cup {Request(copy.rv)}
      /\ UNCHANGED <<obj, call, calls, attempt, kind, copy, reply, answer, done, held>>
  BY DEF Send
<1>2. /\ reply = "none" /\ held = Unset /\ call.op = "scale"
      /\ kind = Target /\ ReadOf(copy.note, copy.rv)
  BY <1>1 DEF IInv, ControlInv, ReadInv, Scaling
<1> DEFINE q == Request(copy.rv)
<1>3. /\ q \in Requests
      /\ q.call = calls /\ q.kind = kind /\ q.note = copy.note /\ q.rv = copy.rv
  <2>1. copy.rv \in Nat \ {0} /\ copy.note \in Nat /\ call.want \in Counts
    BY <1>2 DEF IInv, TypeInv, ReadOf, Calls
  <2>2. QED
    BY <2>1 DEF Request, Requests, IInv, TypeInv
<1>4. Target' = Target /\ Base' = Base /\ ObjType' = ObjType
      /\ \A n, v : ReadOf(n, v)' = ReadOf(n, v)
  BY <1>1 DEF Target, Base, ReadOf, ObjType
<1>5. Request(copy.rv)' = q
  BY <1>1 DEF Request
<1> HIDE DEF q
<1>6. TypeInv'
  <2>1. done' \in BOOLEAN /\ pc' \in {"idle"} \cup Scaling \cup Waiting
    BY <1>1 DEF IInv, TypeInv, Scaling
  <2>2. flight' \subseteq Requests
    BY <1>1, <1>3 DEF IInv, TypeInv, q
  <2>3. QED
    BY <1>1, <1>4, <2>1, <2>2 DEF IInv, TypeInv
<1>7. ControlInv'
  BY <1>1, <1>2 DEF IInv, ControlInv, Scaling, Waiting
<1>8. ReadInv'
  BY <1>1, <1>2, <1>3, <1>4 DEF IInv, ReadInv, q
<1>9. RequestInv'
  <2>1. \A r \in flight : r.call <= calls /\ r.call # calls
    BY <1>1 DEF IInv, RequestInv
  <2>2. calls \in Nat
    BY DEF IInv, TypeInv
  <2>3. QED
    BY <1>1, <1>2, <1>3, <1>5, <2>1, <2>2 DEF RequestInv, q
<1>10. SettledInv'
  BY <1>1, <1>2 DEF SettledInv
<1>11. AttemptInv'
  BY <1>1, <1>2, <1>4 DEF IInv, AttemptInv
<1>12. QED
  BY <1>6, <1>7, <1>8, <1>9, <1>10, <1>11 DEF IInv

\* The version has moved since the attempt read it, so the next one starts further on.
LEMMA RetryKeeps ==
    ASSUME IInv, Retry
    PROVE  IInv'
<1>1. CASE attempt < Attempts
  <2>1. /\ pc = "sent" /\ reply = "conflict" /\ pc' = "get" /\ reply' = "none"
        /\ attempt' = attempt + 1 /\ kind' = "deployment" /\ copy' = NoCopy
        /\ UNCHANGED <<obj, call, calls, flight, answer, done, held>>
    BY <1>1 DEF Retry
  <2>2. TypeInv'
    <3>1. done' \in BOOLEAN /\ pc' \in {"idle"} \cup Scaling \cup Waiting
      BY <2>1 DEF IInv, TypeInv, Scaling
    <3>2. attempt' \in 1..Attempts /\ copy' \in [note : Nat, rv : Nat] /\ kind' \in Kinds
          /\ reply' \in Replies
      BY <1>1, <2>1 DEF IInv, TypeInv, NoCopy, Kinds, Replies, Attempts
    <3>3. QED
      BY <2>1, <3>1, <3>2, SameWorld DEF IInv, TypeInv
  <2>3. ControlInv'
    BY <2>1 DEF IInv, ControlInv, Scaling, Waiting
  <2>4. ReadInv'
    BY <2>1, SameWorld DEF IInv, ReadInv
  <2>5. RequestInv'
    BY <2>1 DEF IInv, RequestInv
  <2>6. SettledInv'
    BY <2>1, SameWorld DEF IInv, SettledInv
  <2>7. AttemptInv'
    <3>1. Base > copy.rv /\ copy.rv >= call.base + (attempt - 1) /\ Base >= call.base
      BY <2>1 DEF IInv, AttemptInv
    <3>2. Base \in Nat /\ copy.rv \in Nat /\ call.base \in Nat /\ attempt \in Nat
      BY BaseType DEF IInv, TypeInv, Calls, Attempts
    <3>3. Base >= call.base + (attempt' - 1)
      BY <2>1, <3>1, <3>2
    <3>4. QED
      BY <2>1, <3>1, <3>3, SameWorld DEF AttemptInv
  <2>8. QED
    BY <2>2, <2>3, <2>4, <2>5, <2>6, <2>7 DEF IInv
<1>2. CASE ~(attempt < Attempts)
  <2>1. Return("conflict") /\ held' = held
    BY <1>2 DEF Retry
  <2>2. QED
    BY <2>1, ReturnKeeps DEF IInv, TypeInv, SettledInv
<1>3. QED
  BY <1>1, <1>2

\* The other steps of the client.
LEMMA ClientKeeps ==
    ASSUME IInv, Client \/ ReadFails \/ GiveUp \/ PollFails
    PROVE  IInv'
<1>0. held \in Counts \cup {Unset} /\ (held # Unset => Settled(held))
  BY DEF IInv, TypeInv, SettledInv
<1>1. CASE ReadFails \/ GiveUp \/ WaitTimesOut
  BY <1>0, <1>1, ReturnKeeps DEF ReadFails, GiveUp, WaitTimesOut
<1>2. CASE ScaleReturns
  <2>1. held' \in Counts \cup {Unset} /\ (held' # Unset => Settled(held'))
    BY <1>2 DEF ScaleReturns, IInv, TypeInv, Calls, SettledInv
  <2>2. QED
    BY <1>2, <2>1, ReturnKeeps DEF ScaleReturns
<1>3. CASE Poll
  <2>1. pc \in Waiting
    BY <1>3 DEF Poll, Waiting
  <2>2. \/ Return("nil") /\ held' = held
        \/ GoTo("pause") /\ held' = held
        \/ /\ GoTo("poll fallback") /\ held' = held
           /\ pc = "poll" /\ "deployment" \notin DOMAIN obj
    BY <1>3 DEF Poll
  <2>3. QED
    BY <1>0, <2>1, <2>2, ReturnKeeps, GoToKeeps
<1>4. CASE PollFails
  <2>1. pc \in Waiting
    BY <1>4 DEF PollFails, Waiting
  <2>2. (Return("failed") \/ GoTo("pause")) /\ held' = held
    BY <1>4 DEF PollFails
  <2>3. QED
    BY <1>0, <2>1, <2>2, ReturnKeeps, GoToKeeps
<1>5. CASE Tick
  BY <1>5, GoToKeeps DEF Tick, Waiting
<1>6. QED
  BY <1>1, <1>2, <1>3, <1>4, <1>5, ReadKeeps, SendKeeps, RetryKeeps DEF Client

LEMMA ContextDoneKeeps ==
    ASSUME IInv, ContextDone \/ UNCHANGED vars
    PROVE  IInv'
<1>1. /\ UNCHANGED <<obj, call, calls, pc, attempt, kind, copy, flight, reply, answer, held>>
      /\ done' \in BOOLEAN
  BY DEF ContextDone, vars, IInv, TypeInv
<1>2. TypeInv'
  BY <1>1, SameWorld DEF IInv, TypeInv
<1>3. Request(copy.rv)' = Request(copy.rv)
  BY <1>1 DEF Request
<1>4. ControlInv' /\ RequestInv'
  BY <1>1, <1>3 DEF IInv, ControlInv, RequestInv
<1>5. ReadInv' /\ SettledInv' /\ AttemptInv'
  BY <1>1, SameWorld DEF IInv, ReadInv, SettledInv, AttemptInv
<1>6. QED
  BY <1>2, <1>4, <1>5 DEF IInv

-----------------------------------------------------------------------------
(* Steps of the server and of the controllers.                             *)

\* A new version of the target makes everything that is on its way stale.
LEMMA NewVersion ==
    ASSUME IInv, Target \in DOMAIN obj, NEW o \in Objects, o.rv = obj[Target].rv + 1,
           obj' = [obj EXCEPT ![Target] = o], flight' \subseteq flight
    PROVE  /\ ObjType' /\ Target' = Target /\ Target \in DOMAIN obj' /\ obj'[Target] = o
           /\ Base' = Base + 1 /\ AllStale'
           /\ \A n, v : ReadOf(n, v) => ReadOf(n, v)'
<1>1. /\ DOMAIN obj' = DOMAIN obj /\ obj'[Target] = o /\ obj' \in [DOMAIN obj -> Objects]
      /\ obj[Target].rv \in Nat
  BY DEF IInv, TypeInv, ObjType, Objects
<1>2. Target' = Target
  BY <1>1 DEF Target
<1>3. ObjType'
  BY <1>1 DEF IInv, TypeInv, ObjType
<1>4. Base' = Base + 1
  BY <1>1, <1>2 DEF Base
<1>5. AllStale'
  <2> SUFFICES ASSUME NEW r \in flight PROVE r.rv < obj'[Target].rv
    BY <1>2 DEF AllStale
  <2>1. r.rv \in 1..obj[Target].rv
    BY DEF IInv, ReadInv, ReadOf
  <2>2. QED
    BY <1>1, <2>1
<1>6. ASSUME NEW n, NEW v, ReadOf(n, v) PROVE ReadOf(n, v)'
  <2>1. v \in 1..obj[Target].rv
    BY <1>6 DEF ReadOf
  <2>2. v \in 1..o.rv /\ v # o.rv
    BY <1>1, <2>1
  <2>3. QED
    BY <1>1, <1>2, <2>2 DEF ReadOf
<1>7. QED
  BY <1>1, <1>2, <1>3, <1>4, <1>5, <1>6

\* The request of the call in progress is the one that is unanswered.
LEMMA OwnRequest ==
    ASSUME IInv, NEW r \in flight, pc = "sent", r.call = calls
    PROVE  r.want = call.want /\ r.rv = copy.rv /\ r.kind = kind
  BY DEF IInv, RequestInv, Request

\* What a request makes of the object, and what a controller does.
LEMMA WrittenShape ==
    ASSUME NEW o \in Objects, NEW n \in Counts, NEW m \in Nat
    PROVE  /\ [o EXCEPT !.replicas = n, !.note = m] \in Objects
           /\ [o EXCEPT !.replicas = n, !.note = m].replicas = n
           /\ [o EXCEPT !.replicas = n, !.note = m].note = m
           /\ [o EXCEPT !.replicas = n, !.note = m].rv = o.rv
  BY DEF Objects

LEMMA VersionShape ==
    ASSUME NEW o \in Objects
    PROVE  /\ [o EXCEPT !.rv = @ + 1] \in Objects
           /\ [o EXCEPT !.rv = @ + 1].replicas = o.replicas
           /\ [o EXCEPT !.rv = @ + 1].note = o.note
           /\ [o EXCEPT !.rv = @ + 1].rv = o.rv + 1
  BY DEF Objects

LEMMA TouchedShape ==
    ASSUME NEW o \in Objects, NEW n \in Counts
    PROVE  LET w == [o EXCEPT !.ready = n, !.note = @ + 1, !.rv = @ + 1]
           IN  /\ w \in Objects /\ w.replicas = o.replicas
               /\ w.note = o.note + 1 /\ w.rv = o.rv + 1
<1>1. o.note + 1 \in Nat /\ o.rv + 1 \in Nat \ {0}
  BY DEF Objects
<1> DEFINE w == [o EXCEPT !.ready = n, !.note = @ + 1, !.rv = @ + 1]
<1>2. w.replicas = o.replicas /\ w.note = o.note + 1 /\ w.rv = o.rv + 1
  BY DEF Objects
<1>3. w \in Objects
  BY <1>1 DEF Objects
<1>4. QED
  BY <1>2, <1>3

\* The effect of a request, by what the server makes of it.
LEMMA ProcessShape ==
    ASSUME IInv, NEW r \in flight, Process(r)
    PROVE  /\ flight' = flight \ {r}
           /\ UNCHANGED <<call, calls, pc, attempt, kind, copy, answer, done, held>>
           /\ Target \in DOMAIN obj /\ r.kind = Target /\ r.rv \in 1..obj[Target].rv
           /\ \E outcome \in {"conflict", "same", "moved"} :
                /\ reply' = IF pc = "sent" /\ r.call = calls THEN outcome ELSE reply
                /\ outcome # "moved" => obj' = obj
                /\ outcome = "conflict" => r.rv < obj[Target].rv
                /\ outcome = "moved" =>
                     /\ r.rv = obj[Target].rv
                     /\ \E w \in Objects :
                          /\ obj' = [obj EXCEPT ![Target] = w]
                          /\ w.replicas = r.want /\ w.note = r.note
                          /\ w.rv = obj[Target].rv + 1
<1>1. /\ Target \in DOMAIN obj /\ r.kind = Target /\ r.rv \in 1..obj[Target].rv
      /\ r \in Requests /\ obj[Target] \in Objects
  BY DEF IInv, ReadInv, ReadOf, TypeInv, ObjType
<1> DEFINE o       == obj[r.kind]
           written == [o EXCEPT !.replicas = r.want, !.note = r.note]
           outcome == IF Stale(r) THEN "conflict" ELSE IF written = o THEN "same" ELSE "moved"
<1>2. /\ flight' = flight \ {r}
      /\ UNCHANGED <<call, calls, pc, attempt, kind, copy, answer, done, held>>
      /\ obj' = IF outcome = "moved"
                THEN [obj EXCEPT ![r.kind] = [written EXCEPT !.rv = @ + 1]] ELSE obj
      /\ reply' = IF pc = "sent" /\ r.call = calls THEN outcome ELSE reply
  BY DEF Process
<1>3. \E w \in Objects : /\ w = [written EXCEPT !.rv = @ + 1]
                         /\ w.replicas = r.want /\ w.note = r.note
                         /\ w.rv = obj[Target].rv + 1
  <2>1. r.want \in Counts /\ r.note \in Nat /\ o \in Objects /\ o.rv = obj[Target].rv
    BY <1>1 DEF Requests
  <2> HIDE DEF o
  <2>2. written \in Objects /\ written.replicas = r.want /\ written.note = r.note
        /\ written.rv = obj[Target].rv
    <3>1. \A n \in Counts, m \in Nat :
            /\ [o EXCEPT !.replicas = n, !.note = m] \in Objects
            /\ [o EXCEPT !.replicas = n, !.note = m].replicas = n
            /\ [o EXCEPT !.replicas = n, !.note = m].note = m
            /\ [o EXCEPT !.replicas = n, !.note = m].rv = o.rv
      BY <2>1, WrittenShape
    <3>2. QED
      BY <2>1, <3>1, Zenon
  <2> HIDE DEF written
  <2>3. QED
    BY <2>2, VersionShape
<1>4. Stale(r) <=> r.rv < obj[Target].rv
  <2>1. obj[Target].rv \in Nat
    BY <1>1 DEF Objects
  <2>2. QED
    BY <1>1, <2>1 DEF Stale
<1>5. /\ outcome \in {"conflict", "same", "moved"}
      /\ outcome = "conflict" => r.rv < obj[Target].rv
      /\ outcome = "moved" => ~Stale(r)
  BY <1>4
<1>6. ~Stale(r) => r.rv = obj[Target].rv
  BY <1>1, <1>4 DEF Stale
<1> HIDE DEF written, outcome
<1>7. QED
  BY <1>1, <1>2, <1>3, <1>5, <1>6

LEMMA ProcessKeeps ==
    ASSUME IInv, NEW r \in flight, Process(r)
    PROVE  IInv'
<1>1. PICK outcome \in {"conflict", "same", "moved"} :
        /\ reply' = IF pc = "sent" /\ r.call = calls THEN outcome ELSE reply
        /\ outcome # "moved" => obj' = obj
        /\ outcome = "conflict" => r.rv < obj[Target].rv
        /\ outcome = "moved" =>
             /\ r.rv = obj[Target].rv
             /\ \E w \in Objects :
                  /\ obj' = [obj EXCEPT ![Target] = w]
                  /\ w.replicas = r.want /\ w.note = r.note
                  /\ w.rv = obj[Target].rv + 1
  BY ProcessShape
<1>2. /\ flight' = flight \ {r}
      /\ UNCHANGED <<call, calls, pc, attempt, kind, copy, answer, done, held>>
      /\ Target \in DOMAIN obj /\ r.kind = Target
  BY ProcessShape
\* What happens to the object: it stays, or all that is left is stale.
<1>3. /\ ObjType' /\ Target' = Target
      /\ \A n, v : ReadOf(n, v) => ReadOf(n, v)'
  <2>1. CASE outcome # "moved"
    BY <1>1, <2>1 DEF ReadOf, Target, ObjType, IInv, TypeInv
  <2>2. CASE outcome = "moved"
    BY <1>1, <1>2, <2>2, NewVersion
  <2>3. QED
    BY <2>1, <2>2
<1>4. outcome # "moved" => Base' = Base /\ (AllStale => AllStale')
  BY <1>1, <1>2 DEF Base, Target, AllStale
<1>5. outcome = "moved" =>
        /\ Base' = Base + 1 /\ AllStale' /\ ~AllStale
        /\ Target \in DOMAIN obj' /\ obj'[Target].replicas = r.want
  <2> SUFFICES ASSUME outcome = "moved"
               PROVE  /\ Base' = Base + 1 /\ AllStale' /\ ~AllStale
                      /\ Target \in DOMAIN obj' /\ obj'[Target].replicas = r.want
    OBVIOUS
  <2>1. /\ Base' = Base + 1 /\ AllStale'
        /\ Target \in DOMAIN obj' /\ obj'[Target].replicas = r.want
    BY <1>1, <1>2, NewVersion
  <2>2. ~(r.rv < obj[Target].rv)
    BY <1>1 DEF IInv, TypeInv, Requests
  <2>3. QED
    BY <2>1, <2>2 DEF AllStale
<1>6. TypeInv'
  <2>1. done' \in BOOLEAN
    BY <1>2 DEF IInv, TypeInv
  <2>2. reply' \in Replies
    BY <1>1 DEF IInv, TypeInv, Replies
  <2>3. QED
    BY <1>2, <1>3, <2>1, <2>2 DEF IInv, TypeInv
<1>7. ControlInv'
  <2>1. DOMAIN obj' = DOMAIN obj
    BY <1>1
  <2>2. QED
    BY <1>1, <1>2, <2>1 DEF IInv, ControlInv
<1>8. ReadInv'
  BY <1>2, <1>3 DEF IInv, ReadInv
<1>9. RequestInv'
  <2>1. Request(copy.rv)' = Request(copy.rv)
    BY <1>2 DEF Request
  <2>2. ASSUME NEW q \in flight', q.call = calls, pc # "idle"
        PROVE  pc = "sent" /\ reply' = "none" /\ q = Request(copy.rv)
    <3>1. q \in flight /\ q # r
      BY <1>2, <2>2
    <3>2. pc = "sent" /\ reply = "none" /\ q = Request(copy.rv)
      BY <2>2, <3>1 DEF IInv, RequestInv
    <3>3. r.call # calls
      BY <3>1, <3>2 DEF IInv, RequestInv
    <3>4. QED
      BY <1>1, <3>2, <3>3
  <2>3. QED
    BY <1>2, <2>1, <2>2 DEF IInv, RequestInv
<1>10. SettledInv'
  <2>1. ASSUME NEW n, Settled(n) PROVE Settled(n)'
    BY <1>1, <1>3, <1>4, <1>5, <2>1 DEF Settled
  <2>2. ASSUME reply' = "moved", reply # "moved" PROVE Settled(call.want)'
    <3>1. outcome = "moved" /\ pc = "sent" /\ r.call = calls
      BY <1>1, <2>2
    <3>2. r.want = call.want
      BY <3>1, OwnRequest
    <3>3. QED
      BY <1>2, <1>3, <1>5, <3>1, <3>2 DEF Settled
  <2>3. reply' = "moved" => Settled(call.want)'
    BY <1>2, <2>1, <2>2 DEF IInv, SettledInv
  <2>4. held' # Unset => Settled(held)'
    BY <1>2, <2>1 DEF IInv, SettledInv
  <2>5. QED
    BY <2>3, <2>4 DEF SettledInv
<1>11. AttemptInv'
  <2>1. Base \in Nat /\ copy.rv \in Nat /\ call.base \in Nat /\ attempt \in Nat
    BY BaseType DEF IInv, TypeInv, Calls, Attempts
  <2>2. Base' \in Nat /\ Base' >= Base
    BY <1>1, <1>4, <1>5, <2>1
  <2>3. ASSUME reply' = "conflict", reply # "conflict" PROVE Base > copy.rv
    <3>1. pc = "sent" /\ r.call = calls /\ outcome = "conflict"
      BY <1>1, <2>3
    <3>2. r.rv = copy.rv /\ Base = obj[Target].rv
      BY <1>2, <3>1, OwnRequest DEF Base
    <3>3. r.rv < obj[Target].rv
      BY <1>1, <3>1
    <3>4. QED
      BY <2>1, <3>2, <3>3
  <2>4. reply' = "conflict" => Base > copy.rv
    BY <2>3 DEF IInv, AttemptInv
  <2>5. /\ pc # "idle" => Base >= call.base
        /\ pc \in {"get", "fallback"} => Base >= call.base + (attempt - 1)
        /\ pc \in {"update", "sent"} => copy.rv >= call.base + (attempt - 1)
    BY DEF IInv, AttemptInv
  <2>6. QED
    BY <1>2, <2>1, <2>2, <2>4, <2>5 DEF AttemptInv
<1>12. QED
  BY <1>6, <1>7, <1>8, <1>9, <1>10, <1>11 DEF IInv

LEMMA ControllerShape ==
    ASSUME IInv, ControllerWrites
    PROVE  \E k \in DOMAIN obj, w \in Objects :
             /\ obj' = [obj EXCEPT ![k] = w]
             /\ w.replicas = obj[k].replicas /\ w.note = obj[k].note + 1
             /\ w.rv = obj[k].rv + 1
<1>1. PICK k \in DOMAIN obj, n \in Counts :
        obj' = [obj EXCEPT ![k] = [obj[k] EXCEPT !.ready = n, !.note = @ + 1, !.rv = @ + 1]]
  BY DEF ControllerWrites
<1>2. obj[k] \in Objects
  BY DEF IInv, TypeInv, ObjType
<1> DEFINE w == [obj[k] EXCEPT !.ready = n, !.note = @ + 1, !.rv = @ + 1]
<1>3. /\ w \in Objects /\ w.replicas = obj[k].replicas
      /\ w.note = obj[k].note + 1 /\ w.rv = obj[k].rv + 1
  BY <1>2, TouchedShape, Zenon
<1>4. obj' = [obj EXCEPT ![k] = w]
  BY <1>1
<1> HIDE DEF w
<1>5. QED
  BY <1>3, <1>4

LEMMA ControllerKeeps ==
    ASSUME IInv, ControllerWrites
    PROVE  IInv'
<1>1. PICK k \in DOMAIN obj, w \in Objects :
        /\ obj' = [obj EXCEPT ![k] = w]
        /\ w.replicas = obj[k].replicas /\ w.note = obj[k].note + 1
        /\ w.rv = obj[k].rv + 1
  BY ControllerShape
<1>2. UNCHANGED <<call, calls, pc, attempt, kind, copy, flight, reply, answer, done, held>>
  BY DEF ControllerWrites
<1>3. /\ ObjType' /\ Target' = Target /\ DOMAIN obj' = DOMAIN obj
      /\ \A n, v : ReadOf(n, v) => ReadOf(n, v)'
      /\ \A n : Settled(n) => Settled(n)'
      /\ Base' \in {Base, Base + 1}
  <2>1. CASE k = Target
    <3>1. /\ ObjType' /\ Target' = Target /\ Target \in DOMAIN obj' /\ obj'[Target] = w
          /\ Base' = Base + 1 /\ AllStale'
          /\ \A n, v : ReadOf(n, v) => ReadOf(n, v)'
      BY <1>1, <1>2, <2>1, NewVersion
    <3>2. ASSUME NEW n, Settled(n) PROVE Settled(n)'
      BY <1>1, <2>1, <3>1, <3>2 DEF Settled
    <3>3. QED
      BY <1>1, <3>1, <3>2
  <2>2. CASE k # Target
    <3>1. DOMAIN obj' = DOMAIN obj /\ obj'[Target] = obj[Target] /\ Target' = Target
      BY <1>1, <2>2 DEF Target
    <3>2. ObjType'
      BY <1>1 DEF IInv, TypeInv, ObjType
    <3>3. QED
      BY <1>2, <3>1, <3>2 DEF ReadOf, Settled, AllStale, Base
  <2>3. QED
    BY <2>1, <2>2
<1>4. TypeInv'
  <2>1. done' \in BOOLEAN
    BY <1>2 DEF IInv, TypeInv
  <2>2. QED
    BY <1>2, <1>3, <2>1 DEF IInv, TypeInv
<1>5. ControlInv'
  BY <1>2, <1>3 DEF IInv, ControlInv
<1>6. ReadInv'
  BY <1>2, <1>3 DEF IInv, ReadInv
<1>7. RequestInv'
  <2>1. Request(copy.rv)' = Request(copy.rv)
    BY <1>2 DEF Request
  <2>2. QED
    BY <1>2, <2>1 DEF IInv, RequestInv
<1>8. SettledInv'
  BY <1>2, <1>3 DEF IInv, SettledInv
<1>9. AttemptInv'
  <2>1. Base \in Nat /\ copy.rv \in Nat /\ call.base \in Nat /\ attempt \in Nat
    BY BaseType DEF IInv, TypeInv, Calls, Attempts
  <2>2. Base' \in Nat /\ Base' >= Base
    BY <1>3, <2>1
  <2>3. QED
    BY <1>2, <2>1, <2>2 DEF IInv, AttemptInv
<1>10. QED
  BY <1>4, <1>5, <1>6, <1>7, <1>8, <1>9 DEF IInv

LEMMA NextIInv == IInv /\ [Next]_vars => IInv'
<1> SUFFICES ASSUME IInv, [Next]_vars PROVE IInv'
  OBVIOUS
<1>1. CASE \E op \in {"scale", "wait"}, n \in Counts : Begin(op, n)
  BY <1>1, BeginKeeps
<1>2. CASE Client \/ ReadFails \/ GiveUp \/ PollFails
  BY <1>2, ClientKeeps
<1>3. CASE Server
  BY <1>3, ProcessKeeps DEF Server
<1>4. QED
  BY <1>1, <1>2, <1>3, ControllerKeeps, ContextDoneKeeps DEF Next

\* What Scale, WaitForReplicas and the API server's versions establish together.
THEOREM Invariance == Spec => []IInv
<1>1. QED
  BY InitIInv, NextIInv, PTL DEF Spec

-----------------------------------------------------------------------------
(* What follows.                                                           *)

\* The client, the requests and the objects are well typed throughout.
THEOREM TypeCorrect == Spec => []TypeInv
<1>1. IInv => TypeInv
  BY DEF IInv
<1>2. QED
  BY <1>1, Invariance, PTL

\* A count a scale has moved the object to stays until the next scale, whatever requests
\* of earlier calls still arrive (updates carry the version they have read).
THEOREM ScaleSticksHolds == Spec => []ScaleSticks
<1>1. IInv => ScaleSticks
  BY DEF IInv, SettledInv, Settled, ScaleSticks
<1>2. QED
  BY <1>1, Invariance, PTL

\* Scale gives up on a conflict only after five changes by others during the call
\* (RetryOnConflict runs the whole read-modify-write again).
THEOREM GivesUpOnlyUnderContentionHolds == Spec => GivesUpOnlyUnderContention
<1>1. IInv /\ [Next]_vars =>
        [answer # "conflict" /\ answer' = "conflict" => Base - call.base >= Attempts]_vars
  <2> SUFFICES ASSUME IInv, Next, answer # "conflict", answer' = "conflict"
               PROVE  Base - call.base >= Attempts
    BY DEF vars
  <2>1. Retry /\ attempt >= Attempts
    <3>1. Retry
      BY DEF Next, Begin, Client, Read, Send, ScaleReturns, Poll, Tick, WaitTimesOut,
         ReadFails, GiveUp, PollFails, ContextDone, Server, Process, ControllerWrites,
         Return, GoTo
    <3>2. attempt \in 1..Attempts
      BY DEF IInv, TypeInv
    <3>3. QED
      BY <3>1, <3>2 DEF Retry, Attempts
  <2>2. /\ pc = "sent" /\ reply = "conflict"
        /\ Base > copy.rv /\ copy.rv >= call.base + (attempt - 1)
    BY <2>1 DEF Retry, IInv, AttemptInv
  <2>3. Base \in Nat /\ copy.rv \in Nat /\ call.base \in Nat /\ attempt \in Nat
    BY BaseType DEF IInv, TypeInv, Calls, Attempts
  <2>4. QED
    BY <2>1, <2>2, <2>3 DEF Attempts
<1>2. QED
  BY <1>1, Invariance, PTL DEF Spec, GivesUpOnlyUnderContention

\* What a step makes of the object: nothing, a request's write or a controller's.
LEMMA ObjectStep ==
    ASSUME IInv, [Next]_vars, obj' # obj
    PROVE  \/ ControllerWrites
           \/ \E r \in flight : Process(r)
<1>1. QED
  BY DEF Next, vars, Begin, Client, Read, Send, ScaleReturns, Retry, Poll, Tick,
     WaitTimesOut, ReadFails, GiveUp, PollFails, ContextDone, Server, Return, GoTo

\* What a request that has an effect writes besides the replicas is what is there.
LEMMA MoveWritesCurrent ==
    ASSUME IInv, NEW r \in flight, Process(r), obj' # obj
    PROVE  /\ Target \in DOMAIN obj /\ obj[Target] \in Objects
           /\ \E w \in Objects : /\ obj' = [obj EXCEPT ![Target] = w]
                                 /\ w.note = obj[Target].note
<1>1. r.rv = obj[Target].rv /\ \E w \in Objects : /\ obj' = [obj EXCEPT ![Target] = w]
                                                 /\ w.note = r.note
  BY ProcessShape
<1>2. Target \in DOMAIN obj /\ r.note = obj[Target].note /\ obj[Target] \in Objects
  BY <1>1 DEF IInv, ReadInv, ReadOf, TypeInv, ObjType
<1>3. QED
  BY <1>1, <1>2

\* What controllers write is never overwritten, however late an update arrives (the
\* whole object is written, under the version that was read).
THEOREM ForeignWritesKeptHolds == Spec => ForeignWritesKept
<1>1. IInv /\ [Next]_vars => [\A k \in DOMAIN obj : obj'[k].note >= obj[k].note]_vars
  <2> SUFFICES ASSUME IInv, [Next]_vars, NEW k \in DOMAIN obj
               PROVE  obj'[k].note >= obj[k].note
    OBVIOUS
  <2>0. obj[k].note \in Nat
    BY DEF IInv, TypeInv, ObjType, Objects
  <2>1. CASE obj' = obj
    BY <2>0, <2>1
  <2>2. CASE ControllerWrites
    <3>1. PICK c \in DOMAIN obj, w \in Objects :
            obj' = [obj EXCEPT ![c] = w] /\ w.note = obj[c].note + 1
      BY <2>2, ControllerShape
    <3>2. obj'[k] = IF k = c THEN w ELSE obj[k]
      BY <3>1
    <3>3. QED
      BY <2>0, <3>1, <3>2
  <2>3. ASSUME NEW r \in flight, Process(r), obj' # obj
        PROVE  obj'[k].note >= obj[k].note
    <3>1. PICK w \in Objects :
            obj' = [obj EXCEPT ![Target] = w] /\ w.note = obj[Target].note
      BY <2>3, MoveWritesCurrent
    <3>2. obj'[k] = IF k = Target THEN w ELSE obj[k]
      BY <3>1
    <3>3. QED
      BY <2>0, <3>1, <3>2
  <2>4. QED
    BY <2>1, <2>2, <2>3, ObjectStep
<1>2. QED
  BY <1>1, Invariance, PTL DEF Spec, ForeignWritesKept

\* Calls act on the workload itself: a statefulset next to a deployment keeps its count,
\* and a wait that succeeds has seen the wanted count at the target (IsNotFound before
\* each fallback).
THEOREM ActsOnTargetHolds == Spec => ActsOnTarget
<1>1. IInv /\ [Next]_vars =>
        (DOMAIN obj = Kinds => obj'["statefulset"].replicas = obj["statefulset"].replicas)
  <2> SUFFICES ASSUME IInv, [Next]_vars, DOMAIN obj = Kinds, obj' # obj
               PROVE  obj'["statefulset"].replicas = obj["statefulset"].replicas
    OBVIOUS
  <2>1. Target = "deployment"
    BY DEF Target, Kinds
  <2>2. CASE ControllerWrites
    <3>1. PICK c \in DOMAIN obj, w \in Objects :
            obj' = [obj EXCEPT ![c] = w] /\ w.replicas = obj[c].replicas
      BY <2>2, ControllerShape
    <3>2. QED
      BY <3>1 DEF Kinds
  <2>3. ASSUME NEW r \in flight, Process(r)
        PROVE  obj'["statefulset"] = obj["statefulset"]
    BY <2>1, <2>3, MoveWritesCurrent DEF Kinds
  <2>4. QED
    BY <2>2, <2>3, ObjectStep
<1>2. IInv /\ Next /\ pc # "idle" /\ pc' = "idle" /\ call.op = "wait" /\ answer' = "nil"
        => Target \in DOMAIN obj /\ obj[Target].ready = call.want
  <2> SUFFICES ASSUME IInv, Next, pc # "idle", pc' = "idle", call.op = "wait",
                      answer' = "nil"
               PROVE  Target \in DOMAIN obj /\ obj[Target].ready = call.want
    OBVIOUS
  <2>1. pc \notin Scaling
    BY DEF IInv, ControlInv
  <2>2. Poll
    BY <2>1 DEF Next, Begin, Client, Read, Send, ScaleReturns, Retry, Tick, WaitTimesOut,
       ReadFails, GiveUp, PollFails, ContextDone, Server, Process, ControllerWrites,
       Return, GoTo, Scaling
  <2> DEFINE k == IF pc = "poll" THEN "deployment" ELSE "statefulset"
  <2>3. k \in DOMAIN obj /\ obj[k].ready = call.want
    BY <2>2 DEF Poll, GoTo, Return
  <2>4. k = Target
    <3>1. k \in Kinds /\ (k = "deployment" \/ "deployment" \notin DOMAIN obj)
      BY <2>2 DEF Poll, Kinds, IInv, ControlInv
    <3>2. QED
      BY <2>3, <3>1, TargetOfRead
  <2>5. QED
    BY <2>3, <2>4
<1>3. QED
  BY <1>1, <1>2, Invariance, PTL DEF Spec, ActsOnTarget
=============================================================================
