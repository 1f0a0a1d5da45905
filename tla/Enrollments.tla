---------------------------- MODULE Enrollments ----------------------------
(***************************************************************************)
(* How the framework learns which fingerprints are enrolled                *)
(* (src/fingerprint): it asks a session to enumerate or remove templates,  *)
(* the worker passes that on to the vendor library, and the library        *)
(* answers later, with a message per template, from its own thread.        *)
(* Fingerprint::notify hands each message to the session that is open by   *)
(* then, and the list of an enumeration grows in a static vector that all  *)
(* sessions share.                                                         *)
(*                                                                         *)
(* The library is modelled from its interface (include/fingerprint.h): it  *)
(* serves one operation after the other and sends its messages in order.   *)
(***************************************************************************)
EXTENDS Integers, Sequences, FiniteSets, SequencesExt

CONSTANTS
    Users,
    Fids,                \* what a template may be called
    Stored,              \* what the library may have stored for the users at first
    Removals,            \* the lists of ids the framework asks to remove
    WORKER_QUEUE_SIZE,
    MaxSessions,         \* bound: sessions the framework creates
    MaxCalls             \* bound: enumerations, removals and enrollments

AnyFid == 0              \* remove: every template; enumerate: there is none
NoUser == "none"

ASSUME EnrollmentsAssumption ==
    /\ NoUser \notin Users
    /\ Fids \subseteq Nat \ {AnyFid} /\ IsFiniteSet(Fids)
    /\ Stored \subseteq [Users -> SUBSET Fids]
    /\ Removals \subseteq Seq(Fids \cup {AnyFid})
    /\ WORKER_QUEUE_SIZE \in Nat \ {0}
    /\ MaxSessions \in Nat
    /\ MaxCalls \in Nat

VARIABLES
    templates,    \* per user: the templates the library has stored
    group,        \* the user of its last set_active_group
    cur,          \* Fingerprint::mSession, as its number
    user,         \* its mUserId
    open,         \* it exists and is not mClosed
    queue,        \* the worker's tasks: [task, s, user, ids]
    removing,     \* the removal the worker is at: [user, ids]
    vendor,       \* the messages the library has yet to send
    notifying,    \* the message notify has found an open session for, if any
    enrollments,  \* the static list in Session::notify
    told,         \* per user: the enrollments the callbacks have told of
    calls,        \* enumerations, removals and enrollments so far
    owed,         \* enumerations the open session waits for
    torn,         \* history: the enumeration being delivered has lost a message
    whole,        \* history, per user: enumerations reported in whole since a
                  \* message was last lost, no more than 2
    none          \* history, per user: the last list reported ended with AnyFid

library == <<templates, group, vendor>>
session == <<cur, user, open>>
worker == <<queue, removing>>
framework == <<told, calls, owed>>
history == <<torn, whole, none>>
vars == <<library, session, worker, notifying, enrollments, framework, history>>

Idle == [user |-> NoUser, ids |-> << >>]

Init ==
    /\ templates \in Stored
    /\ group = NoUser
    /\ cur = 0
    /\ user = NoUser
    /\ open = FALSE
    /\ queue = << >>
    /\ removing = Idle
    /\ vendor = << >>
    /\ notifying = << >>
    /\ enrollments = << >>
    /\ told = templates
    /\ calls = 0
    /\ owed = 0
    /\ torn = FALSE
    /\ whole = [u \in Users |-> 2]
    /\ none = [u \in Users |-> FALSE]

-----------------------------------------------------------------------------
(* The framework, on the binder thread.                                    *)

\* createSession, after its CHECK, and the constructor of Session.
CreateSession(u) ==
    /\ ~open
    /\ cur < MaxSessions
    /\ cur' = cur + 1
    /\ user' = u
    /\ open' = TRUE
    /\ group' = u
    /\ UNCHANGED <<templates, vendor, worker, notifying, enrollments, framework,
                   history>>

\* WorkerThread::schedule (AOSP), whose result nobody looks at.
\* The slip forgets the test of the queue's size.
NeverFull == FALSE
Full == Len(queue) >= WORKER_QUEUE_SIZE

Schedule(task, ids) ==
    queue' = IF Full THEN queue
             ELSE Append(queue, [task |-> task, s |-> cur, user |-> user, ids |-> ids])

enumerateEnrollments ==
    /\ open
    /\ calls < MaxCalls
    /\ calls' = calls + 1
    /\ Schedule("enumerate", << >>)
    /\ owed' = IF Full THEN owed ELSE owed + 1
    /\ UNCHANGED <<library, session, removing, notifying, enrollments, told, history>>

removeEnrollments(enrollmentIds) ==
    /\ open
    /\ calls < MaxCalls
    /\ calls' = calls + 1
    /\ Schedule("remove", enrollmentIds)
    /\ UNCHANGED <<library, session, removing, notifying, enrollments, told, owed,
                   history>>

\* Session::close, by the framework or by its death.
close ==
    /\ open
    /\ open' = FALSE
    /\ owed' = 0
    /\ Schedule("close", << >>)
    /\ UNCHANGED <<library, cur, user, removing, notifying, enrollments, told,
                   calls, history>>

-----------------------------------------------------------------------------
(* The worker and the library's side of its calls.                         *)

Message(type, fid, remaining, s) ==
    [type |-> type, gid |-> group, fid |-> fid, remaining |-> remaining, s |-> s]

\* A message for each of the templates, counting down those to come.
Messages(type, fids, s) ==
    LET ordered == SetToSeq(fids)
    IN  [i \in DOMAIN ordered |-> Message(type, ordered[i], Len(ordered) - i, s)]

\* enumerate: "If there are no fingerprints, then [...] the first fingerprint
\* enumerated should have fingerid=0 and remaining=0".
Enumeration(s) ==
    IF templates[group] = {} THEN <<Message("ENUMERATING", AnyFid, 0, s)>>
    ELSE Messages("ENUMERATING", templates[group], s)

\* The templates remove finds: all for fid 0, those of the active group only.
Found(u, fid) ==
    IF u # group THEN {}
    ELSE IF fid = AnyFid THEN templates[u] ELSE templates[u] \cap {fid}

\* The task of enumerateEnrollments.  A refusal is only logged.
Enumerate ==
    /\ queue # << >> /\ removing = Idle
    /\ Head(queue).task = "enumerate"
    /\ queue' = Tail(queue)
    /\ \/ /\ vendor' = vendor \o Enumeration(Head(queue).s)
          /\ UNCHANGED owed
       \/ /\ owed' = IF Head(queue).s = cur /\ open THEN owed - 1 ELSE owed
          /\ UNCHANGED vendor
    /\ UNCHANGED <<templates, group, session, removing, notifying, enrollments,
                   told, calls, history>>

\* The task of removeEnrollments starts its loop over the ids ...
TakeRemoval ==
    /\ queue # << >> /\ removing = Idle
    /\ Head(queue).task = "remove"
    /\ removing' = [user |-> Head(queue).user, ids |-> Head(queue).ids]
    /\ queue' = Tail(queue)
    /\ UNCHANGED <<library, session, notifying, enrollments, framework, history>>

\* ... in which a refusal is logged and the next id follows.
RemoveNext ==
    LET fids == Found(removing.user, Head(removing.ids))
    IN  /\ removing.ids # << >>
        /\ removing' = [removing EXCEPT !.ids = Tail(@)]
        /\ \/ /\ templates' = [templates EXCEPT ![removing.user] = @ \ fids]
              /\ vendor' = vendor \o Messages("REMOVED", fids, cur)
           \/ UNCHANGED <<templates, vendor>>
        /\ UNCHANGED <<group, session, queue, notifying, enrollments, framework,
                       history>>

RemovalDone ==
    /\ removing # Idle /\ removing.ids = << >>
    /\ removing' = Idle
    /\ UNCHANGED <<library, session, queue, notifying, enrollments, framework,
                   history>>

\* The task of close touches the panel and the sensor only.
CloseTask ==
    /\ queue # << >> /\ removing = Idle
    /\ Head(queue).task = "close"
    /\ queue' = Tail(queue)
    /\ UNCHANGED <<library, session, removing, notifying, enrollments, framework,
                   history>>

-----------------------------------------------------------------------------
(* The library's thread.                                                   *)

\* An enrollment, begun by the enroll task, completes with a new template.
Enroll(fid) ==
    /\ group # NoUser
    /\ calls < MaxCalls
    /\ calls' = calls + 1
    /\ fid \notin templates[group]
    /\ templates' = [templates EXCEPT ![group] = @ \cup {fid}]
    /\ vendor' = Append(vendor, Message("ENROLLING", fid, 0, cur))
    /\ UNCHANGED <<group, session, worker, notifying, enrollments, told, owed,
                   history>>

\* An error ends an enumeration, also one whose first messages are out.
BreakOff ==
    /\ notifying = << >> /\ vendor # << >>
    /\ Head(vendor).type = "ENUMERATING"
    /\ vendor' =
           LET last == CHOOSE i \in DOMAIN vendor :
                   /\ vendor[i].remaining = 0
                   /\ \A j \in 1 .. i - 1 : vendor[j].remaining # 0
           IN  <<Message("ERROR", AnyFid, 0, Head(vendor).s)>>
                   \o SubSeq(vendor, last + 1, Len(vendor))
    /\ owed' = IF Head(vendor).s = cur /\ open THEN owed - 1 ELSE owed
    /\ torn' = FALSE
    /\ whole' = [u \in Users |-> 0]
    /\ UNCHANGED <<templates, group, session, worker, notifying, enrollments, told,
                   calls, none>>

\* The part of an enumeration that went nowhere, or to another user's session.
Lost(m) ==
    /\ torn' = IF m.type = "ENUMERATING" THEN m.remaining # 0 ELSE torn
    /\ whole' = IF m.type = "ERROR" THEN whole ELSE [u \in Users |-> 0]

\* Fingerprint::notify: its test for an open session ...
Notify ==
    /\ notifying = << >> /\ vendor # << >>
    /\ open
    /\ notifying' = <<Head(vendor)>>
    /\ vendor' = Tail(vendor)
    /\ UNCHANGED <<templates, group, session, worker, enrollments, framework, history>>

\* ... without which the message is discarded ...
Discard ==
    /\ notifying = << >> /\ vendor # << >>
    /\ ~open
    /\ vendor' = Tail(vendor)
    /\ Lost(Head(vendor))
    /\ UNCHANGED <<templates, group, session, worker, notifying, enrollments,
                   framework, none>>

\* ... and Session::notify of whatever mSession is by then, in three parts.
Delivered(type) ==
    /\ notifying # << >>
    /\ Head(notifying).type = type
    /\ notifying' = << >>
    /\ UNCHANGED <<library, session, worker, calls>>

\* The list is reported with its last message, and emptied; the slips forget to
\* empty it, and wait for a message too few.  Whatever id a message has is put
\* into the list, the 0 that stands for no template too.
Kept(list) == list
Emptied(list) == << >>

IsLastButOne(m) == m.remaining = 1
IsLast(m) == m.remaining = 0

DeliverEnumerating ==
    LET m == Head(notifying)
        list == Append(enrollments, m.fid)
        mine == m.s = cur /\ open
    IN  /\ Delivered("ENUMERATING")
        /\ IF IsLast(m)
           THEN /\ told' = [told EXCEPT ![user] = ToSet(list)]
                /\ enrollments' = Emptied(list)
                /\ owed' = IF mine THEN owed - 1 ELSE owed
                /\ none' = [none EXCEPT ![user] = m.fid = AnyFid]
           ELSE /\ enrollments' = list
                /\ UNCHANGED <<told, owed, none>>
        /\ IF m.gid # user THEN Lost(m)
           ELSE /\ torn' = (torn /\ m.remaining # 0)
                /\ whole' = IF m.remaining # 0 \/ torn \/ whole[user] = 2 THEN whole
                            ELSE [whole EXCEPT ![user] = @ + 1]

\* A removal and an enrollment are reported one by one.
DeliverRemoved ==
    LET m == Head(notifying)
    IN  /\ Delivered("REMOVED")
        /\ told' = [told EXCEPT ![user] = @ \ {m.fid}]
        /\ IF m.gid # user THEN Lost(m) ELSE UNCHANGED <<torn, whole>>
        /\ UNCHANGED <<enrollments, owed, none>>

DeliverEnrolling ==
    LET m == Head(notifying)
    IN  /\ Delivered("ENROLLING")
        /\ told' = [told EXCEPT ![user] = @ \cup {m.fid}]
        /\ IF m.gid # user THEN Lost(m) ELSE UNCHANGED <<torn, whole>>
        /\ UNCHANGED <<enrollments, owed, none>>

DeliverError ==
    /\ Delivered("ERROR")
    /\ UNCHANGED <<enrollments, told, owed, history>>

-----------------------------------------------------------------------------
Work == Enumerate \/ TakeRemoval \/ RemoveNext \/ RemovalDone \/ CloseTask
Deliver == DeliverEnumerating \/ DeliverRemoved \/ DeliverEnrolling \/ DeliverError

Next ==
    \/ \E u \in Users : CreateSession(u)
    \/ enumerateEnrollments
    \/ \E ids \in Removals : removeEnrollments(ids)
    \/ close
    \/ Work
    \/ \E fid \in Fids : Enroll(fid)
    \/ BreakOff
    \/ Notify \/ Discard \/ Deliver

\* The worker and the library's thread are never held up for good.
Fairness == WF_vars(Work) /\ WF_vars(Notify \/ Discard \/ Deliver)

Spec == Init /\ [][Next]_vars /\ Fairness

-----------------------------------------------------------------------------
MessageSet == [type : {"ENUMERATING", "REMOVED", "ENROLLING", "ERROR"},
               gid : Users, fid : Fids \cup {AnyFid}, remaining : Nat,
               s : 1 .. MaxSessions]

\* Every variable keeps its type: the worker's queue stays within its size, and
\* no more enumerations are answered than the open session waits for.
TypeOK ==
    /\ templates \in [Users -> SUBSET Fids]
    /\ group \in Users \cup {NoUser}
    /\ cur \in 0 .. MaxSessions
    /\ user \in Users \cup {NoUser}
    /\ open \in BOOLEAN
    /\ queue \in Seq([task : {"enumerate", "remove", "close"}, s : 1 .. MaxSessions,
                      user : Users, ids : Seq(Fids \cup {AnyFid})])
    /\ Len(queue) <= WORKER_QUEUE_SIZE
    /\ removing \in [user : Users \cup {NoUser}, ids : Seq(Fids \cup {AnyFid})]
    /\ vendor \in Seq(MessageSet)
    /\ notifying \in Seq(MessageSet)
    /\ enrollments \in Seq(Fids \cup {AnyFid})
    /\ told \in [Users -> SUBSET (Fids \cup {AnyFid})]
    /\ calls \in 0 .. MaxCalls
    /\ owed \in 0 .. MaxCalls
    /\ torn \in BOOLEAN
    /\ whole \in [Users -> 0 .. 2]
    /\ none \in [Users -> BOOLEAN]

\* Whatever was discarded, broken off or given to another user's session, two
\* enumerations reported in whole put the framework right: once the library has
\* sent all it has to say, what the framework was told of a user are the templates
\* that the library has, and nothing else but the 0 of an enumeration that found
\* none: fingerprint.h means it as "no fingerprints", and Session::notify reports
\* it as an enrollment like any other.
\* (One is not enough: its list begins with what a broken one has left behind.)
ToldExactly ==
    vendor = << >> /\ notifying = << >> =>
        \A u \in Users : whole[u] = 2 =>
            told[u] = templates[u] \cup (IF none[u] THEN {AnyFid} ELSE {})

\* An enumeration that was queued is answered, unless its session is closed
\* before, the library refuses it, or breaks it off.
EnumerationAnswered == owed > 0 ~> owed = 0
=============================================================================
