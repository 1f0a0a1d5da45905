---------------------- MODULE FingerprintSessionProofs ----------------------
(* Theorems about FingerprintSession, for any number of sessions, calls and *)
(* messages, any thresholds and any number of timer threads.                *)
EXTENDS FingerprintSession, FiniteSetTheorems, TLAPS

\* The calls after which a locked-out session may be armed, those that end
\* that, and those that put something else in place of the rest: the device
\* calls, an error of which ends the task, and a message to be delivered.
Arming == {"goodixOn", "storeCount"}
Disarming == {"getMode", "clearMode", "goodixOff"}
Replacing == {"devEnroll", "devAuthenticate", "devCancel"} \cup Messages

\* A handler that arms the sensor or counts a failure checks the lockout later.
CheckFollows(c) ==
    \A i \in 1..Len(c) :
        c[i] \in Arming => \E j \in 1..Len(c) : i < j /\ c[j] = "getMode"

\* What is replaced holds no call that disarms the sensor or darkens the panel.
ReplacedLast(c) ==
    \A i, j \in 1..Len(c) :
        c[i] \in Replacing /\ i < j => c[j] \notin Disarming /\ c[j] # "hbmOff"

\* addFailedAttempt stores the counter right after it has loaded it.
LoadPrecedes(c) ==
    \A i \in 1..Len(c) : c[i] = "storeCount" /\ i > 1 => c[i - 1] = "loadCount"

\* Only the worker and the notify thread arm or count, and only timers expire.
Belongs(t, c) ==
    \A i \in 1..Len(c) :
        /\ c[i] \in Arming => t \in {"worker", "notify"}
        /\ c[i] = "testAborted" => t \notin {"worker", "notify"}

Shape(t, c) == /\ c \in Seq(Calls)
               /\ CheckFollows(c)
               /\ ReplacedLast(c)
               /\ LoadPrecedes(c)
               /\ Belongs(t, c)

Shapes == \A t \in Threads : Shape(t, code[t])

\* What a thread is about to store as the counter has been loaded.
CountLoaded == \A t \in Threads : At(t, "storeCount") => reg[t] \in Nat

\* A message is only delivered once a session has been created.
NotifyHasSession == ~Idle("notify") => cur > 0

IInv == /\ TypeOK
        /\ Shapes
        /\ CountLoaded
        /\ LockedOutDisarmed

-----------------------------------------------------------------------------
(* The shape of a handler survives its execution.                          *)

\* A call less.
LEMMA TailShape ==
    ASSUME NEW t, NEW c, Shape(t, c), c # << >>
    PROVE  /\ Shape(t, Tail(c))
           /\ Tail(c) # << >> /\ Head(Tail(c)) = "storeCount" => Head(c) = "loadCount"
           /\ Head(c) \in Calls
<1> USE DEF Shape
<1>1. /\ Tail(c) \in Seq(Calls)
      /\ Len(Tail(c)) = Len(c) - 1
      /\ \A i \in 1..Len(Tail(c)) : Tail(c)[i] = c[i + 1]
      /\ Len(c) \in Nat
      /\ Head(c) = c[1]
      /\ Head(c) \in Calls
  OBVIOUS
<1>2. CheckFollows(Tail(c))
  <2> SUFFICES ASSUME NEW i \in 1..Len(Tail(c)), Tail(c)[i] \in Arming
               PROVE  \E j \in 1..Len(Tail(c)) : i < j /\ Tail(c)[j] = "getMode"
    BY DEF CheckFollows
  <2>1. PICK j \in 1..Len(c) : i + 1 < j /\ c[j] = "getMode"
    BY <1>1 DEF CheckFollows
  <2>2. j - 1 \in 1..Len(Tail(c)) /\ i < j - 1 /\ Tail(c)[j - 1] = "getMode"
    BY <1>1, <2>1
  <2> QED
    BY <2>2
<1>3. ReplacedLast(Tail(c))
  BY <1>1 DEF ReplacedLast
<1>4. LoadPrecedes(Tail(c))
  BY <1>1 DEF LoadPrecedes
<1>5. Belongs(t, Tail(c))
  BY <1>1 DEF Belongs
<1>6. Tail(c) # << >> /\ Head(Tail(c)) = "storeCount" => Head(c) = "loadCount"
  BY <1>1 DEF LoadPrecedes
<1> QED
  BY <1>1, <1>2, <1>3, <1>4, <1>5, <1>6

\* The calls checkSensorLockout and startLockoutTimer put before the rest.
Neutral == {"hbmOff", "goodixOff", "clearMode", "getTimeLeft", "onLockoutTimed",
            "onLockoutPermanent", "testStarted", "abortTimer", "unabortTimer",
            "spawnTimer", "timerStarted"}

\* A test replaced by what it leads to.
LEMMA PrefixShape ==
    ASSUME NEW t, NEW c, Shape(t, c), c # << >>, Head(c) # "loadCount",
           NEW p \in Seq(Neutral)
    PROVE  /\ Shape(t, p \o Tail(c))
           /\ p \o Tail(c) # << >> => Head(p \o Tail(c)) # "storeCount"
<1> DEFINE q == Tail(c)
           d == p \o q
<1>1. /\ Shape(t, q)
      /\ q # << >> => Head(q) # "storeCount"
  BY TailShape
<1>2. q \in Seq(Calls) /\ p \in Seq(Calls)
  <2>1. Neutral \subseteq Calls
    BY DEF Neutral, Calls, Stores, TrackerStores, LockoutCallbacks
  <2> QED
    BY <1>1, <2>1 DEF Shape
<1> HIDE DEF q
<1>3. /\ d \in Seq(Calls)
      /\ Len(d) = Len(p) + Len(q)
      /\ Len(p) \in Nat
      /\ Len(q) \in Nat
      /\ \A i \in 1..Len(p) : d[i] = p[i] /\ p[i] \in Neutral
      /\ \A i \in 1..Len(q) : d[Len(p) + i] = q[i]
  BY <1>2
<1>4. \A i \in 1..Len(d) : i \in 1..Len(p) \/ i - Len(p) \in 1..Len(q)
  BY <1>3
<1> HIDE DEF d
<1>5. \A i \in 1..Len(d) :
         i \notin 1..Len(p) => d[i] = q[i - Len(p)] /\ i - Len(p) \in 1..Len(q)
  BY <1>3, <1>4
<1>6. \A x \in Neutral : /\ x \notin Arming
                         /\ x \notin Replacing
                         /\ x # "storeCount"
                         /\ x # "testAborted"
  BY DEF Neutral, Arming, Replacing, Messages
<1>7. CheckFollows(d)
  <2> SUFFICES ASSUME NEW i \in 1..Len(d), d[i] \in Arming
               PROVE  \E j \in 1..Len(d) : i < j /\ d[j] = "getMode"
    BY DEF CheckFollows
  <2>1. i - Len(p) \in 1..Len(q) /\ q[i - Len(p)] \in Arming
    BY <1>3, <1>5, <1>6
  <2>2. PICK j \in 1..Len(q) : i - Len(p) < j /\ q[j] = "getMode"
    BY <1>1, <2>1 DEF Shape, CheckFollows
  <2>3. Len(p) + j \in 1..Len(d) /\ i < Len(p) + j /\ d[Len(p) + j] = "getMode"
    BY <1>3, <2>2
  <2> QED
    BY <2>3
<1>8. ReplacedLast(d)
  <2> SUFFICES ASSUME NEW i \in 1..Len(d), NEW j \in 1..Len(d),
                      d[i] \in Replacing, i < j
               PROVE  d[j] \notin Disarming /\ d[j] # "hbmOff"
    BY DEF ReplacedLast
  <2>1. i \notin 1..Len(p)
    BY <1>3, <1>6
  <2>2. j \notin 1..Len(p)
    BY <1>3, <2>1
  <2> QED
    <3>1. /\ q[i - Len(p)] \in Replacing
          /\ d[j] = q[j - Len(p)]
          /\ i - Len(p) \in 1..Len(q)
          /\ j - Len(p) \in 1..Len(q)
          /\ i - Len(p) < j - Len(p)
      BY <1>3, <1>5, <2>1, <2>2
    <3> QED
      BY <1>1, <3>1 DEF Shape, ReplacedLast
<1>9. LoadPrecedes(d)
  <2> SUFFICES ASSUME NEW i \in 1..Len(d), d[i] = "storeCount", i > 1
               PROVE  d[i - 1] = "loadCount"
    BY DEF LoadPrecedes
  <2>1. i - Len(p) \in 1..Len(q) /\ q[i - Len(p)] = "storeCount"
    BY <1>3, <1>5, <1>6
  <2>2. i - Len(p) > 1
    BY <1>1, <1>2, <2>1
  <2>3. q[i - Len(p) - 1] = "loadCount"
    BY <1>1, <2>1, <2>2 DEF Shape, LoadPrecedes
  <2>4. i - 1 \in 1..Len(d) /\ i - 1 \notin 1..Len(p)
    BY <1>3, <2>2
  <2> QED
    BY <1>3, <1>5, <2>3, <2>4
<1>10. Belongs(t, d)
  BY <1>1, <1>3, <1>5, <1>6 DEF Shape, Belongs
<1>11. d # << >> => Head(d) # "storeCount"
  <2> SUFFICES ASSUME d # << >> PROVE d[1] # "storeCount"
    BY <1>3
  <2>1. 1 \in 1..Len(d)
    BY <1>3
  <2>2. CASE 1 \in 1..Len(p)
    BY <1>3, <1>6, <2>2
  <2>3. CASE 1 \notin 1..Len(p)
    BY <1>1, <1>2, <1>3, <1>5, <2>1, <2>3
  <2> QED
    BY <2>2, <2>3
<1> QED
  BY <1>3, <1>7, <1>8, <1>9, <1>10, <1>11 DEF Shape, d, q
-----------------------------------------------------------------------------
(* The handlers have the shape.                                            *)

\* The calls the shape is not about.
Plain == Calls \ (Arming \cup Replacing \cup {"testAborted"})

\* A handler with none of the calls the shape is about.
LEMMA PlainShape ==
    ASSUME NEW t, NEW c \in Seq(Plain)
    PROVE  /\ Shape(t, c)
           /\ c # << >> => Head(c) # "storeCount"
  BY DEF Plain, Shape, CheckFollows, ReplacedLast, LoadPrecedes, Belongs, Arming

\* The calls of the handlers, one by one.
LEMMA PlainCalls ==
    /\ Tasks \subseteq Plain
    /\ Callbacks \cup LockoutCallbacks \subseteq Plain
    /\ {"hbmOn", "hbmOff", "goodixOff", "uiReady", "uiNotReady", "markClosed",
        "zeroCount", "clearMode", "abortTimer", "unabortTimer", "timerStopped",
        "devEnumerate", "devRemove", "sleep", "waitUiReady", "getMode", "loadCount",
        "stampStart"} \subseteq Plain
    /\ Arming \cup Replacing \cup {"testAborted"} \subseteq Calls
    /\ Plain \subseteq Calls
  BY DEF Plain, Calls, Tasks, Messages, Callbacks, DeviceQueries, Stores,
         TrackerStores, LockoutCallbacks, Arming, Replacing

\* Short sequences.
LEMMA ShortSeqs ==
    ASSUME NEW S, NEW a \in S, NEW b \in S, NEW c \in S, NEW d \in S,
           NEW e \in S, NEW f \in S
    PROVE  /\ <<a>> \in Seq(S)
           /\ <<a, b>> \in Seq(S)
           /\ <<a, b, c>> \in Seq(S)
           /\ <<a, b, c, d>> \in Seq(S)
           /\ <<a, b, c, d, e>> \in Seq(S)
           /\ <<a, b, c, d, e, f>> \in Seq(S)
  OBVIOUS

\* The handlers with calls the shape is about.
LEMMA SpecialShapes ==
    /\ \A op \in {"devEnroll", "devAuthenticate"} : Shape("worker", <<op, "hbmOn">>)
    /\ Shape("worker", <<"waitUiReady", "goodixOn", "getMode">>)
    /\ Shape("worker", <<"hbmOff", "goodixOff", "uiNotReady", "devCancel">>)
    /\ Shape("notify", <<"onAuthenticationFailed", "loadCount", "storeCount",
                         "stampStart", "getMode", "uiNotReady">>)
    /\ \A t : t \notin {"worker", "notify"} => Shape(t, <<"sleep", "testAborted">>)
    /\ \A m \in Messages : Shape("notify", <<m>>) /\ Head(<<m>>) # "storeCount"
<1> USE DEF CheckFollows, ReplacedLast, LoadPrecedes, Belongs, Arming, Replacing,
            Messages, Disarming
<1>1. ASSUME NEW op \in {"devEnroll", "devAuthenticate"}
      PROVE  Shape("worker", <<op, "hbmOn">>)
  <2> DEFINE c == <<op, "hbmOn">>
  <2>1. op \in Calls /\ "hbmOn" \in Calls
    BY PlainCalls
  <2>2. c \in Seq(Calls) /\ Len(c) = 2 /\ c[1] = op /\ c[2] = "hbmOn"
    BY <2>1
  <2> HIDE DEF c
  <2>3. CheckFollows(c) /\ ReplacedLast(c) /\ LoadPrecedes(c) /\ Belongs("worker", c)
    BY <1>1, <2>2
  <2> QED
    BY <2>2, <2>3 DEF Shape, c
<1>2. Shape("worker", <<"waitUiReady", "goodixOn", "getMode">>)
  <2> DEFINE c == <<"waitUiReady", "goodixOn", "getMode">>
  <2>1. "waitUiReady" \in Calls /\ "goodixOn" \in Calls /\ "getMode" \in Calls
    BY PlainCalls
  <2>2. /\ c \in Seq(Calls)
        /\ Len(c) = 3
        /\ c[1] = "waitUiReady" /\ c[2] = "goodixOn" /\ c[3] = "getMode"
    BY <2>1
  <2> HIDE DEF c
  <2>3. CheckFollows(c) /\ ReplacedLast(c) /\ LoadPrecedes(c) /\ Belongs("worker", c)
    BY <2>2
  <2> QED
    BY <2>2, <2>3 DEF Shape, c
<1>3. Shape("worker", <<"hbmOff", "goodixOff", "uiNotReady", "devCancel">>)
  <2> DEFINE c == <<"hbmOff", "goodixOff", "uiNotReady", "devCancel">>
  <2>1. /\ "hbmOff" \in Calls /\ "goodixOff" \in Calls
        /\ "uiNotReady" \in Calls /\ "devCancel" \in Calls
    BY PlainCalls
  <2>2. /\ c \in Seq(Calls)
        /\ Len(c) = 4
        /\ c[1] = "hbmOff" /\ c[2] = "goodixOff"
        /\ c[3] = "uiNotReady" /\ c[4] = "devCancel"
    BY <2>1
  <2> HIDE DEF c
  <2>3. CheckFollows(c) /\ ReplacedLast(c) /\ LoadPrecedes(c) /\ Belongs("worker", c)
    BY <2>2
  <2> QED
    BY <2>2, <2>3 DEF Shape, c
<1>4. Shape("notify", <<"onAuthenticationFailed", "loadCount", "storeCount",
                        "stampStart", "getMode", "uiNotReady">>)
  <2> DEFINE c == <<"onAuthenticationFailed", "loadCount", "storeCount",
                    "stampStart", "getMode", "uiNotReady">>
  <2>1. /\ "onAuthenticationFailed" \in Calls /\ "loadCount" \in Calls
        /\ "storeCount" \in Calls /\ "stampStart" \in Calls
        /\ "getMode" \in Calls /\ "uiNotReady" \in Calls
    BY PlainCalls DEF Callbacks
  <2>2. /\ c \in Seq(Calls)
        /\ Len(c) = 6
        /\ c[1] = "onAuthenticationFailed" /\ c[2] = "loadCount"
        /\ c[3] = "storeCount" /\ c[4] = "stampStart"
        /\ c[5] = "getMode" /\ c[6] = "uiNotReady"
    BY <2>1
  <2> HIDE DEF c
  <2>3. CheckFollows(c)
    BY <2>2
  <2>4. ReplacedLast(c) /\ LoadPrecedes(c) /\ Belongs("notify", c)
    BY <2>2
  <2> QED
    BY <2>2, <2>3, <2>4 DEF Shape, c
<1>5. ASSUME NEW t, t \notin {"worker", "notify"}
      PROVE  Shape(t, <<"sleep", "testAborted">>)
  <2> DEFINE c == <<"sleep", "testAborted">>
  <2>1. "sleep" \in Calls /\ "testAborted" \in Calls
    BY PlainCalls
  <2>2. c \in Seq(Calls) /\ Len(c) = 2 /\ c[1] = "sleep" /\ c[2] = "testAborted"
    BY <2>1
  <2> HIDE DEF c
  <2>3. CheckFollows(c) /\ ReplacedLast(c) /\ LoadPrecedes(c) /\ Belongs(t, c)
    BY <1>5, <2>2
  <2> QED
    BY <2>2, <2>3 DEF Shape, c
<1>6. ASSUME NEW m \in Messages
      PROVE  Shape("notify", <<m>>) /\ Head(<<m>>) # "storeCount"
  <2> DEFINE c == <<m>>
  <2>1. m \in Calls
    BY DEF Calls
  <2>2. c \in Seq(Calls) /\ Len(c) = 1 /\ c[1] = m
    BY <2>1
  <2> HIDE DEF c
  <2>3. CheckFollows(c) /\ ReplacedLast(c) /\ LoadPrecedes(c) /\ Belongs("notify", c)
    BY <1>6, <2>2
  <2> QED
    BY <2>2, <2>3 DEF Shape, c
<1> QED
  BY <1>1, <1>2, <1>3, <1>4, <1>5, <1>6

\* Whatever task the worker takes, it has the shape, and stores no counter.
LEMMA TaskShape ==
    ASSUME NEW task \in Tasks
    PROVE  /\ Shape("worker", TaskCode[task])
           /\ TaskCode[task] # << >> => Head(TaskCode[task]) # "storeCount"
<1> USE DEF TaskCode
<1>1. CASE task \in {"enroll", "authenticate"}
  <2>1. PICK op \in {"devEnroll", "devAuthenticate"} : TaskCode[task] = <<op, "hbmOn">>
    BY <1>1 DEF enroll, authenticate
  <2>2. Head(<<op, "hbmOn">>) # "storeCount"
    OBVIOUS
  <2> HIDE DEF TaskCode
  <2> QED
    BY <2>1, <2>2, SpecialShapes
<1>2. CASE task = "onPointerDown"
  <2>1. TaskCode[task] = <<"waitUiReady", "goodixOn", "getMode">>
    BY <1>2 DEF onPointerDown
  <2> HIDE DEF TaskCode
  <2> QED
    BY <2>1, SpecialShapes
<1>3. CASE task = "cancel"
  <2>1. TaskCode[task] = <<"hbmOff", "goodixOff", "uiNotReady", "devCancel">>
    BY <1>3 DEF cancel
  <2> HIDE DEF TaskCode
  <2> QED
    BY <2>1, SpecialShapes
<1>4. CASE task \in {"resetLockout", "close", "revokeChallenge"}
  <2>1. TaskCode[task] \in
          {<<"zeroCount", "clearMode", "onLockoutCleared", "abortTimer">>,
           <<"hbmOff", "goodixOff", "uiNotReady">>,
           <<"hbmOff", "goodixOff", "onChallengeRevoked">>}
    BY <1>4 DEF resetLockout, close, revokeChallenge
  <2>2. /\ <<"zeroCount", "clearMode", "onLockoutCleared", "abortTimer">> \in Seq(Plain)
        /\ <<"hbmOff", "goodixOff", "uiNotReady">> \in Seq(Plain)
        /\ <<"hbmOff", "goodixOff", "onChallengeRevoked">> \in Seq(Plain)
    BY ShortSeqs, PlainCalls DEF Callbacks, LockoutCallbacks
  <2> QED
    BY <2>1, <2>2, PlainShape
<1>5. CASE task \in {"generateChallenge", "detectInteraction", "enumerateEnrollments",
                    "removeEnrollments", "invalidateAuthenticatorId"}
  <2>1. PICK call \in {"onChallengeGenerated", "onError", "devEnumerate", "devRemove",
                      "onAuthenticatorIdInvalidated"} : TaskCode[task] = <<call>>
    BY <1>5 DEF generateChallenge, detectInteraction, enumerateEnrollments,
                removeEnrollments, invalidateAuthenticatorId
  <2>2. call \in Plain
    BY PlainCalls DEF Callbacks
  <2>3. <<call>> \in Seq(Plain)
    BY <2>2
  <2> HIDE DEF TaskCode
  <2> QED
    BY <2>1, <2>3, PlainShape
<1>6. CASE task \in {"getAuthenticatorId", "onPointerUp"}
  <2>1. TaskCode[task] \in {<<"onAuthenticatorIdRetrieved", "goodixOff">>,
                           <<"goodixOff", "uiNotReady">>}
    BY <1>6 DEF getAuthenticatorId, onPointerUp
  <2>2. /\ <<"onAuthenticatorIdRetrieved", "goodixOff">> \in Seq(Plain)
        /\ <<"goodixOff", "uiNotReady">> \in Seq(Plain)
    BY ShortSeqs, PlainCalls DEF Callbacks
  <2> QED
    BY <2>1, <2>2, PlainShape
<1> QED
  BY <1>1, <1>2, <1>3, <1>4, <1>5, <1>6 DEF Tasks

\* The same of a call of the framework.
LEMMA BinderShape ==
    ASSUME NEW op \in Ops
    PROVE  /\ Shape("binder", BinderCode(op))
           /\ BinderCode(op) # << >> => Head(BinderCode(op)) # "storeCount"
<1>1. BinderCode(op) \in {<<"hbmOn", "uiReady">>, <<"uiNotReady", "authenticate">>,
                         <<"close", "markClosed", "onSessionClosed">>}
      \/ (op \in Tasks /\ BinderCode(op) = <<op>>)
  BY DEF BinderCode, Ops
<1>2. /\ <<"hbmOn", "uiReady">> \in Seq(Plain)
      /\ <<"uiNotReady", "authenticate">> \in Seq(Plain)
      /\ <<"close", "markClosed", "onSessionClosed">> \in Seq(Plain)
  BY ShortSeqs, PlainCalls DEF Callbacks, Tasks
<1>3. ASSUME op \in Tasks PROVE <<op>> \in Seq(Plain)
  BY <1>3, PlainCalls
<1> QED
  BY <1>1, <1>2, <1>3, PlainShape

\* The same of a message of the vendor library.
LEMMA NotifyShape ==
    ASSUME NEW m \in Messages
    PROVE  /\ Shape("notify", NotifyCode[m])
           /\ NotifyCode[m] # << >> => Head(NotifyCode[m]) # "storeCount"
<1> USE DEF NotifyCode
<1>1. CASE m = "failed"
  <2>1. NotifyCode[m] = <<"onAuthenticationFailed", "loadCount", "storeCount",
                          "stampStart", "getMode", "uiNotReady">>
    BY <1>1
  <2> HIDE DEF NotifyCode
  <2> QED
    BY <2>1, SpecialShapes
<1>2. CASE m # "failed"
  <2>1. NotifyCode[m] \in
          {<<"onError", "uiNotReady">>, <<"onAcquired">>, <<"onEnrollmentProgress">>,
           <<"onAuthenticationSucceeded", "zeroCount", "clearMode", "hbmOff",
             "goodixOff", "uiNotReady">>}
    BY <1>2 DEF Messages
  <2>2. /\ <<"onError", "uiNotReady">> \in Seq(Plain)
        /\ <<"onAcquired">> \in Seq(Plain)
        /\ <<"onEnrollmentProgress">> \in Seq(Plain)
    <3>1. {"onError", "uiNotReady", "onAcquired", "onEnrollmentProgress"} \subseteq Plain
      BY PlainCalls DEF Callbacks
    <3> QED
      BY <3>1
  <2>3. <<"onAuthenticationSucceeded", "zeroCount", "clearMode", "hbmOff",
          "goodixOff", "uiNotReady">> \in Seq(Plain)
    BY ShortSeqs, PlainCalls DEF LockoutCallbacks
  <2> QED
    BY <2>1, <2>2, <2>3, PlainShape
<1> QED
  BY <1>1, <1>2

\* The same of the error a failed device call reports.
LEMMA ErrorShape ==
    ASSUME NEW t
    PROVE  Shape(t, <<"onError">>) /\ Head(<<"onError">>) # "storeCount"
<1>1. "onError" \in Plain
  BY PlainCalls DEF Callbacks
<1>2. <<"onError">> \in Seq(Plain)
  BY <1>1
<1> QED
  BY <1>2, PlainShape

\* The same of a timer that wakes up.
LEMMA ExpiredShape ==
    ASSUME NEW t, NEW aborted \in BOOLEAN
    PROVE  /\ Shape(t, lockoutTimerExpired(aborted))
           /\ lockoutTimerExpired(aborted) # << >> =>
                Head(lockoutTimerExpired(aborted)) # "storeCount"
<1> DEFINE p == IF aborted THEN << >> ELSE <<"clearMode", "onLockoutCleared">>
<1>1. {"timerStopped", "unabortTimer", "clearMode", "onLockoutCleared"} \subseteq Plain
  BY PlainCalls DEF LockoutCallbacks
<1>2. /\ << >> \in Seq(Plain)
      /\ <<"clearMode", "onLockoutCleared">> \in Seq(Plain)
      /\ <<"timerStopped", "unabortTimer">> \in Seq(Plain)
  BY <1>1
<1>3. p \in Seq(Plain)
  BY <1>2, Zenon
<1> HIDE DEF p
<1>4. p \o <<"timerStopped", "unabortTimer">> \in Seq(Plain)
  BY <1>2, <1>3
<1>5. lockoutTimerExpired(aborted) \in Seq(Plain)
  BY <1>4 DEF lockoutTimerExpired, p
<1> QED
  BY <1>5, PlainShape

\* What getMode and startLockoutTimer put before the rest of a handler; in a
\* lockout getMode leads to the end of it or to a disarming call.
LEMMA NeutralCode ==
    ASSUME NEW r \in SessionFields
    PROVE  /\ getMode(r) \in Seq(Neutral)
           /\ startLockoutTimer \in Seq(Neutral)
           /\ r.mCurrentMode # "NONE" =>
                \E i \in 1..Len(getMode(r)) : getMode(r)[i] \in {"clearMode", "goodixOff"}
<1> USE DEF Neutral
<1>1. \/ r.mCurrentMode = "NONE" /\ getMode(r) = << >>
      \/ getMode(r) = <<"clearMode">>
      \/ getMode(r) = <<"hbmOff", "goodixOff", "getTimeLeft", "onLockoutTimed",
                        "testStarted">>
      \/ getMode(r) = <<"hbmOff", "goodixOff", "onLockoutPermanent", "abortTimer">>
  BY DEF SessionFields, Modes, getMode, checkSensorLockout
<1>2. startLockoutTimer \in Seq(Neutral)
  BY DEF startLockoutTimer
<1>3. getMode(r) \in Seq(Neutral)
  <2>1. /\ <<"clearMode">> \in Seq(Neutral)
        /\ <<"hbmOff", "goodixOff", "onLockoutPermanent", "abortTimer">> \in Seq(Neutral)
        /\ <<"hbmOff", "goodixOff", "getTimeLeft", "onLockoutTimed",
             "testStarted">> \in Seq(Neutral)
        /\ << >> \in Seq(Neutral)
    BY ShortSeqs
  <2> HIDE DEF Neutral
  <2> QED
    BY <1>1, <2>1, Zenon
<1>4. ASSUME r.mCurrentMode # "NONE"
      PROVE  \E i \in 1..Len(getMode(r)) : getMode(r)[i] \in {"clearMode", "goodixOff"}
  BY <1>1, <1>4
<1> QED
  BY <1>2, <1>3, <1>4
-----------------------------------------------------------------------------
(* The fields of a session.                                                *)

\* No store but the tracker's touches the lockout mode.
LEMMA StoredFields ==
    ASSUME NEW r \in SessionFields, NEW call \in Stores, NEW v
    PROVE  /\ Stored(call, r, v) \in SessionFields
           /\ Stored(call, r, v).mCurrentMode = r.mCurrentMode
  BY DEF SessionFields, Stored, Stores, LockoutCallbacks, Modes

\* Of the tracker's stores only the counter's may start a lockout.
LEMMA TrackerStoredFields ==
    ASSUME NEW r \in SessionFields, NEW call \in TrackerStores, NEW v \in Int,
           call = "storeCount" => v \in Nat, now \in Nat
    PROVE  /\ TrackerStored(call, r, v) \in SessionFields
           /\ call \in {"zeroCount", "stampStart"} =>
                TrackerStored(call, r, v).mCurrentMode = r.mCurrentMode
           /\ call = "clearMode" => TrackerStored(call, r, v).mCurrentMode = "NONE"
<1> USE DEF SessionFields, TrackerStored, Modes
<1>1. CASE call = "zeroCount"
  BY <1>1
<1>2. CASE call = "clearMode"
  BY <1>2
<1>3. CASE call = "storeCount"
  BY <1>3, LimitsAssumption
<1>4. CASE call = "stampStart"
  BY <1>4, LimitsAssumption
<1> QED
  BY <1>1, <1>2, <1>3, <1>4 DEF TrackerStores

-----------------------------------------------------------------------------
(* What a step of one thread leaves of the invariant.                      *)

HasDisarming(c) == \E i \in 1..Len(c) : c[i] \in Disarming

\* LockedOutDisarmed over sequences of calls.
LEMMA DisarmedDef ==
    LockedOutDisarmed <=>
        \A s \in Sessions :
            goodix = s /\ session[s].mCurrentMode # "NONE" =>
                \E t \in {"worker", "notify"} : self[t] = s /\ HasDisarming(code[t])
  BY DEF LockedOutDisarmed, HasDisarming, Has, Disarming

\* A call that disarms nothing leaves the disarming calls behind it.
LEMMA TailDisarming ==
    ASSUME NEW c \in Seq(Calls), c # << >>, Head(c) \notin Disarming, HasDisarming(c)
    PROVE  HasDisarming(Tail(c))
<1>1. PICK i \in 1..Len(c) : c[i] \in Disarming
  BY DEF HasDisarming
<1>2. i # 1
  BY <1>1
<1>3. i - 1 \in 1..Len(Tail(c)) /\ Tail(c)[i - 1] = c[i]
  BY <1>2
<1> QED
  BY <1>1, <1>3 DEF HasDisarming

\* The code of thread t becomes c: types, shapes and the loaded counter.
LEMMA ContinueTypes ==
    ASSUME IInv, NEW t \in Threads, NEW c, Shape(t, c), Continue(t, c), self' = self,
           code[t] # << >>
    PROVE  /\ code' \in [Threads -> Seq(Calls)]
           /\ (\A u \in Threads : ~Idle(u) => self[u] \in Sessions)'
           /\ Shapes'
           /\ code'[t] = c
           /\ \A u \in Threads \ {t} : code'[u] = code[u]
           /\ self[t] \in Sessions
<1> USE DEF IInv, TypeOK
<1>1. /\ code' \in [Threads -> Seq(Calls)]
      /\ code'[t] = c
      /\ \A u \in Threads \ {t} : code'[u] = code[u]
  BY DEF Continue, Shape
<1>2. self[t] \in Sessions
  BY DEF Idle
<1>3. (\A u \in Threads : ~Idle(u) => self[u] \in Sessions)'
  BY <1>1, <1>2 DEF Idle
<1>4. Shapes'
  BY <1>1 DEF Shapes
<1> QED
  BY <1>1, <1>2, <1>3, <1>4

\* The loaded counter likewise.
LEMMA ContinueCount ==
    ASSUME IInv, NEW t \in Threads, NEW c, Continue(t, c),
           c # << >> /\ Head(c) = "storeCount" => reg'[t] \in Nat,
           \A u \in Threads \ {t} : reg'[u] = reg[u]
    PROVE  CountLoaded'
<1>1. code'[t] = c /\ \A u \in Threads \ {t} : code'[u] = code[u]
  BY DEF Continue, IInv, TypeOK
<1> QED
  BY <1>1 DEF IInv, CountLoaded, At

\* A step of thread t, whose code becomes c, keeps a locked-out session
\* disarmed unless it newly arms it or spends its last disarming call.
LEMMA StillDisarmed ==
    ASSUME LockedOutDisarmed, NEW t \in Threads, NEW c, code'[t] = c,
           \A u \in Threads : u \in {"worker", "notify"} /\ u # t => code'[u] = code[u],
           \A u \in {"worker", "notify"} : self'[u] = self[u],
           \A s \in Sessions :
             goodix' = s /\ session'[s].mCurrentMode # "NONE" =>
               \/ /\ goodix = s /\ session[s].mCurrentMode # "NONE"
                  /\ self[t] = s /\ HasDisarming(code[t]) => HasDisarming(c)
               \/ t \in {"worker", "notify"} /\ self[t] = s /\ HasDisarming(c)
    PROVE  LockedOutDisarmed'
<1> SUFFICES ASSUME NEW s \in Sessions, goodix' = s, session'[s].mCurrentMode # "NONE"
             PROVE  \E u \in {"worker", "notify"} : self'[u] = s /\ HasDisarming(code'[u])
  BY DEF LockedOutDisarmed, HasDisarming, Has, Disarming
<1>1. CASE t \in {"worker", "notify"} /\ self[t] = s /\ HasDisarming(c)
  BY <1>1
<1>2. CASE /\ goodix = s /\ session[s].mCurrentMode # "NONE"
           /\ self[t] = s /\ HasDisarming(code[t]) => HasDisarming(c)
  <2>1. PICK u \in {"worker", "notify"} : self[u] = s /\ HasDisarming(code[u])
    BY <1>2, DisarmedDef
  <2>2. u \in Threads
    BY DEF Threads
  <2> QED
    BY <1>2, <2>1, <2>2
<1> QED
  BY <1>1, <1>2
\* Thread t goes on to its next call.
LEMMA AdvanceTypes ==
    ASSUME IInv, NEW t \in Threads, NEW call, At(t, call), Advance(t), self' = self
    PROVE  /\ code' \in [Threads -> Seq(Calls)]
           /\ (\A u \in Threads : ~Idle(u) => self[u] \in Sessions)'
           /\ Shapes'
           /\ code'[t] = Tail(code[t])
           /\ \A u \in Threads \ {t} : code'[u] = code[u]
           /\ self[t] \in Sessions
           /\ call # "loadCount" /\ reg' = reg => CountLoaded'
<1>1. Shape(t, code[t]) /\ code[t] # << >> /\ Head(code[t]) = call
  BY DEF IInv, Shapes, At
<1>2. /\ Shape(t, Tail(code[t]))
      /\ Tail(code[t]) # << >> /\ Head(Tail(code[t])) = "storeCount" => call = "loadCount"
  BY <1>1, TailShape
<1>3. Continue(t, Tail(code[t]))
  BY DEF Advance
<1>4. call # "loadCount" /\ reg' = reg => CountLoaded'
  BY <1>2, <1>3, ContinueCount
<1> QED
  BY <1>1, <1>2, <1>3, <1>4, ContinueTypes

\* It may do so unless it newly arms a session or spends a disarming call in
\* vain.
LEMMA AdvanceDisarmed ==
    ASSUME IInv, NEW t \in Threads, NEW call, At(t, call), Advance(t), self' = self,
           goodix' = goodix, call \notin Disarming,
           \A s \in Sessions : session'[s].mCurrentMode = session[s].mCurrentMode
    PROVE  LockedOutDisarmed'
<1>1. code[t] \in Seq(Calls) /\ code[t] # << >> /\ Head(code[t]) = call
  BY DEF IInv, TypeOK, At
<1>2. HasDisarming(code[t]) => HasDisarming(Tail(code[t]))
  BY <1>1, TailDisarming
<1>3. /\ code'[t] = Tail(code[t])
      /\ \A u \in Threads \ {t} : code'[u] = code[u]
  BY AdvanceTypes
<1>4. LockedOutDisarmed
  BY DEF IInv
<1>5. \A u \in Threads : u \in {"worker", "notify"} /\ u # t => code'[u] = code[u]
  BY <1>3
<1> QED
  BY <1>2, <1>3, <1>4, <1>5, StillDisarmed

-----------------------------------------------------------------------------
(* The inductive step, action by action.                                   *)

\* A scheduled task fits the queue or is discarded.
LEMMA ScheduleIInv ==
    ASSUME IInv, NEW t \in Threads, Schedule(t)
    PROVE  IInv'
<1>1. PICK task \in Tasks :
        /\ At(t, task)
        /\ \/ /\ ~Full
              /\ queue' = Append(queue, [task |-> task, s |-> self[t]])
              /\ UNCHANGED dropped
           \/ /\ Full
              /\ dropped' = dropped \cup (IF task = "close" THEN {self[t]} ELSE {})
              /\ UNCHANGED queue
  BY DEF Schedule
<1>2. /\ Advance(t)
      /\ UNCHANGED <<cur, session, self, reg, hbm, goodix, dev, inputs>>
  BY DEF Schedule
<1>3. task # "loadCount" /\ task \notin Disarming
  BY DEF Tasks, Disarming
<1>4. /\ code' \in [Threads -> Seq(Calls)]
      /\ (\A u \in Threads : ~Idle(u) => self[u] \in Sessions)'
      /\ Shapes'
      /\ self[t] \in Sessions
      /\ CountLoaded'
  BY <1>1, <1>2, <1>3, AdvanceTypes
<1>5. /\ queue' \in Seq([task : Tasks, s : Sessions])
      /\ Len(queue') <= WORKER_QUEUE_SIZE
      /\ dropped' \subseteq Sessions
  <2>1. /\ queue \in Seq([task : Tasks, s : Sessions])
        /\ Len(queue) <= WORKER_QUEUE_SIZE
        /\ dropped \subseteq Sessions
        /\ [task |-> task, s |-> self[t]] \in [task : Tasks, s : Sessions]
    BY <1>4 DEF IInv, TypeOK
  <2>2. CASE Full
    BY <1>1, <1>4, <2>1, <2>2
  <2>3. CASE ~Full
    <3>1. queue' = Append(queue, [task |-> task, s |-> self[t]]) /\ dropped' = dropped
      BY <1>1, <2>3
    <3>2. Len(queue) < WORKER_QUEUE_SIZE
      BY <2>1, <2>3, LimitsAssumption DEF Full
    <3> QED
      BY <2>1, <3>1, <3>2, LimitsAssumption
  <2> QED
    BY <2>2, <2>3
<1>6. TypeOK'
  BY <1>2, <1>4, <1>5, Zenon DEF IInv, TypeOK, inputs
<1>7. LockedOutDisarmed'
  BY <1>1, <1>2, <1>3, AdvanceDisarmed
<1> QED
  BY <1>4, <1>6, <1>7 DEF IInv

\* The steps that only go on: a wait, a callback, a vendor query, a sleep.
LEMMA AdvanceIInv ==
    ASSUME IInv, NEW t \in Threads, NEW call, At(t, call), Advance(t),
           call # "loadCount", call \notin Disarming,
           UNCHANGED <<cur, session, queue, self, reg, hbm, goodix, dev, inputs, dropped>>
    PROVE  IInv'
<1>1. /\ code' \in [Threads -> Seq(Calls)]
      /\ (\A u \in Threads : ~Idle(u) => self[u] \in Sessions)'
      /\ Shapes'
      /\ CountLoaded'
  BY AdvanceTypes
<1>2. TypeOK'
  BY <1>1, Zenon DEF IInv, TypeOK, inputs
<1>3. LockedOutDisarmed'
  BY AdvanceDisarmed
<1> QED
  BY <1>1, <1>2, <1>3 DEF IInv

\* Each of those steps.
LEMMA PlainStepsIInv ==
    ASSUME IInv, NEW t \in Threads, WaitUiReady(t) \/ PlainCall(t) \/ Sleep(t)
    PROVE  IInv'
<1>1. PICK call \in Callbacks \cup DeviceQueries \cup {"waitUiReady", "sleep"} :
        At(t, call)
  BY DEF WaitUiReady, PlainCall, Sleep
<1>2. call # "loadCount" /\ call \notin Disarming
  BY DEF Callbacks, DeviceQueries, Disarming
<1>3. /\ Advance(t)
      /\ UNCHANGED <<cur, session, queue, self, reg, hbm, goodix, dev, inputs, dropped>>
  BY DEF WaitUiReady, PlainCall, Sleep
<1> QED
  BY <1>1, <1>2, <1>3, AdvanceIInv

\* goodixExtCmd(1) is safe because its task checks the lockout next, and
\* goodixExtCmd(0) disarms whatever it was.
LEMMA LightIInv ==
    ASSUME IInv, NEW t \in Threads, Light(t)
    PROVE  IInv'
<1>1. PICK call \in {"hbmOn", "hbmOff", "goodixOn", "goodixOff"} :
        /\ At(t, call)
        /\ hbm' = (IF call = "hbmOn" THEN TRUE ELSE IF call = "hbmOff" THEN FALSE ELSE hbm)
        /\ goodix' = IF call = "goodixOn" THEN self[t]
                     ELSE IF call = "goodixOff" THEN 0 ELSE goodix
  BY Zenon DEF Light
<1>2. Advance(t) /\ UNCHANGED <<cur, session, queue, self, reg, dev, inputs, dropped>>
  BY DEF Light
<1>3. /\ code' \in [Threads -> Seq(Calls)]
      /\ (\A u \in Threads : ~Idle(u) => self[u] \in Sessions)'
      /\ Shapes'
      /\ CountLoaded'
      /\ self[t] \in Sessions
      /\ code'[t] = Tail(code[t])
      /\ \A u \in Threads \ {t} : code'[u] = code[u]
  BY <1>1, <1>2, AdvanceTypes
<1>4. TypeOK'
  <2>1. hbm' \in BOOLEAN
    BY <1>1, Zenon DEF IInv, TypeOK
  <2>2. goodix' \in 0..MaxSessions
    BY <1>1, <1>3, BoundsAssumption DEF IInv, TypeOK, Sessions
  <2> QED
    BY <1>2, <1>3, <2>1, <2>2, Zenon DEF IInv, TypeOK, inputs
<1>5. LockedOutDisarmed'
  <2>1. CASE call \in {"hbmOn", "hbmOff"}
    BY <1>1, <1>2, <2>1, AdvanceDisarmed DEF Disarming
  <2>2. CASE call = "goodixOff"
    BY <1>1, <2>2, BoundsAssumption DEF LockedOutDisarmed, Sessions
  <2>3. CASE call = "goodixOn"
    <3>1. Shape(t, code[t]) /\ code[t] # << >> /\ code[t][1] = "goodixOn"
      BY <1>1, <2>3 DEF IInv, Shapes, Shape, At
    <3>2. t \in {"worker", "notify"}
      BY <3>1 DEF Shape, Belongs, Arming
    <3>3. PICK j \in 1..Len(code[t]) : 1 < j /\ code[t][j] = "getMode"
      BY <3>1 DEF Shape, CheckFollows, Arming
    <3>4. j - 1 \in 1..Len(Tail(code[t])) /\ Tail(code[t])[j - 1] = "getMode"
      BY <3>1, <3>3 DEF Shape
    <3>5. HasDisarming(Tail(code[t]))
      BY <3>4 DEF HasDisarming, Disarming
    <3>6. \A s \in Sessions : goodix' = s => self[t] = s
      BY <1>1, <2>3
    <3>7. \A u \in Threads : u \in {"worker", "notify"} /\ u # t => code'[u] = code[u]
      BY <1>3
    <3>8. LockedOutDisarmed
      BY DEF IInv
    <3> QED
      BY <1>2, <1>3, <3>2, <3>5, <3>6, <3>7, <3>8, StillDisarmed
  <2> QED
    BY <2>1, <2>2, <2>3
<1> QED
  BY <1>3, <1>4, <1>5 DEF IInv
\* What a replacing call replaces disarms nothing.
LEMMA ReplacedDisarmsNothing ==
    ASSUME NEW t, NEW c, Shape(t, c), c # << >>, Head(c) \in Replacing
    PROVE  ~HasDisarming(c)
<1> SUFFICES ASSUME NEW j \in 1..Len(c), c[j] \in Disarming PROVE FALSE
  BY DEF HasDisarming
<1>1. c \in Seq(Calls) /\ c[1] \in Replacing
  BY DEF Shape
<1>2. \A call \in Replacing : call \notin Disarming
  BY DEF Replacing, Messages, Disarming
<1>3. 1 \in 1..Len(c) /\ j # 1
  BY <1>1, <1>2
<1> QED
  BY <1>1, <1>3 DEF Shape, ReplacedLast

\* A device error ends the task, which had no disarming call left.
LEMMA DeviceCallIInv ==
    ASSUME IInv, NEW t \in Threads, DeviceCall(t)
    PROVE  IInv'
<1>1. PICK call \in Replacing :
        /\ At(t, call)
        /\ Advance(t) \/ Continue(t, <<"onError">>)
  BY DEF DeviceCall, Replacing
<1>2. /\ UNCHANGED <<cur, session, queue, self, reg, hbm, goodix, inputs, dropped>>
      /\ dev' \in {"idle", "devEnroll", "devAuthenticate", "canceled"}
  BY DEF DeviceCall, IInv, TypeOK
<1>3. call # "loadCount" /\ call \notin Disarming
  BY DEF Replacing, Messages, Disarming
<1>4. CASE Advance(t)
  <2>1. /\ code' \in [Threads -> Seq(Calls)]
        /\ (\A u \in Threads : ~Idle(u) => self[u] \in Sessions)'
        /\ Shapes'
        /\ CountLoaded'
    BY <1>1, <1>2, <1>3, <1>4, AdvanceTypes
  <2>2. LockedOutDisarmed'
    BY <1>1, <1>2, <1>3, <1>4, AdvanceDisarmed
  <2>3. TypeOK'
    BY <1>2, <2>1, Zenon DEF IInv, TypeOK, inputs
  <2> QED
    BY <2>1, <2>2, <2>3 DEF IInv
<1>5. CASE Continue(t, <<"onError">>)
  <2> DEFINE c == <<"onError">>
  <2>1. Shape(t, c) /\ Head(c) # "storeCount"
    BY ErrorShape
  <2>2. Shape(t, code[t]) /\ code[t] # << >> /\ Head(code[t]) = call
    BY <1>1 DEF IInv, Shapes, At
  <2> HIDE DEF c
  <2>3. /\ code' \in [Threads -> Seq(Calls)]
        /\ (\A u \in Threads : ~Idle(u) => self[u] \in Sessions)'
        /\ Shapes'
        /\ code'[t] = c
        /\ \A u \in Threads \ {t} : code'[u] = code[u]
    BY <1>2, <1>5, <2>1, <2>2, ContinueTypes DEF c
  <2>4. CountLoaded'
    BY <1>2, <1>5, <2>1, ContinueCount DEF c
  <2>5. ~HasDisarming(code[t])
    BY <2>2, ReplacedDisarmsNothing
  <2>6. LockedOutDisarmed /\ \A u \in {"worker", "notify"} : self'[u] = self[u]
    BY <1>2 DEF IInv
  <2>7. \A u \in Threads : u \in {"worker", "notify"} /\ u # t => code'[u] = code[u]
    BY <2>3
  <2>8. LockedOutDisarmed'
    BY <1>2, <2>3, <2>5, <2>6, <2>7, StillDisarmed
  <2>9. TypeOK'
    BY <1>2, <2>3, Zenon DEF IInv, TypeOK, inputs
  <2> QED
    BY <2>3, <2>4, <2>8, <2>9 DEF IInv
<1> QED
  BY <1>1, <1>4, <1>5

\* Of the stores, the counter's may lock the session out, but its handler
\* checks the lockout next; the clearing of the mode ends the lockout.
LEMMA StoreIInv ==
    ASSUME IInv, NEW t \in Threads, Store(t)
    PROVE  IInv'
<1> DEFINE x == self[t]
           r == session[x]
<1>1. Advance(t) /\ UNCHANGED <<cur, queue, self, reg, hbm, goodix, dev, inputs, dropped>>
  BY DEF Store
<1>2. PICK call \in Stores \cup TrackerStores :
        /\ At(t, call)
        /\ session' = [session EXCEPT ![x] =
               IF call \in Stores THEN Stored(call, r, reg[t])
               ELSE TrackerStored(call, r, reg[t])]
  <2>1. \A call \in TrackerStores : call \notin Stores
    BY DEF Stores, TrackerStores, LockoutCallbacks
  <2> QED
    BY <2>1, Zenon DEF Store
<1>3. call # "loadCount"
  BY DEF Stores, TrackerStores, LockoutCallbacks
<1>4. /\ code' \in [Threads -> Seq(Calls)]
      /\ (\A u \in Threads : ~Idle(u) => self[u] \in Sessions)'
      /\ Shapes'
      /\ CountLoaded'
      /\ x \in Sessions
      /\ code'[t] = Tail(code[t])
      /\ \A u \in Threads \ {t} : code'[u] = code[u]
  BY <1>1, <1>2, <1>3, AdvanceTypes
<1>5. /\ r \in SessionFields
      /\ reg[t] \in Int
      /\ call = "storeCount" => reg[t] \in Nat
      /\ now \in Nat
  BY <1>2, <1>4 DEF IInv, TypeOK, CountLoaded
<1> DEFINE n == IF call \in Stores THEN Stored(call, r, reg[t])
                ELSE TrackerStored(call, r, reg[t])
<1>6. /\ n \in SessionFields
      /\ call \notin {"storeCount", "clearMode"} => n.mCurrentMode = r.mCurrentMode
      /\ call = "clearMode" => n.mCurrentMode = "NONE"
  <2>1. CASE call \in Stores
    <3>1. n = Stored(call, r, reg[t])
      BY <2>1
    <3>2. call # "clearMode"
      BY <2>1 DEF Stores, LockoutCallbacks
    <3> HIDE DEF n
    <3> QED
      BY <1>5, <2>1, <3>1, <3>2, StoredFields
  <2>2. CASE call \notin Stores
    <3>1. n = TrackerStored(call, r, reg[t]) /\ call \in TrackerStores
      BY <2>2
    <3>2. call \in {"zeroCount", "clearMode", "storeCount", "stampStart"}
      BY <3>1 DEF TrackerStores
    <3> HIDE DEF n
    <3> QED
      BY <1>5, <3>1, <3>2, TrackerStoredFields
  <2> QED
    BY <2>1, <2>2
<1> HIDE DEF n
<1>7. /\ session' \in [Sessions -> SessionFields]
      /\ session'[x] = n
      /\ \A s \in Sessions \ {x} : session'[s] = session[s]
  BY <1>2, <1>4, <1>6 DEF IInv, TypeOK, n
<1>8. TypeOK'
  BY <1>1, <1>4, <1>7, Zenon DEF IInv, TypeOK, inputs
<1>9. LockedOutDisarmed'
  <2>1. CASE call \notin {"storeCount", "clearMode"}
    <3>1. call \notin Disarming
      BY <2>1 DEF Disarming, Stores, TrackerStores, LockoutCallbacks
    <3>2. \A s \in Sessions : session'[s].mCurrentMode = session[s].mCurrentMode
      BY <1>6, <1>7, <2>1
    <3> QED
      BY <1>1, <1>2, <3>1, <3>2, AdvanceDisarmed
  <2>2. CASE call \in {"storeCount", "clearMode"}
    <3>1. Shape(t, code[t]) /\ code[t] # << >> /\ code[t][1] = call
      BY <1>2 DEF IInv, Shapes, Shape, At
    <3>2. ASSUME call = "storeCount"
          PROVE  t \in {"worker", "notify"} /\ HasDisarming(Tail(code[t]))
      <4>1. t \in {"worker", "notify"}
        BY <3>1, <3>2 DEF Shape, Belongs, Arming
      <4>2. PICK j \in 1..Len(code[t]) : 1 < j /\ code[t][j] = "getMode"
        BY <3>1, <3>2 DEF Shape, CheckFollows, Arming
      <4>3. j - 1 \in 1..Len(Tail(code[t])) /\ Tail(code[t])[j - 1] = "getMode"
        BY <3>1, <4>2 DEF Shape
      <4> QED
        BY <4>1, <4>3 DEF HasDisarming, Disarming
    <3>3. ASSUME NEW s \in Sessions, goodix' = s, session'[s].mCurrentMode # "NONE"
          PROVE  \/ /\ goodix = s /\ session[s].mCurrentMode # "NONE"
                    /\ self[t] = s /\ HasDisarming(code[t]) => HasDisarming(Tail(code[t]))
                 \/ /\ t \in {"worker", "notify"} /\ self[t] = s
                    /\ HasDisarming(Tail(code[t]))
      <4>1. CASE s = x
        BY <1>6, <1>7, <2>2, <3>2, <3>3, <4>1
      <4>2. CASE s # x
        BY <1>1, <1>7, <3>3, <4>2
      <4> QED
        BY <4>1, <4>2
    <3>4. \A u \in Threads : u \in {"worker", "notify"} /\ u # t => code'[u] = code[u]
      BY <1>4
    <3>5. LockedOutDisarmed /\ \A u \in {"worker", "notify"} : self'[u] = self[u]
      BY <1>1 DEF IInv
    <3> QED
      BY <1>4, <3>3, <3>4, <3>5, StillDisarmed
  <2> QED
    BY <2>1, <2>2
<1> QED
  BY <1>4, <1>8, <1>9 DEF IInv
\* A counter is loaded before it is stored.
LEMMA LoadIInv ==
    ASSUME IInv, NEW t \in Threads, Load(t)
    PROVE  IInv'
<1>1. PICK call \in {"loadCount", "getTimeLeft"} :
        /\ At(t, call)
        /\ reg' = [reg EXCEPT ![t] =
               IF call = "loadCount" THEN LoadedCount(session[self[t]])
               ELSE getLockoutTimeLeft(session[self[t]])]
  BY DEF Load
<1>2. /\ Advance(t)
      /\ UNCHANGED <<cur, session, queue, self, hbm, goodix, dev, inputs, dropped>>
  BY DEF Load
<1>3. /\ code' \in [Threads -> Seq(Calls)]
      /\ (\A u \in Threads : ~Idle(u) => self[u] \in Sessions)'
      /\ Shapes'
      /\ self[t] \in Sessions
  BY <1>1, <1>2, AdvanceTypes
<1>4. session[self[t]] \in SessionFields /\ now \in Nat /\ reg \in [Threads -> Int]
  BY <1>3 DEF IInv, TypeOK
<1>5. /\ LoadedCount(session[self[t]]) \in Nat
      /\ getLockoutTimeLeft(session[self[t]]) \in Int
  BY <1>4, LimitsAssumption DEF SessionFields, LoadedCount, getLockoutTimeLeft
<1>6. /\ reg' \in [Threads -> Int]
      /\ call = "loadCount" => reg'[t] \in Nat
      /\ \A u \in Threads \ {t} : reg'[u] = reg[u]
  BY <1>1, <1>4, <1>5
<1>7. TypeOK'
  BY <1>2, <1>3, <1>6, Zenon DEF IInv, TypeOK, inputs
<1>8. CountLoaded'
  <2>1. Shape(t, code[t]) /\ code[t] # << >> /\ Head(code[t]) = call
    BY <1>1 DEF IInv, Shapes, At
  <2>2. Tail(code[t]) # << >> /\ Head(Tail(code[t])) = "storeCount" => call = "loadCount"
    BY <2>1, TailShape
  <2> QED
    BY <1>2, <1>6, <2>2, ContinueCount DEF Advance
<1>9. LockedOutDisarmed'
  BY <1>1, <1>2, AdvanceDisarmed DEF Disarming
<1> QED
  BY <1>3, <1>7, <1>8, <1>9 DEF IInv

\* A test keeps the rest of its handler; in a lockout getMode becomes a call
\* that ends the lockout or disarms the sensor.
LEMMA TestIInv ==
    ASSUME IInv, NEW t \in Threads, Test(t)
    PROVE  IInv'
<1> DEFINE r == session[self[t]]
<1>1. UNCHANGED <<cur, session, queue, self, reg, hbm, goodix, dev, inputs, dropped>>
  BY DEF Test
<1>2. \/ At(t, "testStarted") /\ Advance(t)
      \/ At(t, "getMode") /\ Continue(t, getMode(r) \o Tail(code[t]))
      \/ At(t, "testStarted") /\ Continue(t, startLockoutTimer \o Tail(code[t]))
      \/ At(t, "testAborted") /\ Continue(t, lockoutTimerExpired(r.mIsLockoutTimerAborted))
  BY DEF Test
<1>3. CASE At(t, "testStarted") /\ Advance(t)
  BY <1>1, <1>3, AdvanceIInv DEF Disarming
<1>4. ASSUME NEW c, Shape(t, c), Continue(t, c), code[t] # << >>,
             c # << >> => Head(c) # "storeCount",
             goodix \in Sessions /\ session[goodix].mCurrentMode # "NONE"
                 /\ goodix = self[t] /\ t \in {"worker", "notify"}
                 /\ HasDisarming(code[t]) => HasDisarming(c)
      PROVE  IInv'
  <2>1. /\ code' \in [Threads -> Seq(Calls)]
        /\ (\A u \in Threads : ~Idle(u) => self[u] \in Sessions)'
        /\ Shapes'
        /\ code'[t] = c
        /\ \A u \in Threads \ {t} : code'[u] = code[u]
    BY <1>1, <1>4, ContinueTypes
  <2>2. CountLoaded'
    BY <1>1, <1>4, ContinueCount
  <2>3. TypeOK'
    BY <1>1, <2>1, Zenon DEF IInv, TypeOK, inputs
  <2>4. LockedOutDisarmed'
    <3> SUFFICES ASSUME NEW s \in Sessions, goodix = s, session[s].mCurrentMode # "NONE"
                 PROVE  \E u \in {"worker", "notify"} :
                            self[u] = s /\ HasDisarming(code'[u])
      BY <1>1 DEF LockedOutDisarmed, HasDisarming, Has, Disarming
    <3>1. PICK u \in {"worker", "notify"} : self[u] = s /\ HasDisarming(code[u])
      BY DisarmedDef DEF IInv
    <3>2. u \in Threads
      BY DEF Threads
    <3> QED
      BY <1>4, <2>1, <3>1, <3>2
  <2> QED
    BY <2>1, <2>2, <2>3, <2>4 DEF IInv
<1>5. ASSUME NEW call, At(t, call)
      PROVE  /\ Shape(t, code[t]) /\ code[t] # << >> /\ Head(code[t]) = call
             /\ self[t] \in Sessions
             /\ r \in SessionFields
  <2>1. Shape(t, code[t]) /\ code[t] # << >> /\ Head(code[t]) = call
    BY <1>5 DEF IInv, Shapes, At
  <2>2. self[t] \in Sessions
    BY <2>1 DEF IInv, TypeOK, Idle
  <2> QED
    BY <2>1, <2>2 DEF IInv, TypeOK
<1>6. CASE At(t, "getMode") /\ Continue(t, getMode(r) \o Tail(code[t]))
  <2> DEFINE p == getMode(r)
             q == Tail(code[t])
             c == p \o q
  <2>1. /\ p \in Seq(Neutral)
        /\ r.mCurrentMode # "NONE" =>
             \E i \in 1..Len(p) : p[i] \in {"clearMode", "goodixOff"}
    BY <1>5, <1>6, NeutralCode
  <2> HIDE DEF p
  <2>2. Shape(t, c) /\ (c # << >> => Head(c) # "storeCount")
    BY <1>5, <1>6, <2>1, PrefixShape
  <2>3. q \in Seq(Calls)
    BY <1>5, <1>6 DEF Shape
  <2> HIDE DEF q
  <2>4. ASSUME r.mCurrentMode # "NONE" PROVE HasDisarming(c)
    <3>1. PICK i \in 1..Len(p) : p[i] \in {"clearMode", "goodixOff"}
      BY <2>1, <2>4
    <3>2. i \in 1..Len(c) /\ c[i] = p[i]
      BY <2>1, <2>3
    <3> QED
      BY <3>1, <3>2 DEF HasDisarming, Disarming
  <2>5. Continue(t, c) /\ code[t] # << >>
    BY <1>5, <1>6 DEF p, q
  <2> HIDE DEF c
  <2> QED
    BY <1>4, <2>2, <2>4, <2>5
<1>7. CASE At(t, "testStarted") /\ Continue(t, startLockoutTimer \o Tail(code[t]))
  <2> DEFINE p == startLockoutTimer
             q == Tail(code[t])
             c == p \o q
  <2>1. p \in Seq(Neutral)
    BY <1>5, <1>7, NeutralCode
  <2>2. Shape(t, c) /\ (c # << >> => Head(c) # "storeCount")
    BY <1>5, <1>7, <2>1, PrefixShape
  <2>3. q \in Seq(Calls) /\ (HasDisarming(code[t]) => HasDisarming(q))
    BY <1>5, <1>7, TailDisarming DEF Shape, Disarming
  <2>4. Continue(t, c) /\ code[t] # << >>
    BY <1>5, <1>7
  <2> HIDE DEF p, q
  <2>5. ASSUME HasDisarming(q) PROVE HasDisarming(c)
    <3>1. PICK i \in 1..Len(q) : q[i] \in Disarming
      BY <2>5 DEF HasDisarming
    <3>2. Len(p) + i \in 1..Len(c) /\ c[Len(p) + i] = q[i]
      BY <2>1, <2>3
    <3> QED
      BY <3>1, <3>2 DEF HasDisarming
  <2> HIDE DEF c
  <2> QED
    BY <1>4, <2>2, <2>3, <2>4, <2>5
<1>8. CASE At(t, "testAborted") /\ Continue(t, lockoutTimerExpired(r.mIsLockoutTimerAborted))
  <2>1. r.mIsLockoutTimerAborted \in BOOLEAN
    BY <1>5, <1>8 DEF SessionFields
  <2>2. t \notin {"worker", "notify"}
    <3>1. code[t] \in Seq(Calls) /\ code[t][1] = "testAborted" /\ code[t] # << >>
      BY <1>5, <1>8 DEF Shape
    <3>2. 1 \in 1..Len(code[t])
      BY <3>1
    <3> QED
      BY <1>5, <1>8, <3>1, <3>2 DEF Shape, Belongs
  <2> QED
    BY <1>4, <1>5, <1>8, <2>1, <2>2, ExpiredShape
<1> QED
  BY <1>2, <1>3, <1>6, <1>7, <1>8
\* A new timer thread neither arms nor disarms.
LEMMA SpawnTimerIInv ==
    ASSUME IInv, NEW t \in Threads, SpawnTimer(t)
    PROVE  IInv'
<1>1. PICK x \in Timers :
        /\ Idle(x)
        /\ code' = [code EXCEPT ![t] = Tail(@), ![x] = <<"sleep", "testAborted">>]
        /\ self' = [self EXCEPT ![x] = self[t]]
        /\ reg' = [reg EXCEPT ![x] = now + reg[t]]
  BY DEF SpawnTimer
<1>2. /\ At(t, "spawnTimer")
      /\ UNCHANGED <<cur, session, queue, hbm, goodix, dev, inputs, dropped>>
  BY DEF SpawnTimer
<1>3. Shape(t, code[t]) /\ code[t] # << >> /\ Head(code[t]) = "spawnTimer"
  BY <1>2 DEF IInv, Shapes, At
<1>4. x # t /\ x \in Threads /\ x \notin {"worker", "notify"}
  BY <1>1, <1>3, TimersAssumption DEF Idle, Threads
<1>5. /\ Shape(t, Tail(code[t]))
      /\ Tail(code[t]) # << >> => Head(Tail(code[t])) # "storeCount"
      /\ HasDisarming(code[t]) => HasDisarming(Tail(code[t]))
  BY <1>3, TailShape, TailDisarming DEF Shape, Disarming
<1> DEFINE d == <<"sleep", "testAborted">>
<1>6. Shape(x, d) /\ Head(d) # "storeCount"
  BY <1>4, SpecialShapes
<1>7. /\ code \in [Threads -> Seq(Calls)]
      /\ self \in [Threads -> 0..MaxSessions]
      /\ reg \in [Threads -> Int]
      /\ now \in Nat
      /\ self[t] \in Sessions
  BY <1>3 DEF IInv, TypeOK, Idle
<1> HIDE DEF d
<1>8. /\ code' \in [Threads -> Seq(Calls)]
      /\ code'[t] = Tail(code[t])
      /\ code'[x] = d
      /\ \A u \in Threads \ {t, x} : code'[u] = code[u]
  BY <1>1, <1>4, <1>5, <1>6, <1>7 DEF Shape, d
<1>9. /\ self' \in [Threads -> 0..MaxSessions]
      /\ self'[x] \in Sessions
      /\ \A u \in Threads \ {x} : self'[u] = self[u]
      /\ reg' \in [Threads -> Int]
      /\ \A u \in Threads \ {x} : reg'[u] = reg[u]
  BY <1>1, <1>4, <1>7
<1>10. (\A u \in Threads : ~Idle(u) => self[u] \in Sessions)'
  BY <1>7, <1>8, <1>9 DEF IInv, TypeOK, Idle
<1>11. TypeOK'
  BY <1>2, <1>8, <1>9, <1>10, Zenon DEF IInv, TypeOK, inputs
<1>12. Shapes'
  BY <1>5, <1>6, <1>8 DEF IInv, Shapes
<1>13. CountLoaded'
  BY <1>5, <1>6, <1>8, <1>9 DEF IInv, CountLoaded, At
<1>14. LockedOutDisarmed'
  <2>1. \A u \in Threads : u \in {"worker", "notify"} /\ u # t => code'[u] = code[u]
    BY <1>4, <1>8
  <2>2. \A u \in {"worker", "notify"} : self'[u] = self[u]
    BY <1>4, <1>9 DEF Threads
  <2>3. LockedOutDisarmed
    BY DEF IInv
  <2> QED
    BY <1>2, <1>5, <1>8, <2>1, <2>2, <2>3, StillDisarmed
<1> QED
  BY <1>11, <1>12, <1>13, <1>14 DEF IInv

\* A thread u with no disarming call to make starts a handler c for session s.
LEMMA HandlerStarts ==
    ASSUME IInv, NEW u \in {"binder", "worker", "notify"}, ~HasDisarming(code[u]),
           NEW s \in Sessions, NEW c, Shape(u, c), c # << >> => Head(c) # "storeCount",
           Continue(u, c), self' = [self EXCEPT ![u] = s],
           UNCHANGED <<session, reg, goodix>>
    PROVE  /\ code' \in [Threads -> Seq(Calls)]
           /\ self' \in [Threads -> 0..MaxSessions]
           /\ (\A t \in Threads : ~Idle(t) => self[t] \in Sessions)'
           /\ Shapes'
           /\ CountLoaded'
           /\ LockedOutDisarmed'
<1>1. u \in Threads
  BY DEF Threads
<1>2. /\ code' \in [Threads -> Seq(Calls)]
      /\ code'[u] = c
      /\ \A t \in Threads \ {u} : code'[t] = code[t]
  BY <1>1 DEF IInv, TypeOK, Continue, Shape
<1>3. /\ self' \in [Threads -> 0..MaxSessions]
      /\ self'[u] = s
      /\ \A t \in Threads \ {u} : self'[t] = self[t]
  BY <1>1, BoundsAssumption DEF IInv, TypeOK, Sessions
<1>4. (\A t \in Threads : ~Idle(t) => self[t] \in Sessions)'
  BY <1>2, <1>3 DEF IInv, TypeOK, Idle
<1>5. Shapes'
  BY <1>2 DEF IInv, Shapes
<1>6. CountLoaded'
  BY <1>2 DEF IInv, CountLoaded, At
<1>7. LockedOutDisarmed'
  <2> SUFFICES ASSUME NEW x \in Sessions, goodix = x, session[x].mCurrentMode # "NONE"
               PROVE  \E t \in {"worker", "notify"} :
                          self'[t] = x /\ HasDisarming(code'[t])
    BY DEF LockedOutDisarmed, HasDisarming, Has, Disarming
  <2>1. PICK t \in {"worker", "notify"} : self[t] = x /\ HasDisarming(code[t])
    BY DisarmedDef DEF IInv
  <2>2. t \in Threads /\ t # u
    BY <2>1 DEF Threads
  <2> QED
    BY <1>2, <1>3, <2>1, <2>2
<1> QED
  BY <1>2, <1>3, <1>4, <1>5, <1>6, <1>7

\* An idle thread is one.
LEMMA IdleDisarmsNothing ==
    ASSUME NEW u, Idle(u)
    PROVE  ~HasDisarming(code[u])
  BY DEF Idle, HasDisarming

\* The oldest element of a queue has the type of its elements.
LEMMA HeadOfSeq ==
    ASSUME NEW S, NEW q \in Seq(S), q # << >>
    PROVE  Head(q) \in S
  OBVIOUS

\* A call of the framework starts on the binder thread.
LEMMA FrameworkCallIInv ==
    ASSUME IInv, NEW op \in Ops, NEW s \in Sessions, FrameworkCall(op, s)
    PROVE  IInv'
<1>1. /\ code' \in [Threads -> Seq(Calls)]
      /\ self' \in [Threads -> 0..MaxSessions]
      /\ (\A t \in Threads : ~Idle(t) => self[t] \in Sessions)'
      /\ Shapes'
      /\ CountLoaded'
      /\ LockedOutDisarmed'
  BY BinderShape, IdleDisarmsNothing, HandlerStarts DEF FrameworkCall
<1>2. calls' \in 0..MaxCalls
  BY BoundsAssumption DEF FrameworkCall, IInv, TypeOK
<1>3. UNCHANGED <<cur, session, queue, reg, hbm, goodix, dev, now, messages, dropped>>
  BY DEF FrameworkCall
<1>4. TypeOK'
  BY <1>1, <1>2, <1>3, Zenon DEF IInv, TypeOK
<1> QED
  BY <1>1, <1>4 DEF IInv

\* The worker starts the oldest task.
LEMMA TakeTaskIInv ==
    ASSUME IInv, TakeTask
    PROVE  IInv'
<1>1. /\ queue \in Seq([task : Tasks, s : Sessions])
      /\ queue # << >>
      /\ Len(queue) <= WORKER_QUEUE_SIZE
  BY DEF IInv, TypeOK, TakeTask
<1>2. Head(queue) \in [task : Tasks, s : Sessions]
  BY <1>1, HeadOfSeq
<1>3. Head(queue).task \in Tasks /\ Head(queue).s \in Sessions
  BY <1>2
<1>4. /\ queue' \in Seq([task : Tasks, s : Sessions])
      /\ Len(queue') <= WORKER_QUEUE_SIZE
  BY <1>1, LimitsAssumption DEF TakeTask
<1>5. /\ code' \in [Threads -> Seq(Calls)]
      /\ self' \in [Threads -> 0..MaxSessions]
      /\ (\A t \in Threads : ~Idle(t) => self[t] \in Sessions)'
      /\ Shapes'
      /\ CountLoaded'
      /\ LockedOutDisarmed'
  BY <1>3, TaskShape, IdleDisarmsNothing, HandlerStarts DEF TakeTask
<1>6. UNCHANGED <<cur, session, reg, hbm, goodix, dev, inputs, dropped>>
  BY DEF TakeTask
<1>7. TypeOK'
  BY <1>4, <1>5, <1>6, Zenon DEF IInv, TypeOK, inputs
<1> QED
  BY <1>5, <1>7 DEF IInv

\* A message starts on the notify thread, or is discarded.
LEMMA NotifyIInv ==
    ASSUME IInv, NEW m \in Messages, Notify(m)
    PROVE  IInv'
<1>1. UNCHANGED <<cur, session, queue, reg, hbm, goodix, now, calls, dropped>>
  BY DEF Notify
<1>2. /\ messages' \in 0..MaxMessages
      /\ dev' \in {"idle", "devEnroll", "devAuthenticate", "canceled"}
  BY BoundsAssumption DEF Notify, IInv, TypeOK
<1>3. /\ code' \in [Threads -> Seq(Calls)]
      /\ self' \in [Threads -> 0..MaxSessions]
      /\ (\A t \in Threads : ~Idle(t) => self[t] \in Sessions)'
      /\ Shapes'
      /\ CountLoaded'
      /\ LockedOutDisarmed'
  <2>1. CASE IsOpen
    <3>1. /\ Idle("notify")
          /\ Continue("notify", <<m>>)
          /\ self' = [self EXCEPT !["notify"] = cur]
      BY <2>1 DEF Notify
    <3>2. cur \in Sessions
      BY <2>1, BoundsAssumption DEF IsOpen, IInv, TypeOK, Sessions
    <3>3. Shape("notify", <<m>>) /\ Head(<<m>>) # "storeCount"
      BY SpecialShapes
    <3> QED
      BY <1>1, <3>1, <3>2, <3>3, IdleDisarmsNothing, HandlerStarts
  <2>2. CASE ~IsOpen
    <3>1. UNCHANGED <<code, self>>
      BY <2>2 DEF Notify
    <3> QED
      BY <1>1, <3>1 DEF IInv, TypeOK, Idle, Shapes, CountLoaded, At, LockedOutDisarmed, Has
  <2> QED
    BY <2>1, <2>2
<1>4. TypeOK'
  BY <1>1, <1>2, <1>3, Zenon DEF IInv, TypeOK
<1> QED
  BY <1>3, <1>4 DEF IInv

\* A message to be delivered starts its handler.
LEMMA DeliverIInv ==
    ASSUME IInv, NotifyHasSession, NEW m \in Messages, Deliver(m)
    PROVE  IInv'
<1>1. /\ At("notify", m)
      /\ Continue("notify", NotifyCode[m])
      /\ self' = [self EXCEPT !["notify"] = cur]
      /\ UNCHANGED <<cur, session, queue, reg, hbm, goodix, dev, inputs, dropped>>
  BY DEF Deliver
<1>2. /\ Shape("notify", code["notify"])
      /\ code["notify"] # << >>
      /\ Head(code["notify"]) \in Replacing
  BY <1>1 DEF IInv, Shapes, At, Replacing, Threads
<1>3. ~HasDisarming(code["notify"])
  BY <1>2, ReplacedDisarmsNothing
<1>4. cur \in Sessions
  BY <1>2, BoundsAssumption DEF NotifyHasSession, Idle, IInv, TypeOK, Sessions
<1>5. /\ code' \in [Threads -> Seq(Calls)]
      /\ self' \in [Threads -> 0..MaxSessions]
      /\ (\A t \in Threads : ~Idle(t) => self[t] \in Sessions)'
      /\ Shapes'
      /\ CountLoaded'
      /\ LockedOutDisarmed'
  BY <1>1, <1>3, <1>4, NotifyShape, HandlerStarts
<1>6. TypeOK'
  BY <1>1, <1>5, Zenon DEF IInv, TypeOK, inputs
<1> QED
  BY <1>5, <1>6 DEF IInv

\* The steps that touch no thread: a new session, the clock, a stutter.
LEMMA QuietIInv ==
    ASSUME IInv, CreateSession \/ Tick \/ UNCHANGED vars
    PROVE  IInv'
<1>1. UNCHANGED <<session, queue, code, self, reg, hbm, goodix, dev, calls, messages, dropped>>
  BY DEF CreateSession, Tick, vars, threads, inputs
<1>2. cur' \in 0..MaxSessions /\ now' \in Nat
  BY BoundsAssumption DEF CreateSession, Tick, vars, inputs, IInv, TypeOK
<1>3. (\A t \in Threads : ~Idle(t) => self[t] \in Sessions)'
  BY <1>1 DEF IInv, TypeOK, Idle
<1>4. TypeOK'
  BY <1>1, <1>2, <1>3, Zenon DEF IInv, TypeOK
<1>5. Shapes' /\ CountLoaded' /\ LockedOutDisarmed'
  BY <1>1 DEF IInv, Shapes, CountLoaded, At, LockedOutDisarmed, Has
<1> QED
  BY <1>4, <1>5 DEF IInv

-----------------------------------------------------------------------------
\* The initial states satisfy the inductive invariant.
LEMMA InitIInv == Init => IInv
<1> SUFFICES ASSUME Init PROVE IInv
  OBVIOUS
<1>1. /\ code = [t \in Threads |-> << >>]
      /\ goodix = 0
      /\ now = LOCKOUT_TIMED_DURATION + 1
  BY DEF Init
<1>2. TypeOK
  <2>1. NewSession \in SessionFields
    BY DEF NewSession, SessionFields, Modes
  <2>2. session \in [Sessions -> SessionFields]
    BY <2>1 DEF Init
  <2>3. /\ cur \in 0..MaxSessions /\ goodix \in 0..MaxSessions
        /\ self \in [Threads -> 0..MaxSessions] /\ reg \in [Threads -> Int]
        /\ calls \in 0..MaxCalls /\ messages \in 0..MaxMessages /\ now \in Nat
    BY BoundsAssumption, LimitsAssumption DEF Init
  <2>4. queue \in Seq([task : Tasks, s : Sessions]) /\ Len(queue) <= WORKER_QUEUE_SIZE
    BY LimitsAssumption DEF Init
  <2>5. code \in [Threads -> Seq(Calls)] /\ \A t \in Threads : Idle(t)
    BY <1>1 DEF Idle
  <2>6. /\ hbm \in BOOLEAN /\ dropped \subseteq Sessions
        /\ dev \in {"idle", "devEnroll", "devAuthenticate", "canceled"}
    BY DEF Init
  <2> QED
    BY <2>2, <2>3, <2>4, <2>5, <2>6, Zenon DEF TypeOK
<1>3. Shapes
  <2> SUFFICES ASSUME NEW t \in Threads PROVE Shape(t, << >>)
    BY <1>1 DEF Shapes
  <2>1. << >> \in Seq(Plain)
    OBVIOUS
  <2> QED
    BY <2>1, PlainShape
<1>4. CountLoaded
  BY <1>1 DEF CountLoaded, At
<1>5. LockedOutDisarmed
  BY <1>1, BoundsAssumption DEF LockedOutDisarmed, Sessions
<1> QED
  BY <1>2, <1>3, <1>4, <1>5 DEF IInv

\* A thread's step touches no other thread's code, except to start a timer.
LEMMA StepFrame ==
    ASSUME IInv, NEW t \in Threads, Step(t)
    PROVE  /\ cur' = cur
           /\ ~Idle(t)
           /\ \A u \in Threads \ ({t} \cup Timers) : code'[u] = code[u]
<1> USE DEF At, Idle, Advance, Continue
<1>1. code \in [Threads -> Seq(Calls)]
  BY DEF IInv, TypeOK
<1>2. CASE SpawnTimer(t)
  BY <1>1, <1>2 DEF SpawnTimer
<1>3. CASE \/ Schedule(t) \/ WaitUiReady(t) \/ Light(t) \/ DeviceCall(t)
           \/ PlainCall(t) \/ Sleep(t)
  BY <1>1, <1>3 DEF Schedule, WaitUiReady, Light, DeviceCall, PlainCall, Sleep
<1>4. CASE Store(t) \/ Load(t) \/ Test(t)
  BY <1>1, <1>4 DEF Store, Load, Test
<1> QED
  BY <1>2, <1>3, <1>4 DEF Step

\* The notify thread is only busy once there is a session.
LEMMA NextNotifyHasSession ==
    ASSUME IInv, NotifyHasSession, [Next]_vars
    PROVE  NotifyHasSession'
<1> USE DEF NotifyHasSession, Idle
<1>0. /\ code \in [Threads -> Seq(Calls)]
      /\ cur \in 0..MaxSessions
      /\ "notify" \in Threads \ Timers
  BY TimersAssumption DEF IInv, TypeOK, Threads
<1>1. ASSUME NEW op \in Ops, NEW s \in Sessions, FrameworkCall(op, s)
      PROVE  NotifyHasSession'
  BY <1>0, <1>1 DEF FrameworkCall, Continue
<1>2. CASE TakeTask
  BY <1>0, <1>2 DEF TakeTask, Continue
<1>3. ASSUME NEW m \in Messages, Notify(m) PROVE NotifyHasSession'
  BY <1>0, <1>3 DEF Notify, IsOpen
<1>4. ASSUME NEW m \in Messages, Deliver(m) PROVE NotifyHasSession'
  BY <1>0, <1>4 DEF Deliver, At
<1>5. CASE CreateSession
  BY <1>0, <1>5, BoundsAssumption DEF CreateSession, threads
<1>6. CASE Tick \/ UNCHANGED vars
  BY <1>6 DEF Tick, vars, threads
<1>7. ASSUME NEW t \in Threads, Step(t) PROVE NotifyHasSession'
  BY <1>0, <1>7, StepFrame
<1> QED
  BY <1>1, <1>2, <1>3, <1>4, <1>5, <1>6, <1>7 DEF Next

\* Every step of the framework, of the vendor library and of the HAL's threads
\* preserves the inductive invariant.
LEMMA NextIInv ==
    ASSUME IInv, NotifyHasSession, [Next]_vars
    PROVE  IInv'
<1>1. ASSUME NEW op \in Ops, NEW s \in Sessions, FrameworkCall(op, s) PROVE IInv'
  BY <1>1, FrameworkCallIInv
<1>2. CASE TakeTask
  BY <1>2, TakeTaskIInv
<1>3. ASSUME NEW m \in Messages, Notify(m) PROVE IInv'
  BY <1>3, NotifyIInv
<1>4. ASSUME NEW m \in Messages, Deliver(m) PROVE IInv'
  BY <1>4, DeliverIInv
<1>5. CASE CreateSession \/ Tick \/ UNCHANGED vars
  BY <1>5, QuietIInv
<1>6. ASSUME NEW t \in Threads, Step(t) PROVE IInv'
  BY <1>6, ScheduleIInv, PlainStepsIInv, LightIInv, DeviceCallIInv, StoreIInv,
     LoadIInv, TestIInv, SpawnTimerIInv DEF Step
<1> QED
  BY <1>1, <1>2, <1>3, <1>4, <1>5, <1>6 DEF Next

\* The inductive invariant holds throughout every behaviour of the HAL.
THEOREM SpecIInv == Spec => [](IInv /\ NotifyHasSession)
<1>1. Init => IInv /\ NotifyHasSession
  <2>1. Init => NotifyHasSession
    BY DEF Init, NotifyHasSession, Idle, Threads
  <2> QED
    BY <2>1, InitIInv
<1>2. IInv /\ NotifyHasSession /\ [Next]_vars => IInv' /\ NotifyHasSession'
  BY NextIInv, NextNotifyHasSession
<1> QED
  BY <1>1, <1>2, PTL DEF Spec

\* Type correctness: the worker's queue keeps to its size and no thread ever
\* runs a handler without a session.
THEOREM TypeCorrect == Spec => []TypeOK
<1>1. IInv => TypeOK
  BY DEF IInv
<1> QED
  BY <1>1, SpecIInv, PTL

\* A session being locked out never leaves its sensor armed, in any
\* interleaving of the worker, the notify thread, the timers and the binder.
THEOREM LockoutDisarms == Spec => []LockedOutDisarmed
<1>1. IInv => LockedOutDisarmed
  BY DEF IInv
<1> QED
  BY <1>1, SpecIInv, PTL

-----------------------------------------------------------------------------
(* The illumination: who may light it, and what is ahead once a session is *)
(* over.                                                                   *)

\* The tasks that light the panel or arm the sensor, and the calls that do.
LightingTasks == {"enroll", "authenticate", "onPointerDown"}
Lights == {"hbmOn", "goodixOn"}

\* The calls that neither light, nor schedule, nor close.
Dull == Calls \ (Tasks \cup Lights \cup {"markClosed"})

\* What the binder thread has left of close once its task is scheduled.
Closing == <<"markClosed", "onSessionClosed">>

\* What it may have left of any call.
BinderRests ==
    {<<call>> : call \in (Tasks \ {"close"}) \cup {"uiReady", "onSessionClosed"}}
    \cup {<< >>, <<"hbmOn", "uiReady">>, <<"uiNotReady", "authenticate">>,
          <<"close", "markClosed", "onSessionClosed">>, Closing}

\* What it may have left when the session is over.
LastRests == {<< >>, Closing, <<"onSessionClosed">>, <<"cancel">>}

\* There is no session yet, or its close task has been scheduled.
Over == cur = 0 \/ session[cur].mClosed \/ code["binder"] = Closing

\* The binder thread: one call of the framework at a time, of the current
\* session unless it is a cancel, and nothing but cancels once that is over.
BinderOrderly ==
    /\ code["binder"] \in BinderRests
    /\ At("binder", "close") \/ At("binder", "markClosed") => self["binder"] = cur
    /\ Over => code["binder"] \in LastRests

\* Of the other threads only the worker lights anything.
OthersDull ==
    /\ \A t \in Threads \ {"binder", "worker"} : code[t] \in Seq(Dull)
    /\ code["worker"] \in Seq(Dull \cup Lights)

\* A session to come is open.
FreshOpen == \A s \in Sessions : s > cur => ~session[s].mClosed

HasCall(c, call) == \E i \in 1..Len(c) : c[i] = call

\* The queue after position i lights nothing.
DarkAfter(q, i) == \A j \in 1..Len(q) : i < j => q[j].task \notin LightingTasks

\* The close task is to come, and nothing behind it lights anything.
CloseAhead(q, s) ==
    \E i \in 1..Len(q) : q[i] = [task |-> "close", s |-> s] /\ DarkAfter(q, i)

\* Nothing to come lights anything, and what is lit the worker puts out.
Darkening ==
    /\ DarkAfter(queue, 0)
    /\ code["worker"] \in Seq(Dull)
    /\ hbm => HasCall(code["worker"], "hbmOff")
    /\ goodix # 0 => HasCall(code["worker"], "goodixOff")

DarkAhead == Over => cur \in dropped \/ CloseAhead(queue, cur) \/ Darkening

LInv == BinderOrderly /\ OthersDull /\ FreshOpen /\ DarkAhead

\* A queue that stays as it is or grows by a task that lights nothing.
GrowsDark(q, r) ==
    \/ r = q
    \/ \E e \in [task : Tasks \ LightingTasks, s : Sessions] : r = Append(q, e)

\* Growing so changes nothing of what is ahead.
LEMMA GrowingDark ==
    ASSUME NEW q \in Seq([task : Tasks, s : Sessions]), NEW r, GrowsDark(q, r), NEW s
    PROVE  /\ DarkAfter(q, 0) => DarkAfter(r, 0)
           /\ CloseAhead(q, s) => CloseAhead(r, s)
<1>1. CASE r = q
  BY <1>1
<1>2. ASSUME NEW e \in [task : Tasks \ LightingTasks, s : Sessions], r = Append(q, e)
      PROVE  /\ DarkAfter(q, 0) => DarkAfter(r, 0)
             /\ CloseAhead(q, s) => CloseAhead(r, s)
  <2>1. /\ Len(r) = Len(q) + 1 /\ Len(q) \in Nat
        /\ \A i \in 1..Len(q) : r[i] = q[i] /\ i \in 1..Len(r)
        /\ r[Len(q) + 1] = e
    BY <1>2
  <2>2. e.task \notin LightingTasks
    OBVIOUS
  <2>3. \A i \in 0..Len(q) : DarkAfter(q, i) => DarkAfter(r, i)
    <3> SUFFICES ASSUME NEW i \in 0..Len(q), DarkAfter(q, i),
                        NEW j \in 1..Len(r), i < j
                 PROVE  r[j].task \notin LightingTasks
      BY DEF DarkAfter
    <3>1. CASE j = Len(q) + 1
      BY <2>1, <2>2, <3>1
    <3>2. CASE j # Len(q) + 1
      <4>1. j \in 1..Len(q)
        BY <2>1, <3>2
      <4> QED
        BY <2>1, <4>1 DEF DarkAfter
    <3> QED
      BY <3>1, <3>2
  <2>4. CloseAhead(q, s) => CloseAhead(r, s)
    <3> SUFFICES ASSUME CloseAhead(q, s) PROVE CloseAhead(r, s)
      OBVIOUS
    <3>1. PICK i \in 1..Len(q) : q[i] = [task |-> "close", s |-> s] /\ DarkAfter(q, i)
      BY DEF CloseAhead
    <3>2. i \in 0..Len(q)
      OBVIOUS
    <3>3. DarkAfter(r, i)
      BY <2>3, <3>1, <3>2
    <3> QED
      BY <2>1, <3>1, <3>3 DEF CloseAhead
  <2>5. 0 \in 0..Len(q)
    BY <2>1
  <2> QED
    BY <2>3, <2>4, <2>5
<1> QED
  BY <1>1, <1>2 DEF GrowsDark

\* The worker goes on to nothing that lights, and puts out what is lit.
StaysDark ==
    Over /\ code["worker"] \in Seq(Dull) =>
        /\ code'["worker"] \in Seq(Dull)
        /\ hbm' => /\ hbm
                   /\ HasCall(code["worker"], "hbmOff") => HasCall(code'["worker"], "hbmOff")
        /\ goodix' # 0 => /\ goodix # 0
                          /\ HasCall(code["worker"], "goodixOff")
                                => HasCall(code'["worker"], "goodixOff")

\* A step of a session that is over, or not by then, keeps it dark.
LEMMA DarkKept ==
    ASSUME TypeOK, DarkAhead, cur' = cur, Over' => Over, dropped \subseteq dropped',
           GrowsDark(queue, queue'), StaysDark
    PROVE  DarkAhead'
<1> SUFFICES ASSUME Over
             PROVE  cur \in dropped' \/ CloseAhead(queue', cur) \/ Darkening'
  BY DEF DarkAhead
<1>1. cur \in dropped \/ CloseAhead(queue, cur) \/ Darkening
  BY DEF DarkAhead
<1>2. queue \in Seq([task : Tasks, s : Sessions])
  BY DEF TypeOK
<1>3. /\ DarkAfter(queue, 0) => DarkAfter(queue', 0)
      /\ CloseAhead(queue, cur) => CloseAhead(queue', cur)
  BY <1>2, GrowingDark
<1>4. Darkening => Darkening'
  BY <1>3 DEF Darkening, StaysDark
<1> QED
  BY <1>1, <1>3, <1>4

-----------------------------------------------------------------------------
(* A step of the worker, of the notify thread or of a timer.               *)

\* What such a step of thread t leaves of the lights.
DarkStep(t) ==
    /\ cur' = cur /\ queue' = queue /\ dropped' = dropped
    /\ self'["binder"] = self["binder"]
    /\ \A s \in Sessions : session'[s].mClosed = session[s].mClosed
    /\ \A u \in Threads \ {t} : code'[u] = code[u] \/ (u \in Timers /\ code'[u] \in Seq(Dull))
    /\ code[t] \in Seq(Dull) => /\ code'[t] \in Seq(Dull)
                                /\ hbm' => hbm
                                /\ goodix' # 0 => goodix # 0
    /\ code[t] \in Seq(Dull \cup Lights) => code'[t] \in Seq(Dull \cup Lights)
    /\ t = "worker" =>
        /\ hbm' /\ HasCall(code[t], "hbmOff") => HasCall(code'[t], "hbmOff")
        /\ goodix' # 0 /\ HasCall(code[t], "goodixOff") => HasCall(code'[t], "goodixOff")

\* The calls a step may leave of a sequence, and those of its rest.
LEMMA TailCalls ==
    ASSUME NEW c \in Seq(Calls), c # << >>
    PROVE  /\ Head(c) = c[1] /\ 1 \in 1..Len(c) /\ Tail(c) \in Seq(Calls)
           /\ \A S : c \in Seq(S) => Tail(c) \in Seq(S) /\ Head(c) \in S
           /\ \A call : HasCall(c, call) /\ Head(c) # call => HasCall(Tail(c), call)
<1>1. Head(c) = c[1] /\ 1 \in 1..Len(c) /\ Tail(c) \in Seq(Calls)
  OBVIOUS
<1>2. ASSUME NEW S, c \in Seq(S) PROVE Tail(c) \in Seq(S) /\ Head(c) \in S
  BY <1>2
<1>3. ASSUME NEW call, HasCall(c, call), Head(c) # call PROVE HasCall(Tail(c), call)
  <2>1. PICK i \in 1..Len(c) : c[i] = call
    BY <1>3 DEF HasCall
  <2>2. i # 1
    BY <1>1, <1>3, <2>1
  <2>3. i - 1 \in 1..Len(Tail(c)) /\ Tail(c)[i - 1] = c[i]
    BY <2>2
  <2> QED
    BY <2>1, <2>3 DEF HasCall
<1> QED
  BY <1>1, <1>2, <1>3

\* Going on to the next call, with the lights as they are or put out.
LEMMA AdvanceDark ==
    ASSUME IInv, NEW t \in Threads, NEW call, At(t, call), Advance(t),
           cur' = cur, queue' = queue, dropped' = dropped, self' = self,
           \A s \in Sessions : session'[s].mClosed = session[s].mClosed,
           hbm' => hbm /\ call # "hbmOff",
           goodix' # 0 => goodix # 0 /\ call # "goodixOff"
    PROVE  DarkStep(t)
<1>1. /\ code'[t] = Tail(code[t])
      /\ \A u \in Threads \ {t} : code'[u] = code[u]
  BY AdvanceTypes
<1>2. code[t] \in Seq(Calls) /\ code[t] # << >> /\ Head(code[t]) = call
  BY DEF IInv, TypeOK, At
<1>3. /\ \A S : code[t] \in Seq(S) => Tail(code[t]) \in Seq(S)
      /\ \A x : HasCall(code[t], x) /\ call # x => HasCall(Tail(code[t]), x)
  BY <1>2, TailCalls
<1>4. /\ code[t] \in Seq(Dull) => code'[t] \in Seq(Dull)
      /\ code[t] \in Seq(Dull \cup Lights) => code'[t] \in Seq(Dull \cup Lights)
  BY <1>1, <1>3
<1>5. /\ hbm' /\ HasCall(code[t], "hbmOff") => HasCall(code'[t], "hbmOff")
      /\ goodix' # 0 /\ HasCall(code[t], "goodixOff") => HasCall(code'[t], "goodixOff")
  BY <1>1, <1>3
<1> QED
  BY <1>1, <1>4, <1>5 DEF DarkStep

\* A light switched on by the worker.
LEMMA LightOnDark ==
    ASSUME IInv, NEW t \in Threads, NEW call \in Lights, At(t, call), Advance(t),
           cur' = cur, queue' = queue, dropped' = dropped, self' = self,
           session' = session, OthersDull, t = "worker"
    PROVE  DarkStep(t)
<1>1. /\ code'[t] = Tail(code[t])
      /\ \A u \in Threads \ {t} : code'[u] = code[u]
  BY AdvanceTypes
<1>2. code[t] \in Seq(Calls) /\ code[t] # << >> /\ Head(code[t]) = call
  BY DEF IInv, TypeOK, At
<1>3. /\ \A S : code[t] \in Seq(S) => Tail(code[t]) \in Seq(S) /\ call \in S
      /\ \A x : HasCall(code[t], x) /\ call # x => HasCall(Tail(code[t]), x)
  BY <1>2, TailCalls
<1>4. call \notin Dull /\ call # "hbmOff" /\ call # "goodixOff"
  BY DEF Dull, Lights
<1>5. /\ code[t] \notin Seq(Dull)
      /\ code[t] \in Seq(Dull \cup Lights) => code'[t] \in Seq(Dull \cup Lights)
  BY <1>1, <1>3, <1>4
<1>6. /\ HasCall(code[t], "hbmOff") => HasCall(code'[t], "hbmOff")
      /\ HasCall(code[t], "goodixOff") => HasCall(code'[t], "goodixOff")
  BY <1>1, <1>3, <1>4
<1> QED
  BY <1>1, <1>5, <1>6 DEF DarkStep

\* The code is replaced by c.
LEMMA ReplaceDark ==
    ASSUME IInv, NEW t \in Threads, NEW c, Continue(t, c), c \in Seq(Dull) \/ ~(code[t] \in Seq(Dull)),
           code[t] \in Seq(Dull \cup Lights) => c \in Seq(Dull \cup Lights),
           UNCHANGED <<cur, session, queue, self, hbm, goodix, dropped>>,
           t = "worker" =>
             \A call \in {"hbmOff", "goodixOff"} : HasCall(code[t], call) => HasCall(c, call)
    PROVE  DarkStep(t)
<1>1. /\ code'[t] = c
      /\ \A u \in Threads \ {t} : code'[u] = code[u]
  BY DEF IInv, TypeOK, Continue
<1> QED
  BY <1>1 DEF DarkStep

\* The calls of the handlers that are neither lights nor tasks.
LEMMA DullCalls ==
    /\ Callbacks \cup DeviceQueries \cup LockoutCallbacks \cup TrackerStores \subseteq Dull
    /\ Messages \cup Neutral \subseteq Dull
    /\ {"hbmOff", "goodixOff", "uiReady", "uiNotReady", "abortTimer", "unabortTimer",
        "timerStarted", "timerStopped", "waitUiReady", "devEnroll", "devAuthenticate",
        "devCancel", "loadCount", "getTimeLeft", "getMode", "testStarted",
        "testAborted", "spawnTimer", "sleep"} \subseteq Dull
  BY DEF Dull, Calls, Tasks, Messages, Callbacks, DeviceQueries, Stores, Neutral,
         TrackerStores, LockoutCallbacks, Lights

\* A store other than markClosed leaves the session open.
LEMMA StoreKeepsOpen ==
    ASSUME NEW r \in SessionFields, NEW v
    PROVE  /\ \A call \in Stores \ {"markClosed"} : Stored(call, r, v).mClosed = r.mClosed
           /\ \A call \in TrackerStores : TrackerStored(call, r, v).mClosed = r.mClosed
<1>1. ASSUME NEW call \in Stores \ {"markClosed"}
      PROVE  Stored(call, r, v).mClosed = r.mClosed
  BY DEF SessionFields, Stored, Stores, LockoutCallbacks
<1>2. ASSUME NEW call \in TrackerStores PROVE TrackerStored(call, r, v).mClosed = r.mClosed
  BY DEF SessionFields, TrackerStored, TrackerStores
<1> QED
  BY <1>1, <1>2

\* Two sequences of a set's elements, one after the other.
LEMMA DullConcat ==
    ASSUME NEW S, NEW p \in Seq(S), NEW q \in Seq(S), NEW call, HasCall(q, call)
    PROVE  p \o q \in Seq(S) /\ HasCall(p \o q, call)
<1>1. PICK i \in 1..Len(q) : q[i] = call
  BY DEF HasCall
<1>2. /\ p \o q \in Seq(S) /\ Len(p \o q) = Len(p) + Len(q)
      /\ Len(p) \in Nat /\ Len(q) \in Nat
      /\ (p \o q)[Len(p) + i] = q[i]
  OBVIOUS
<1>3. Len(p) + i \in 1..Len(p \o q)
  BY <1>2
<1> QED
  BY <1>1, <1>2, <1>3 DEF HasCall

\* A larger set's sequences.
LEMMA DullSeqs ==
    ASSUME NEW c \in Seq(Dull)
    PROVE  c \in Seq(Dull \cup Lights)
  OBVIOUS

\* The calls that are still to make are not tasks, and do not close.
LEMMA OtherCalls ==
    ASSUME IInv, OthersDull, NEW t \in Threads \ {"binder"}, NEW call, At(t, call)
    PROVE  /\ code[t] \in Seq(Calls) /\ code[t] # << >> /\ Head(code[t]) = call
           /\ code[t] \in Seq(Dull \cup Lights)
           /\ call \notin Tasks /\ call # "markClosed"
           /\ call \in Lights => t = "worker"
<1>1. code[t] \in Seq(Calls) /\ code[t] # << >> /\ Head(code[t]) = call
  BY DEF IInv, TypeOK, At
<1>2. code[t] \in Seq(Dull \cup Lights) /\ (t # "worker" => code[t] \in Seq(Dull))
  BY DullSeqs DEF OthersDull
<1>3. call \in Dull \cup Lights /\ (t # "worker" => call \in Dull)
  BY <1>1, <1>2, TailCalls
<1>4. Dull \cap Lights = {} /\ (Dull \cup Lights) \cap Tasks = {} /\ "markClosed" \notin Dull \cup Lights
  BY DEF Dull, Lights, Tasks
<1> QED
  BY <1>1, <1>2, <1>3, <1>4

\* A lit panel or an armed sensor stays or goes dark.
LEMMA LightDark ==
    ASSUME IInv, OthersDull, NEW t \in Threads \ {"binder"}, Light(t)
    PROVE  DarkStep(t)
<1>1. PICK call \in {"hbmOn", "hbmOff", "goodixOn", "goodixOff"} :
        /\ At(t, call)
        /\ call = "hbmOff" => hbm' = FALSE /\ goodix' = goodix
        /\ call = "goodixOff" => goodix' = 0 /\ hbm' = hbm
  BY Zenon DEF Light
<1>2. Advance(t) /\ UNCHANGED <<cur, session, queue, self, reg, dev, inputs, dropped>>
  BY DEF Light
<1>3. CASE call \in Lights
  <2>1. t = "worker"
    BY <1>1, <1>3, OtherCalls
  <2> QED
    BY <1>1, <1>2, <1>3, <2>1, LightOnDark
<1>4. CASE call \in {"hbmOff", "goodixOff"}
  <2>1. /\ hbm' => hbm /\ call # "hbmOff"
        /\ goodix' # 0 => goodix # 0 /\ call # "goodixOff"
    BY <1>1, <1>4
  <2> QED
    BY <1>1, <1>2, <2>1, AdvanceDark
<1> QED
  BY <1>3, <1>4 DEF Lights

\* A vendor call that fails ends the task, of which nothing darkens any more.
LEMMA DeviceCallDark ==
    ASSUME IInv, OthersDull, NEW t \in Threads \ {"binder"}, DeviceCall(t)
    PROVE  DarkStep(t)
<1>1. PICK call \in Replacing \ Messages :
        /\ At(t, call)
        /\ Advance(t) \/ Continue(t, <<"onError">>)
  BY DEF DeviceCall, Replacing, Messages
<1>2. UNCHANGED <<cur, session, queue, self, reg, hbm, goodix, inputs, dropped>>
  BY DEF DeviceCall
<1>3. call # "hbmOff" /\ call # "goodixOff"
  BY DEF Replacing
<1>4. CASE Advance(t)
  BY <1>1, <1>2, <1>3, <1>4, AdvanceDark
<1>5. CASE Continue(t, <<"onError">>)
  <2>1. "onError" \in Dull
    BY DullCalls DEF Callbacks
  <2>2. <<"onError">> \in Seq(Dull)
    BY <2>1
  <2>3. <<"onError">> \in Seq(Dull \cup Lights)
    BY <2>2, DullSeqs
  <2>4. Shape(t, code[t]) /\ code[t] # << >> /\ code[t][1] \in Replacing /\ code[t] \in Seq(Calls)
    BY <1>1, OtherCalls DEF IInv, Shapes, At
  <2>5. ASSUME NEW x \in {"hbmOff", "goodixOff"} PROVE ~HasCall(code[t], x)
    <3> SUFFICES ASSUME NEW j \in 1..Len(code[t]), code[t][j] = x PROVE FALSE
      BY DEF HasCall
    <3>1. j # 1
      BY <2>4, <2>5 DEF Replacing, Messages
    <3>2. 1 \in 1..Len(code[t]) /\ 1 < j
      BY <2>4, <3>1
    <3> QED
      BY <2>4, <2>5, <3>2 DEF Shape, ReplacedLast, Disarming
  <2> QED
    BY <1>2, <1>5, <2>2, <2>3, <2>5, ReplaceDark
<1> QED
  BY <1>1, <1>4, <1>5

\* The steps that only go on.
LEMMA PlainDark ==
    ASSUME IInv, NEW t \in Threads, WaitUiReady(t) \/ PlainCall(t) \/ Sleep(t) \/ Load(t)
    PROVE  DarkStep(t)
<1>1. PICK call \in Callbacks \cup DeviceQueries
                     \cup {"waitUiReady", "sleep", "loadCount", "getTimeLeft"} :
        At(t, call)
  BY DEF WaitUiReady, PlainCall, Sleep, Load
<1>2. call # "hbmOff" /\ call # "goodixOff"
  BY DEF Callbacks, DeviceQueries
<1>3. Advance(t) /\ UNCHANGED <<cur, session, queue, self, hbm, goodix, dropped>>
  BY DEF WaitUiReady, PlainCall, Sleep, Load
<1> QED
  BY <1>1, <1>2, <1>3, AdvanceDark

\* A store to a session's fields.
LEMMA StoreDark ==
    ASSUME IInv, OthersDull, NEW t \in Threads \ {"binder"}, Store(t)
    PROVE  DarkStep(t)
<1>1. Advance(t) /\ UNCHANGED <<cur, queue, self, reg, hbm, goodix, dev, inputs, dropped>>
  BY DEF Store
<1>2. PICK call \in Stores \cup TrackerStores :
        /\ At(t, call)
        /\ \/ /\ call \in Stores
              /\ session' = [session EXCEPT ![self[t]] = Stored(call, @, reg[t])]
           \/ /\ call \in TrackerStores
              /\ session' = [session EXCEPT ![self[t]] = TrackerStored(call, @, reg[t])]
  BY DEF Store
<1>3. call # "markClosed" /\ call # "hbmOff" /\ call # "goodixOff"
  BY <1>2, OtherCalls DEF Stores, TrackerStores, LockoutCallbacks
<1>4. /\ session \in [Sessions -> SessionFields] /\ self[t] \in Sessions
      /\ session[self[t]] \in SessionFields
  BY <1>2 DEF IInv, TypeOK, At, Idle
<1>5. \A s \in Sessions : session'[s].mClosed = session[s].mClosed
  <2> DEFINE x == self[t]
             v == reg[t]
  <2>1. CASE call \in Stores /\ session' = [session EXCEPT ![x] = Stored(call, @, v)]
    <3>1. Stored(call, session[x], v).mClosed = session[x].mClosed
      BY <1>3, <1>4, <2>1, StoreKeepsOpen
    <3> QED
      BY <1>4, <2>1, <3>1
  <2>2. CASE call \in TrackerStores /\ session' = [session EXCEPT ![x] = TrackerStored(call, @, v)]
    <3>1. TrackerStored(call, session[x], v).mClosed = session[x].mClosed
      BY <1>4, <2>2, StoreKeepsOpen
    <3> QED
      BY <1>4, <2>2, <3>1
  <2> QED
    BY <1>2, <2>1, <2>2
<1> QED
  BY <1>1, <1>2, <1>3, <1>5, AdvanceDark

\* What an expired timer goes on to.
LEMMA ExpiredDull ==
    ASSUME NEW aborted \in BOOLEAN
    PROVE  lockoutTimerExpired(aborted) \in Seq(Dull)
<1>1. {"timerStopped", "unabortTimer", "clearMode", "onLockoutCleared"} \subseteq Dull
  BY DullCalls DEF LockoutCallbacks, TrackerStores
<1>2. /\ << >> \in Seq(Dull)
      /\ <<"clearMode", "onLockoutCleared">> \in Seq(Dull)
      /\ <<"timerStopped", "unabortTimer">> \in Seq(Dull)
  BY <1>1
<1> QED
  BY <1>2 DEF lockoutTimerExpired

\* A test of a session's fields, replaced by what it leads to.
LEMMA TestDark ==
    ASSUME IInv, OthersDull, NEW t \in Threads \ {"binder"}, Test(t)
    PROVE  DarkStep(t)
<1> DEFINE r == session[self[t]]
<1>1. UNCHANGED <<cur, session, queue, self, reg, hbm, goodix, dev, inputs, dropped>>
  BY DEF Test
<1>2. ASSUME NEW call \in {"getMode", "testStarted", "testAborted"}, At(t, call)
      PROVE  /\ code[t] \in Seq(Calls) /\ code[t] # << >> /\ Head(code[t]) = call
             /\ r \in SessionFields /\ Shape(t, code[t])
  BY <1>2 DEF IInv, TypeOK, At, Idle, Shapes
<1> HIDE DEF r
<1>3. ASSUME NEW call \in {"getMode", "testStarted"}, At(t, call), NEW p \in Seq(Neutral),
             Continue(t, p \o Tail(code[t]))
      PROVE  DarkStep(t)
  <2> DEFINE q == Tail(code[t])
  <2>1. code[t] \in Seq(Calls) /\ code[t] # << >> /\ Head(code[t]) = call
    BY <1>2, <1>3
  <2>2. /\ \A S : code[t] \in Seq(S) => q \in Seq(S)
        /\ \A x : HasCall(code[t], x) /\ call # x => HasCall(q, x)
        /\ q \in Seq(Calls)
    BY <2>1, TailCalls
  <2>3. p \in Seq(Dull) /\ p \in Seq(Dull \cup Lights) /\ p \in Seq(Calls)
    <3>1. Neutral \subseteq Dull /\ Dull \subseteq Calls
      BY DullCalls DEF Dull
    <3> QED
      BY <3>1
  <2>4. /\ code[t] \in Seq(Dull) => q \in Seq(Dull)
        /\ code[t] \in Seq(Dull \cup Lights) => q \in Seq(Dull \cup Lights)
    BY <2>2
  <2> HIDE DEF q
  <2>5. /\ p \o q \in Seq(Dull) \/ ~(code[t] \in Seq(Dull))
        /\ code[t] \in Seq(Dull \cup Lights) => p \o q \in Seq(Dull \cup Lights)
    BY <2>3, <2>4
  <2>6. \A x \in {"hbmOff", "goodixOff"} : HasCall(code[t], x) => HasCall(p \o q, x)
    BY <1>3, <2>2, <2>3, DullConcat
  <2>7. Continue(t, p \o q)
    BY <1>3 DEF q
  <2> QED
    BY <1>1, <2>5, <2>6, <2>7, ReplaceDark
<1>4. CASE At(t, "getMode") /\ Continue(t, getMode(r) \o Tail(code[t]))
  <2>1. getMode(r) \in Seq(Neutral)
    BY <1>2, <1>4, NeutralCode
  <2> QED
    BY <1>3, <1>4, <2>1
<1>5. CASE At(t, "testStarted") /\ Advance(t)
  BY <1>1, <1>5, AdvanceDark
<1>6. CASE At(t, "testStarted") /\ Continue(t, startLockoutTimer \o Tail(code[t]))
  <2>1. startLockoutTimer \in Seq(Neutral)
    BY <1>2, <1>6, NeutralCode
  <2> QED
    BY <1>3, <1>6, <2>1
<1>7. CASE At(t, "testAborted") /\ Continue(t, lockoutTimerExpired(r.mIsLockoutTimerAborted))
  <2>1. r \in SessionFields /\ Shape(t, code[t]) /\ code[t] # << >> /\ Head(code[t]) = "testAborted"
        /\ code[t] \in Seq(Calls)
    BY <1>2, <1>7
  <2>2. r.mIsLockoutTimerAborted \in BOOLEAN
    BY <2>1 DEF SessionFields
  <2>3. lockoutTimerExpired(r.mIsLockoutTimerAborted) \in Seq(Dull)
    BY <2>2, ExpiredDull
  <2>4. t # "worker"
    <3>1. 1 \in 1..Len(code[t]) /\ code[t][1] = "testAborted"
      BY <2>1
    <3> QED
      BY <2>1, <3>1 DEF Shape, Belongs
  <2> QED
    BY <1>1, <1>7, <2>3, <2>4, DullSeqs, ReplaceDark
<1> QED
  BY <1>4, <1>5, <1>6, <1>7 DEF Test, r

\* A timer thread is started.
LEMMA SpawnTimerDark ==
    ASSUME IInv, NEW t \in Threads \ {"binder"}, SpawnTimer(t)
    PROVE  DarkStep(t)
<1>1. PICK x \in Timers :
        /\ Idle(x)
        /\ code' = [code EXCEPT ![t] = Tail(@), ![x] = <<"sleep", "testAborted">>]
        /\ self' = [self EXCEPT ![x] = self[t]]
  BY DEF SpawnTimer
<1>2. At(t, "spawnTimer") /\ UNCHANGED <<cur, session, queue, hbm, goodix, dev, inputs, dropped>>
  BY DEF SpawnTimer
<1>3. /\ code[t] \in Seq(Calls) /\ code[t] # << >> /\ Head(code[t]) = "spawnTimer"
      /\ code \in [Threads -> Seq(Calls)] /\ self \in [Threads -> 0..MaxSessions]
  BY <1>2 DEF IInv, TypeOK, At
<1>4. x # t /\ x \in Threads /\ x # "binder" /\ "binder" \in Threads
  BY <1>1, <1>3, TimersAssumption DEF Idle, Threads
<1>5. /\ \A S : code[t] \in Seq(S) => Tail(code[t]) \in Seq(S)
      /\ \A c : HasCall(code[t], c) /\ "spawnTimer" # c => HasCall(Tail(code[t]), c)
  BY <1>3, TailCalls
<1> DEFINE d == <<"sleep", "testAborted">>
<1>6. d \in Seq(Dull)
  <2>1. "sleep" \in Dull /\ "testAborted" \in Dull
    BY DullCalls
  <2> QED
    BY <2>1
<1> HIDE DEF d
<1>7. /\ code'[t] = Tail(code[t])
      /\ code'[x] = d
      /\ \A u \in Threads \ {t, x} : code'[u] = code[u]
      /\ self'["binder"] = self["binder"]
  BY <1>1, <1>3, <1>4 DEF d
<1>8. \A u \in Threads \ {t} : code'[u] = code[u] \/ (u \in Timers /\ code'[u] \in Seq(Dull))
  BY <1>1, <1>6, <1>7
<1>9. /\ code[t] \in Seq(Dull) => code'[t] \in Seq(Dull)
      /\ code[t] \in Seq(Dull \cup Lights) => code'[t] \in Seq(Dull \cup Lights)
      /\ HasCall(code[t], "hbmOff") => HasCall(code'[t], "hbmOff")
      /\ HasCall(code[t], "goodixOff") => HasCall(code'[t], "goodixOff")
  BY <1>5, <1>7
<1> QED
  BY <1>2, <1>7, <1>8, <1>9 DEF DarkStep

\* Every step of a thread other than the binder's.
LEMMA StepDark ==
    ASSUME IInv, OthersDull, NEW t \in Threads \ {"binder"}, Step(t)
    PROVE  DarkStep(t)
<1>1. ~Schedule(t)
  BY OtherCalls DEF Schedule
<1> QED
  BY <1>1, LightDark, DeviceCallDark, PlainDark, StoreDark, TestDark, SpawnTimerDark DEF Step

\* Such a step keeps the invariant.
LEMMA DarkStepLInv ==
    ASSUME IInv, LInv, NEW t \in Threads \ {"binder"}, DarkStep(t)
    PROVE  LInv'
<1>1. /\ "binder" \in Threads \ Timers /\ "worker" \in Threads \ Timers
      /\ cur \in 0..MaxSessions /\ (cur # 0 => cur \in Sessions)
      /\ TypeOK
  BY TimersAssumption, BoundsAssumption DEF Threads, IInv, TypeOK, Sessions
<1>2. /\ cur' = cur /\ queue' = queue /\ dropped' = dropped
      /\ self'["binder"] = self["binder"]
      /\ \A s \in Sessions : session'[s].mClosed = session[s].mClosed
      /\ \A u \in Threads \ {t} : code'[u] = code[u] \/ (u \in Timers /\ code'[u] \in Seq(Dull))
  BY DEF DarkStep
<1>3. code'["binder"] = code["binder"]
  BY <1>1, <1>2
<1>4. Over' <=> Over
  BY <1>1, <1>2, <1>3 DEF Over
<1>5. BinderOrderly'
  BY <1>2, <1>3, <1>4 DEF LInv, BinderOrderly, At
<1>6. OthersDull'
  <2>1. ASSUME NEW u \in Threads \ {"binder", "worker"} PROVE code'[u] \in Seq(Dull)
    <3>1. code[u] \in Seq(Dull)
      BY DEF LInv, OthersDull
    <3>2. CASE u = t
      BY <3>1, <3>2 DEF DarkStep
    <3>3. CASE u # t
      BY <1>2, <3>1, <3>3
    <3> QED
      BY <3>2, <3>3
  <2>2. code'["worker"] \in Seq(Dull \cup Lights)
    <3>1. code["worker"] \in Seq(Dull \cup Lights)
      BY DEF LInv, OthersDull
    <3>2. CASE t = "worker"
      BY <3>1, <3>2 DEF DarkStep
    <3>3. CASE t # "worker"
      BY <1>1, <1>2, <3>1, <3>3
    <3> QED
      BY <3>2, <3>3
  <2> QED
    BY <2>1, <2>2 DEF OthersDull
<1>7. FreshOpen'
  BY <1>2 DEF LInv, FreshOpen
<1>8. StaysDark
  <2>1. CASE t = "worker"
    BY <2>1 DEF StaysDark, DarkStep
  <2>2. CASE t # "worker"
    <3>1. code[t] \in Seq(Dull) /\ code'["worker"] = code["worker"]
      BY <1>1, <1>2, <2>2 DEF LInv, OthersDull
    <3>2. (hbm' => hbm) /\ (goodix' # 0 => goodix # 0)
      BY <3>1 DEF DarkStep
    <3> QED
      BY <3>1, <3>2 DEF StaysDark
  <2> QED
    BY <2>1, <2>2
<1>9. DarkAhead'
  <2>1. DarkAhead /\ GrowsDark(queue, queue') /\ dropped \subseteq dropped'
    BY <1>2 DEF LInv, GrowsDark
  <2> QED
    BY <1>1, <1>2, <1>4, <1>8, <2>1, DarkKept
<1> QED
  BY <1>5, <1>6, <1>7, <1>9 DEF LInv

-----------------------------------------------------------------------------
(* The binder thread.                                                      *)

\* What is left of a call, by its first step.
LEMMA BinderHeads ==
    ASSUME code["binder"] \in BinderRests, NEW call, At("binder", call)
    PROVE  \/ /\ call \in (Tasks \ {"close"}) \cup {"uiReady", "onSessionClosed"}
              /\ code["binder"] = <<call>> /\ Tail(code["binder"]) = << >>
           \/ /\ call = "hbmOn" /\ code["binder"] = <<"hbmOn", "uiReady">>
              /\ Tail(code["binder"]) = <<"uiReady">>
           \/ /\ call = "uiNotReady" /\ code["binder"] = <<"uiNotReady", "authenticate">>
              /\ Tail(code["binder"]) = <<"authenticate">>
           \/ /\ call = "close" /\ code["binder"] = <<"close", "markClosed", "onSessionClosed">>
              /\ Tail(code["binder"]) = Closing
           \/ /\ call = "markClosed" /\ code["binder"] = Closing
              /\ Tail(code["binder"]) = <<"onSessionClosed">>
<1> DEFINE c == code["binder"]
<1>1. c # << >> /\ Head(c) = call
  BY DEF At
<1>2. CASE \E x \in (Tasks \ {"close"}) \cup {"uiReady", "onSessionClosed"} : c = <<x>>
  <2>1. PICK x \in (Tasks \ {"close"}) \cup {"uiReady", "onSessionClosed"} : c = <<x>>
    BY <1>2
  <2>2. Head(<<x>>) = x /\ Tail(<<x>>) = << >>
    OBVIOUS
  <2> QED
    BY <1>1, <2>1, <2>2
<1>3. CASE c = <<"hbmOn", "uiReady">>
  BY <1>1, <1>3
<1>4. CASE c = <<"uiNotReady", "authenticate">>
  BY <1>1, <1>4
<1>5. CASE c = <<"close", "markClosed", "onSessionClosed">>
  BY <1>1, <1>5 DEF Closing
<1>6. CASE c = Closing
  BY <1>1, <1>6 DEF Closing
<1> QED
  BY <1>1, <1>2, <1>3, <1>4, <1>5, <1>6 DEF BinderRests

\* The rests are told apart by what they begin with.
LEMMA RestsDiffer ==
    /\ \A call : <<call>> # Closing /\ <<call>> # << >>
    /\ \A call : <<call>> \in LastRests => call \in {"onSessionClosed", "cancel"}
    /\ <<"hbmOn", "uiReady">> \notin LastRests \cup {Closing}
    /\ <<"uiNotReady", "authenticate">> \notin LastRests \cup {Closing}
    /\ <<"close", "markClosed", "onSessionClosed">> \notin LastRests \cup {Closing}
    /\ << >> # Closing
    /\ {<< >>, <<"onSessionClosed">>, <<"cancel">>, Closing} \subseteq LastRests
    /\ \A call \in (Tasks \ {"close"}) \cup {"uiReady", "onSessionClosed"} :
           <<call>> \in BinderRests
    /\ LastRests \subseteq BinderRests
<1>1. \A call : <<call>> # Closing /\ <<call>> # << >>
  BY DEF Closing
<1>2. ASSUME NEW call, <<call>> \in LastRests PROVE call \in {"onSessionClosed", "cancel"}
  <2>1. <<call>> = <<"onSessionClosed">> \/ <<call>> = <<"cancel">>
    BY <1>1, <1>2 DEF LastRests
  <2> QED
    BY <2>1
<1>3. /\ <<"hbmOn", "uiReady">> \notin LastRests \cup {Closing}
      /\ <<"uiNotReady", "authenticate">> \notin LastRests \cup {Closing}
      /\ <<"close", "markClosed", "onSessionClosed">> \notin LastRests \cup {Closing}
      /\ << >> # Closing
  BY DEF LastRests, Closing
<1>4. {<< >>, <<"onSessionClosed">>, <<"cancel">>, Closing} \subseteq LastRests
  BY DEF LastRests
<1>5. \A call \in (Tasks \ {"close"}) \cup {"uiReady", "onSessionClosed"} :
          <<call>> \in BinderRests
  BY DEF BinderRests
<1>6. "cancel" \in Tasks \ {"close"}
  BY DEF Tasks
<1>7. LastRests \subseteq BinderRests
  BY <1>5, <1>6 DEF LastRests, BinderRests
<1> QED
  BY <1>1, <1>2, <1>3, <1>4, <1>5, <1>7

\* A step of the binder thread goes on to the next call, and touches no other.
LEMMA BinderAdvances ==
    ASSUME IInv, LInv, Step("binder")
    PROVE  /\ Advance("binder") /\ cur' = cur /\ self' = self /\ goodix' = goodix
           /\ code'["binder"] = Tail(code["binder"])
           /\ \A u \in Threads \ {"binder"} : code'[u] = code[u]
           /\ \E call : /\ At("binder", call)
                        /\ \/ call \in Tasks /\ Schedule("binder")
                           \/ call = "hbmOn" /\ Light("binder")
                           \/ call \in {"uiReady", "uiNotReady", "markClosed"} /\ Store("binder")
                           \/ call = "onSessionClosed" /\ PlainCall("binder")
<1>1. code["binder"] \in BinderRests
  BY DEF LInv, BinderOrderly
<1>2. ASSUME NEW call, At("binder", call)
      PROVE  call \in Tasks \cup {"uiReady", "onSessionClosed", "hbmOn", "uiNotReady", "markClosed"}
  BY <1>1, <1>2, BinderHeads DEF Tasks
<1>3. ~DeviceCall("binder") /\ ~WaitUiReady("binder") /\ ~Load("binder")
      /\ ~Test("binder") /\ ~SpawnTimer("binder") /\ ~Sleep("binder")
  BY <1>2 DEF DeviceCall, WaitUiReady, Load, Test, SpawnTimer, Sleep, Tasks
<1>4. CASE Schedule("binder")
  <2>1. /\ Advance("binder") /\ cur' = cur /\ self' = self /\ goodix' = goodix
        /\ \E call \in Tasks : At("binder", call)
    BY <1>4 DEF Schedule
  <2> QED
    BY <1>4, <2>1, AdvanceTypes DEF Threads
<1>5. CASE Light("binder")
  <2>1. /\ Advance("binder") /\ cur' = cur /\ self' = self
        /\ At("binder", "hbmOn") /\ goodix' = goodix
    BY <1>2, <1>5 DEF Light, Tasks
  <2> QED
    BY <1>5, <2>1, AdvanceTypes DEF Threads
<1>6. CASE Store("binder")
  <2>1. PICK call \in Stores \cup TrackerStores : At("binder", call)
    BY <1>6 DEF Store
  <2>2. /\ Advance("binder") /\ cur' = cur /\ self' = self /\ goodix' = goodix
    BY <1>6 DEF Store
  <2>3. call \in {"uiReady", "uiNotReady", "markClosed"}
    BY <1>2, <2>1 DEF Tasks, Stores, TrackerStores, LockoutCallbacks
  <2> QED
    BY <1>6, <2>1, <2>2, <2>3, AdvanceTypes DEF Threads
<1>7. CASE PlainCall("binder")
  <2>1. PICK call \in Callbacks \cup DeviceQueries : At("binder", call)
    BY <1>7 DEF PlainCall
  <2>2. /\ Advance("binder") /\ cur' = cur /\ self' = self /\ goodix' = goodix
    BY <1>7 DEF PlainCall
  <2>3. call = "onSessionClosed"
    BY <1>2, <2>1 DEF Tasks, Callbacks, DeviceQueries
  <2> QED
    BY <1>7, <2>1, <2>2, <2>3, AdvanceTypes DEF Threads
<1> QED
  BY <1>3, <1>4, <1>5, <1>6, <1>7 DEF Step

\* The task that ends a session is scheduled, or dropped with a note.
LEMMA ClosingIsAhead ==
    ASSUME IInv, LInv, Schedule("binder"), At("binder", "close"),
           cur' = cur, code'["binder"] = Closing
    PROVE  DarkAhead'
<1>1. self["binder"] = cur
  BY DEF LInv, BinderOrderly
<1>2. PICK task \in Tasks :
        /\ At("binder", task)
        /\ \/ queue' = Append(queue, [task |-> task, s |-> self["binder"]])
           \/ dropped' = dropped \cup (IF task = "close" THEN {self["binder"]} ELSE {})
  BY DEF Schedule
<1>3. task = "close"
  BY <1>2 DEF At
<1>4. CASE dropped' = dropped \cup (IF task = "close" THEN {self["binder"]} ELSE {})
  BY <1>1, <1>3, <1>4 DEF DarkAhead
<1>5. CASE queue' = Append(queue, [task |-> task, s |-> self["binder"]])
  <2> DEFINE e == [task |-> "close", s |-> cur]
             q == queue
             r == queue'
  <2>1. q \in Seq([task : Tasks, s : Sessions]) /\ r = Append(q, e)
    BY <1>1, <1>3, <1>5 DEF IInv, TypeOK
  <2> HIDE DEF e, q, r
  <2>2. Len(r) = Len(q) + 1 /\ Len(q) \in Nat /\ r[Len(q) + 1] = e
    BY <2>1
  <2>3. Len(q) + 1 \in 1..Len(r) /\ DarkAfter(r, Len(q) + 1)
    BY <2>2 DEF DarkAfter
  <2>4. CloseAhead(r, cur)
    BY <2>2, <2>3 DEF CloseAhead, e
  <2> QED
    BY <2>4 DEF DarkAhead, r
<1> QED
  BY <1>2, <1>4, <1>5

\* A step of the binder thread.
LEMMA BinderStepLInv ==
    ASSUME IInv, LInv, Step("binder")
    PROVE  LInv'
<1>1. /\ cur' = cur /\ self' = self /\ goodix' = goodix
      /\ code'["binder"] = Tail(code["binder"])
      /\ \A u \in Threads \ {"binder"} : code'[u] = code[u]
  BY BinderAdvances
<1>2. PICK call : /\ At("binder", call)
                  /\ \/ call \in Tasks /\ Schedule("binder")
                     \/ call = "hbmOn" /\ Light("binder")
                     \/ call \in {"uiReady", "uiNotReady", "markClosed"} /\ Store("binder")
                     \/ call = "onSessionClosed" /\ PlainCall("binder")
  BY BinderAdvances
<1>3. /\ "worker" \in Threads \ {"binder"}
      /\ cur \in 0..MaxSessions /\ (cur # 0 => cur \in Sessions)
      /\ TypeOK /\ DarkAhead
      /\ code["binder"] \in BinderRests
      /\ Over => code["binder"] \in LastRests
  BY BoundsAssumption DEF Threads, IInv, TypeOK, Sessions, LInv, BinderOrderly
<1>4. OthersDull' /\ code'["worker"] = code["worker"]
  BY <1>1, <1>3 DEF LInv, OthersDull
<1>5. \* A call that leaves the sessions, and what is over, alone.
      ASSUME session' = session \/ \A s \in Sessions : session'[s].mClosed = session[s].mClosed,
             code["binder"] # Closing, code'["binder"] # Closing
      PROVE  (Over' <=> Over) /\ FreshOpen'
  BY <1>1, <1>3, <1>5 DEF Over, LInv, FreshOpen
<1>6. ASSUME Over, hbm' => hbm PROVE StaysDark
  BY <1>1, <1>4, <1>6 DEF StaysDark
<1>7. CASE call \in Tasks \ {"close"} /\ Schedule("binder")
  <2>1. code["binder"] = <<call>> /\ code'["binder"] = << >>
    BY <1>1, <1>2, <1>3, <1>7, BinderHeads DEF Tasks
  <2>2. session' = session /\ hbm' = hbm
    BY <1>7 DEF Schedule
  <2>3. (Over' <=> Over) /\ FreshOpen'
    BY <1>5, <2>1, <2>2, RestsDiffer
  <2>4. BinderOrderly'
    BY <2>1, RestsDiffer DEF BinderOrderly, At
  <2>5. dropped \subseteq dropped'
    BY <1>7 DEF Schedule
  <2>6. DarkAhead'
    <3>1. CASE ~Over
      BY <2>3, <3>1 DEF DarkAhead
    <3>2. CASE Over
      <4>1. call = "cancel"
        BY <1>3, <1>7, <2>1, <3>2, RestsDiffer DEF Tasks
      <4>2. self["binder"] \in Sessions
        BY <2>1, <1>2 DEF IInv, TypeOK, Idle, At, Threads
      <4>3. PICK task \in Tasks :
              /\ At("binder", task)
              /\ \/ queue' = Append(queue, [task |-> task, s |-> self["binder"]])
                 \/ queue' = queue
        BY <1>7 DEF Schedule
      <4>4. task = "cancel"
        BY <1>2, <4>1, <4>3 DEF At
      <4>5. [task |-> task, s |-> self["binder"]] \in [task : Tasks \ LightingTasks, s : Sessions]
        BY <4>2, <4>4 DEF Tasks, LightingTasks
      <4>6. GrowsDark(queue, queue')
        BY <4>3, <4>5 DEF GrowsDark
      <4> QED
        BY <1>1, <1>3, <1>6, <2>2, <2>3, <2>5, <3>2, <4>6, DarkKept
    <3> QED
      BY <3>1, <3>2
  <2> QED
    BY <1>4, <2>3, <2>4, <2>6 DEF LInv
<1>8. CASE call = "close" /\ Schedule("binder")
  <2>1. code'["binder"] = Closing /\ At("binder", "close")
    BY <1>1, <1>2, <1>3, <1>8, BinderHeads
  <2>2. DarkAhead'
    BY <1>1, <1>8, <2>1, ClosingIsAhead
  <2>3. session' = session /\ self["binder"] = cur
    BY <1>8, <2>1 DEF Schedule, LInv, BinderOrderly
  <2>4. FreshOpen'
    BY <1>1, <2>3 DEF LInv, FreshOpen
  <2>5. BinderOrderly'
    BY <1>1, <2>1, <2>3, RestsDiffer DEF BinderOrderly
  <2> QED
    BY <1>4, <2>2, <2>4, <2>5 DEF LInv
<1>9. CASE \/ call = "hbmOn" /\ Light("binder")
           \/ call \in {"uiReady", "uiNotReady"} /\ Store("binder")
  <2>1. /\ code["binder"] \in {<<"uiReady">>, <<"hbmOn", "uiReady">>, <<"uiNotReady", "authenticate">>}
        /\ code'["binder"] \in {<< >>, <<"uiReady">>, <<"authenticate">>}
    BY <1>1, <1>2, <1>3, <1>9, BinderHeads DEF Tasks
  <2>2. /\ code["binder"] # Closing /\ code'["binder"] # Closing
        /\ code["binder"] \notin LastRests
        /\ code'["binder"] \in BinderRests
        /\ ~At("binder", "close")' /\ ~At("binder", "markClosed")'
    <3>1. /\ <<"uiReady">> \notin LastRests /\ <<"uiReady">> # Closing /\ <<"authenticate">> # Closing
          /\ <<"uiReady">> \in BinderRests /\ <<"authenticate">> \in BinderRests
          /\ << >> \in BinderRests
      BY RestsDiffer DEF Tasks
    <3>2. /\ Head(<<"uiReady">>) = "uiReady" /\ Head(<<"authenticate">>) = "authenticate"
      OBVIOUS
    <3> QED
      BY <2>1, <3>1, <3>2, RestsDiffer DEF At
  <2>3. session' = session \/ \A s \in Sessions : session'[s].mClosed = session[s].mClosed
    <3>1. CASE Light("binder")
      BY <3>1 DEF Light
    <3>2. CASE call \in {"uiReady", "uiNotReady"} /\ Store("binder")
      <4>1. PICK c \in Stores \cup TrackerStores :
              /\ At("binder", c)
              /\ \/ /\ c \in Stores
                    /\ session' = [session EXCEPT ![self["binder"]] = Stored(c, @, reg["binder"])]
                 \/ /\ c \in TrackerStores
                    /\ session' = [session EXCEPT ![self["binder"]] = TrackerStored(c, @, reg["binder"])]
        BY <3>2 DEF Store
      <4>2. c = call
        BY <1>2, <4>1 DEF At
      <4>3. /\ c \in Stores \ {"markClosed"}
            /\ session' = [session EXCEPT ![self["binder"]] = Stored(c, @, reg["binder"])]
        BY <3>2, <4>1, <4>2 DEF TrackerStores
      <4>4. /\ session \in [Sessions -> SessionFields] /\ self["binder"] \in Sessions
            /\ session[self["binder"]] \in SessionFields
        BY <1>2 DEF IInv, TypeOK, At, Idle, Threads
      <4>5. Stored(c, session[self["binder"]], reg["binder"]).mClosed = session[self["binder"]].mClosed
        BY <4>3, <4>4, StoreKeepsOpen
      <4> QED
        BY <4>3, <4>4, <4>5
    <3> QED
      BY <1>9, <3>1, <3>2
  <2>4. (Over' <=> Over) /\ FreshOpen' /\ ~Over
    BY <1>3, <1>5, <2>2, <2>3
  <2>5. BinderOrderly' /\ DarkAhead'
    BY <2>2, <2>4 DEF BinderOrderly, DarkAhead
  <2> QED
    BY <1>4, <2>4, <2>5 DEF LInv
<1>10. CASE call = "markClosed" /\ Store("binder")
  <2>1. code["binder"] = Closing /\ code'["binder"] = <<"onSessionClosed">>
    BY <1>1, <1>2, <1>3, <1>10, BinderHeads DEF Tasks
  <2>2. self["binder"] = cur /\ Over
    BY <1>2, <1>10, <2>1 DEF LInv, BinderOrderly, Over
  <2>3. UNCHANGED <<queue, hbm, dropped>>
    BY <1>10 DEF Store
  <2>4. \A s \in Sessions \ {cur} : session'[s] = session[s]
    <3>1. session \in [Sessions -> SessionFields]
      BY DEF IInv, TypeOK
    <3> QED
      BY <1>10, <2>2, <3>1 DEF Store
  <2>5. FreshOpen'
    BY <1>1, <1>3, <2>4 DEF LInv, FreshOpen, Sessions
  <2>6. BinderOrderly'
    <3>1. Head(<<"onSessionClosed">>) = "onSessionClosed" /\ <<"onSessionClosed">> \in LastRests
      BY RestsDiffer
    <3> QED
      BY <2>1, <3>1, RestsDiffer DEF BinderOrderly, At
  <2>7. DarkAhead'
    <3>1. GrowsDark(queue, queue') /\ dropped \subseteq dropped' /\ StaysDark
      BY <1>6, <2>2, <2>3 DEF GrowsDark
    <3> QED
      BY <1>1, <1>3, <2>2, <3>1, DarkKept
  <2> QED
    BY <1>4, <2>5, <2>6, <2>7 DEF LInv
<1>11. CASE call = "onSessionClosed" /\ PlainCall("binder")
  <2>1. code["binder"] = <<"onSessionClosed">> /\ code'["binder"] = << >>
    BY <1>1, <1>2, <1>3, <1>11, BinderHeads DEF Tasks
  <2>2. UNCHANGED <<session, queue, hbm, dropped>>
    BY <1>11 DEF PlainCall
  <2>3. (Over' <=> Over) /\ FreshOpen'
    BY <1>5, <2>1, <2>2, RestsDiffer
  <2>4. BinderOrderly'
    BY <2>1, RestsDiffer DEF BinderOrderly, At
  <2>5. DarkAhead'
    <3>1. CASE ~Over
      BY <2>3, <3>1 DEF DarkAhead
    <3>2. CASE Over
      <4>1. GrowsDark(queue, queue') /\ dropped \subseteq dropped' /\ StaysDark
        BY <1>6, <2>2, <3>2 DEF GrowsDark
      <4> QED
        BY <1>1, <1>3, <2>3, <4>1, DarkKept
    <3> QED
      BY <3>1, <3>2
  <2> QED
    BY <1>4, <2>3, <2>4, <2>5 DEF LInv
<1> QED
  BY <1>2, <1>7, <1>8, <1>9, <1>10, <1>11

-----------------------------------------------------------------------------
(* The worker takes a task; handlers start; a session is created.          *)

\* Only enroll, authenticate and onPointerDown light, and close darkens.
LEMMA TaskDull ==
    ASSUME NEW task \in Tasks
    PROVE  /\ TaskCode[task] \in Seq(Dull \cup Lights)
           /\ task \notin LightingTasks => TaskCode[task] \in Seq(Dull)
           /\ task = "close" => /\ HasCall(TaskCode[task], "hbmOff")
                                /\ HasCall(TaskCode[task], "goodixOff")
<1> USE DEF TaskCode
<1>1. CASE task \in {"enroll", "authenticate"}
  <2>1. TaskCode[task] \in {<<"devEnroll", "hbmOn">>, <<"devAuthenticate", "hbmOn">>}
    BY <1>1 DEF enroll, authenticate
  <2>2. {"devEnroll", "devAuthenticate", "hbmOn"} \subseteq Dull \cup Lights
    BY DullCalls DEF Lights
  <2>3. /\ <<"devEnroll", "hbmOn">> \in Seq(Dull \cup Lights)
        /\ <<"devAuthenticate", "hbmOn">> \in Seq(Dull \cup Lights)
    BY <2>2, ShortSeqs
  <2> QED
    BY <1>1, <2>1, <2>3 DEF LightingTasks
<1>2. CASE task = "onPointerDown"
  <2>1. TaskCode[task] = <<"waitUiReady", "goodixOn", "getMode">>
    BY <1>2 DEF onPointerDown
  <2>2. {"waitUiReady", "goodixOn", "getMode"} \subseteq Dull \cup Lights
    BY DullCalls DEF Lights
  <2>3. <<"waitUiReady", "goodixOn", "getMode">> \in Seq(Dull \cup Lights)
    BY <2>2, ShortSeqs
  <2> QED
    BY <1>2, <2>1, <2>3 DEF LightingTasks
<1>3. CASE task = "close"
  <2> DEFINE c == <<"hbmOff", "goodixOff", "uiNotReady">>
  <2>1. TaskCode[task] = c
    BY <1>3 DEF close
  <2>2. {"hbmOff", "goodixOff", "uiNotReady"} \subseteq Dull
    BY DullCalls
  <2>3. c \in Seq(Dull)
    BY <2>2, ShortSeqs
  <2>4. Len(c) = 3 /\ c[1] = "hbmOff" /\ c[2] = "goodixOff" /\ 1 \in 1..3 /\ 2 \in 1..3
    OBVIOUS
  <2> HIDE DEF c
  <2>5. HasCall(c, "hbmOff") /\ HasCall(c, "goodixOff")
    BY <2>4 DEF HasCall
  <2> QED
    BY <2>1, <2>3, <2>5, DullSeqs
<1>4. CASE task \in {"cancel", "resetLockout", "revokeChallenge"}
  <2>1. TaskCode[task] \in
          {<<"hbmOff", "goodixOff", "uiNotReady", "devCancel">>,
           <<"zeroCount", "clearMode", "onLockoutCleared", "abortTimer">>,
           <<"hbmOff", "goodixOff", "onChallengeRevoked">>}
    BY <1>4 DEF cancel, resetLockout, revokeChallenge
  <2>2. {"hbmOff", "goodixOff", "uiNotReady", "devCancel", "zeroCount", "clearMode",
         "onLockoutCleared", "abortTimer", "onChallengeRevoked"} \subseteq Dull
    BY DullCalls DEF Callbacks, LockoutCallbacks, TrackerStores
  <2>3. /\ <<"hbmOff", "goodixOff", "uiNotReady", "devCancel">> \in Seq(Dull)
        /\ <<"zeroCount", "clearMode", "onLockoutCleared", "abortTimer">> \in Seq(Dull)
        /\ <<"hbmOff", "goodixOff", "onChallengeRevoked">> \in Seq(Dull)
    BY <2>2, ShortSeqs
  <2>4. TaskCode[task] \in Seq(Dull)
    BY <2>1, <2>3
  <2> HIDE DEF TaskCode
  <2> QED
    BY <1>4, <2>4, DullSeqs
<1>5. CASE task \in {"generateChallenge", "detectInteraction", "enumerateEnrollments",
                    "removeEnrollments", "invalidateAuthenticatorId", "getAuthenticatorId",
                    "onPointerUp"}
  <2>1. TaskCode[task] \in
          {<<"onChallengeGenerated">>, <<"onError">>, <<"devEnumerate">>, <<"devRemove">>,
           <<"onAuthenticatorIdInvalidated">>, <<"onAuthenticatorIdRetrieved", "goodixOff">>,
           <<"goodixOff", "uiNotReady">>}
    BY <1>5 DEF generateChallenge, detectInteraction, enumerateEnrollments,
                removeEnrollments, invalidateAuthenticatorId, getAuthenticatorId, onPointerUp
  <2>2. {"onChallengeGenerated", "onError", "devEnumerate", "devRemove",
         "onAuthenticatorIdInvalidated", "onAuthenticatorIdRetrieved", "goodixOff",
         "uiNotReady"} \subseteq Dull
    BY DullCalls DEF Callbacks, DeviceQueries
  <2>3. /\ <<"onChallengeGenerated">> \in Seq(Dull) /\ <<"onError">> \in Seq(Dull)
        /\ <<"devEnumerate">> \in Seq(Dull) /\ <<"devRemove">> \in Seq(Dull)
        /\ <<"onAuthenticatorIdInvalidated">> \in Seq(Dull)
        /\ <<"onAuthenticatorIdRetrieved", "goodixOff">> \in Seq(Dull)
        /\ <<"goodixOff", "uiNotReady">> \in Seq(Dull)
    BY <2>2, ShortSeqs
  <2>4. TaskCode[task] \in Seq(Dull)
    BY <2>1, <2>3
  <2> HIDE DEF TaskCode
  <2> QED
    BY <1>5, <2>4, DullSeqs
<1> QED
  BY <1>1, <1>2, <1>3, <1>4, <1>5 DEF Tasks

\* What the vendor's messages start lights nothing.
LEMMA NotifyDull ==
    ASSUME NEW m \in Messages
    PROVE  NotifyCode[m] \in Seq(Dull) /\ <<m>> \in Seq(Dull)
<1>1. {"onError", "uiNotReady", "onAcquired", "onEnrollmentProgress",
       "onAuthenticationSucceeded", "zeroCount", "clearMode", "hbmOff", "goodixOff",
       "onAuthenticationFailed", "loadCount", "storeCount", "stampStart", "getMode"}
        \subseteq Dull
  BY DullCalls DEF Callbacks, LockoutCallbacks, TrackerStores
<1>2. /\ <<"onError", "uiNotReady">> \in Seq(Dull)
      /\ <<"onAcquired">> \in Seq(Dull)
      /\ <<"onEnrollmentProgress">> \in Seq(Dull)
      /\ <<"onAuthenticationSucceeded", "zeroCount", "clearMode", "hbmOff", "goodixOff",
           "uiNotReady">> \in Seq(Dull)
      /\ <<"onAuthenticationFailed", "loadCount", "storeCount", "stampStart", "getMode",
           "uiNotReady">> \in Seq(Dull)
  BY <1>1, ShortSeqs
<1>3. NotifyCode[m] \in
        {<<"onError", "uiNotReady">>, <<"onAcquired">>, <<"onEnrollmentProgress">>,
         <<"onAuthenticationSucceeded", "zeroCount", "clearMode", "hbmOff", "goodixOff",
           "uiNotReady">>,
         <<"onAuthenticationFailed", "loadCount", "storeCount", "stampStart", "getMode",
           "uiNotReady">>}
  BY DEF NotifyCode, Messages
<1>4. m \in Dull
  BY DullCalls
<1>5. <<m>> \in Seq(Dull)
  BY <1>4
<1> QED
  BY <1>2, <1>3, <1>5, Zenon

\* Taking the first task: the close to come is the one taken or still to come.
LEMMA TakingDark ==
    ASSUME NEW q \in Seq([task : Tasks, s : Sessions]), q # << >>, NEW s
    PROVE  /\ DarkAfter(q, 0) => DarkAfter(Tail(q), 0) /\ Head(q).task \notin LightingTasks
           /\ CloseAhead(q, s) => \/ CloseAhead(Tail(q), s)
                                  \/ Head(q).task = "close" /\ DarkAfter(Tail(q), 0)
<1>1. /\ Len(Tail(q)) = Len(q) - 1 /\ Len(q) \in Nat /\ 1 \in 1..Len(q)
      /\ Head(q) = q[1]
      /\ \A i \in 1..Len(Tail(q)) : Tail(q)[i] = q[i + 1] /\ i + 1 \in 1..Len(q)
  OBVIOUS
<1>2. ASSUME NEW i \in 0..Len(q), NEW k \in Nat, i <= k + 1, DarkAfter(q, i)
      PROVE  DarkAfter(Tail(q), k)
  BY <1>1, <1>2 DEF DarkAfter
<1>3. ASSUME DarkAfter(q, 0)
      PROVE  DarkAfter(Tail(q), 0) /\ Head(q).task \notin LightingTasks
  <2>1. DarkAfter(Tail(q), 0)
    BY <1>1, <1>2, <1>3
  <2> QED
    BY <1>1, <1>3, <2>1 DEF DarkAfter
<1>4. ASSUME CloseAhead(q, s)
      PROVE  CloseAhead(Tail(q), s) \/ (Head(q).task = "close" /\ DarkAfter(Tail(q), 0))
  <2>1. PICK i \in 1..Len(q) : q[i] = [task |-> "close", s |-> s] /\ DarkAfter(q, i)
    BY <1>4 DEF CloseAhead
  <2>2. CASE i = 1
    <3>1. DarkAfter(Tail(q), 0)
      BY <1>1, <1>2, <2>1, <2>2
    <3> QED
      BY <1>1, <2>1, <2>2, <3>1
  <2>3. CASE i # 1
    <3>1. i - 1 \in 1..Len(Tail(q)) /\ (i - 1) + 1 = i /\ i - 1 \in Nat /\ i \in 0..Len(q)
      BY <1>1, <2>3
    <3>2. Tail(q)[i - 1] = [task |-> "close", s |-> s]
      BY <1>1, <2>1, <3>1
    <3>3. DarkAfter(Tail(q), i - 1)
      BY <1>2, <2>1, <3>1
    <3> QED
      BY <3>1, <3>2, <3>3 DEF CloseAhead
  <2> QED
    BY <2>2, <2>3
<1> QED
  BY <1>3, <1>4

\* The worker starts the oldest task.
LEMMA TakeTaskLInv ==
    ASSUME IInv, LInv, TakeTask
    PROVE  LInv'
<1>1. /\ queue \in Seq([task : Tasks, s : Sessions]) /\ queue # << >>
      /\ code \in [Threads -> Seq(Calls)] /\ self \in [Threads -> 0..MaxSessions]
      /\ code["worker"] = << >>
      /\ "worker" \in Threads /\ "binder" \in Threads
  BY DEF IInv, TypeOK, TakeTask, Idle, Threads
<1>2. Head(queue).task \in Tasks
  <2>1. Head(queue) \in [task : Tasks, s : Sessions]
    BY <1>1, HeadOfSeq
  <2> QED
    BY <2>1
<1> DEFINE k == Head(queue).task
<1>3. /\ code'["worker"] = TaskCode[k]
      /\ \A u \in Threads \ {"worker"} : code'[u] = code[u]
      /\ self'["binder"] = self["binder"]
      /\ queue' = Tail(queue)
      /\ UNCHANGED <<cur, session, hbm, goodix, dropped>>
  BY <1>1 DEF TakeTask, Continue
<1> HIDE DEF k
<1>4. k \in Tasks
  BY <1>2 DEF k
<1>5. code'["binder"] = code["binder"]
  BY <1>1, <1>3
<1>6. Over' <=> Over
  BY <1>3, <1>5 DEF Over
<1>7. BinderOrderly' /\ FreshOpen'
  BY <1>3, <1>5, <1>6 DEF LInv, BinderOrderly, At, FreshOpen
<1>8. OthersDull'
  <2>1. code'["worker"] \in Seq(Dull \cup Lights)
    BY <1>3, <1>4, TaskDull
  <2> QED
    BY <1>3, <2>1 DEF LInv, OthersDull
<1>9. DarkAhead'
  <2> SUFFICES ASSUME Over PROVE cur \in dropped \/ CloseAhead(queue', cur) \/ Darkening'
    BY <1>3, <1>6 DEF DarkAhead
  <2>1. cur \in dropped \/ CloseAhead(queue, cur) \/ Darkening
    BY DEF LInv, DarkAhead
  <2>2. /\ DarkAfter(queue, 0) => DarkAfter(queue', 0) /\ k \notin LightingTasks
        /\ CloseAhead(queue, cur) => \/ CloseAhead(queue', cur)
                                     \/ k = "close" /\ DarkAfter(queue', 0)
    BY <1>1, <1>3, TakingDark DEF k
  <2>3. CASE Darkening
    <3>1. ~HasCall(code["worker"], "hbmOff") /\ ~HasCall(code["worker"], "goodixOff")
      BY <1>1 DEF HasCall
    <3>2. hbm = FALSE /\ goodix = 0
      BY <2>3, <3>1 DEF Darkening, IInv, TypeOK
    <3>3. DarkAfter(queue', 0) /\ TaskCode[k] \in Seq(Dull)
      BY <1>4, <2>2, <2>3, TaskDull DEF Darkening
    <3> QED
      BY <1>3, <3>2, <3>3 DEF Darkening
  <2>4. CASE k = "close" /\ DarkAfter(queue', 0)
    <3>1. /\ TaskCode[k] \in Seq(Dull)
          /\ HasCall(TaskCode[k], "hbmOff") /\ HasCall(TaskCode[k], "goodixOff")
      BY <1>4, <2>4, TaskDull DEF LightingTasks
    <3> QED
      BY <1>3, <2>4, <3>1 DEF Darkening
  <2> QED
    BY <2>1, <2>2, <2>3, <2>4
<1> QED
  BY <1>7, <1>8, <1>9 DEF LInv

\* A message of the vendor's arrives or is delivered.
LEMMA NotifyLInv ==
    ASSUME IInv, LInv, NEW m \in Messages, Notify(m) \/ Deliver(m)
    PROVE  LInv'
<1>1. /\ code \in [Threads -> Seq(Calls)] /\ self \in [Threads -> 0..MaxSessions]
      /\ {"notify", "binder", "worker"} \subseteq Threads
  BY DEF IInv, TypeOK, Threads
<1>2. UNCHANGED <<cur, session, queue, hbm, goodix, dropped>>
  BY DEF Notify, Deliver
<1>3. /\ \A u \in Threads \ {"notify"} : code'[u] = code[u]
      /\ self'["binder"] = self["binder"]
      /\ code'["notify"] \in {code["notify"], <<m>>, NotifyCode[m]}
  BY <1>1 DEF Notify, Deliver, Continue
<1>4. code'["notify"] \in Seq(Dull)
  <2>1. code["notify"] \in Seq(Dull)
    BY <1>1 DEF LInv, OthersDull
  <2> QED
    BY <1>3, <2>1, NotifyDull
<1>5. /\ code'["notify"] \in Seq(Dull)
      /\ code["notify"] \in Seq(Dull)
      /\ code["notify"] \in Seq(Dull \cup Lights) => code'["notify"] \in Seq(Dull \cup Lights)
  BY <1>1, <1>4, DullSeqs DEF LInv, OthersDull
<1>6. DarkStep("notify")
  BY <1>2, <1>3, <1>5 DEF DarkStep
<1> QED
  BY <1>1, <1>6, DarkStepLInv

\* A call of the framework starts on the binder thread.
LEMMA FrameworkCallLInv ==
    ASSUME IInv, LInv, NEW op \in Ops, NEW s \in Sessions, FrameworkCall(op, s)
    PROVE  LInv'
<1>1. /\ code \in [Threads -> Seq(Calls)] /\ self \in [Threads -> 0..MaxSessions]
      /\ {"binder", "worker"} \subseteq Threads
      /\ cur \in 0..MaxSessions /\ TypeOK /\ DarkAhead
  BY DEF IInv, TypeOK, Threads, LInv
<1>2. UNCHANGED <<cur, session, queue, hbm, goodix, dropped>>
  BY DEF FrameworkCall
<1>3. /\ code'["binder"] = BinderCode(op)
      /\ \A u \in Threads \ {"binder"} : code'[u] = code[u]
      /\ self'["binder"] = s
      /\ code["binder"] = << >>
      /\ s <= cur
      /\ op # "cancel" => s = cur /\ ~session[s].mClosed
  BY <1>1 DEF FrameworkCall, Continue, Idle
<1>4. code'["worker"] = code["worker"]
  BY <1>1, <1>3
<1>5. cur # 0 /\ (Over => op = "cancel")
  BY <1>1, <1>3, BoundsAssumption, RestsDiffer DEF Sessions, Over
<1>6. \/ /\ op \in Tasks \ {"close"}
         /\ BinderCode(op) \in {<<op>>, <<"uiNotReady", "authenticate">>}
         /\ op = "cancel" => BinderCode(op) = <<"cancel">>
      \/ op = "close" /\ BinderCode(op) = <<"close", "markClosed", "onSessionClosed">>
      \/ op = "onUiReady" /\ BinderCode(op) = <<"hbmOn", "uiReady">>
  BY DEF BinderCode, Ops, Tasks
<1>7. /\ BinderCode(op) \in BinderRests
      /\ BinderCode(op) # Closing
      /\ op = "cancel" => BinderCode(op) \in LastRests
  <2>1. op \in Tasks \ {"close"} => <<op>> \in BinderRests /\ <<op>> # Closing
    BY RestsDiffer
  <2>2. {<<"uiNotReady", "authenticate">>, <<"close", "markClosed", "onSessionClosed">>,
         <<"hbmOn", "uiReady">>} \subseteq BinderRests
    BY DEF BinderRests
  <2> QED
    BY <1>6, <2>1, <2>2, RestsDiffer
<1>8. Over' <=> Over
  BY <1>2, <1>3, <1>7, RestsDiffer DEF Over
<1>9. BinderOrderly'
  <2>1. At("binder", "close")' \/ At("binder", "markClosed")' => op # "cancel"
    <3>1. Head(<<"cancel">>) = "cancel"
      OBVIOUS
    <3> QED
      BY <1>3, <1>6, <3>1 DEF At
  <2> QED
    BY <1>2, <1>3, <1>5, <1>7, <1>8, <2>1 DEF BinderOrderly
<1>10. OthersDull' /\ FreshOpen'
  BY <1>2, <1>3, <1>4 DEF LInv, OthersDull, FreshOpen
<1>11. DarkAhead'
  <2>1. StaysDark /\ GrowsDark(queue, queue') /\ dropped \subseteq dropped'
    BY <1>2, <1>4 DEF StaysDark, GrowsDark
  <2> QED
    BY <1>1, <1>2, <1>8, <2>1, DarkKept
<1> QED
  BY <1>9, <1>10, <1>11 DEF LInv

\* A new session is open; the clock and a stutter change nothing here.
LEMMA QuietLInv ==
    ASSUME IInv, LInv, CreateSession \/ Tick \/ UNCHANGED vars
    PROVE  LInv'
<1>1. UNCHANGED <<session, queue, code, self, hbm, goodix, dropped>>
  BY DEF CreateSession, Tick, vars, threads, inputs
<1>2. OthersDull'
  BY <1>1 DEF LInv, OthersDull
<1>3. CASE CreateSession
  <2>1. cur' = cur + 1 /\ code["binder"] = << >> /\ cur < MaxSessions /\ cur \in 0..MaxSessions
    BY <1>3 DEF CreateSession, Idle, IInv, TypeOK
  <2>2. cur' \in Sessions /\ cur' > cur /\ cur' # 0
    BY <2>1, BoundsAssumption DEF Sessions
  <2>3. ~session[cur'].mClosed
    BY <2>2 DEF LInv, FreshOpen
  <2>4. ~Over'
    BY <1>1, <2>1, <2>2, <2>3, RestsDiffer DEF Over
  <2>5. BinderOrderly' /\ DarkAhead'
    BY <1>1, <2>1, <2>4, RestsDiffer DEF BinderOrderly, DarkAhead, At
  <2>6. FreshOpen'
    <3>1. \A s \in Sessions : s > cur' => s > cur
      BY <2>1 DEF Sessions
    <3> QED
      BY <1>1, <3>1 DEF LInv, FreshOpen
  <2> QED
    BY <1>2, <2>5, <2>6 DEF LInv
<1>4. CASE Tick \/ UNCHANGED vars
  <2>1. cur' = cur
    BY <1>4 DEF Tick, vars
  <2> QED
    BY <1>1, <2>1 DEF LInv, BinderOrderly, OthersDull, FreshOpen, DarkAhead, Darkening, Over, At
<1> QED
  BY <1>3, <1>4

\* Before the first session nothing is lit, queued or running.
LEMMA InitLInv == Init => LInv
<1> SUFFICES ASSUME Init PROVE LInv
  OBVIOUS
<1>1. /\ cur = 0 /\ queue = << >> /\ hbm = FALSE /\ goodix = 0
      /\ \A t \in Threads : code[t] = << >>
      /\ {"binder", "worker"} \subseteq Threads
  BY DEF Init, Threads
<1>2. << >> \in Seq(Dull) /\ << >> \in Seq(Dull \cup Lights)
  OBVIOUS
<1>3. BinderOrderly
  BY <1>1, RestsDiffer DEF BinderOrderly, At
<1>4. OthersDull
  BY <1>1, <1>2 DEF OthersDull
<1>5. FreshOpen
  BY DEF Init, NewSession, FreshOpen
<1>6. DarkAhead
  <2>1. DarkAfter(queue, 0)
    BY <1>1 DEF DarkAfter
  <2> QED
    BY <1>1, <1>2, <2>1 DEF DarkAhead, Darkening
<1> QED
  BY <1>3, <1>4, <1>5, <1>6 DEF LInv

\* Every step keeps it.
LEMMA NextLInv ==
    ASSUME IInv, LInv, [Next]_vars
    PROVE  LInv'
<1>1. ASSUME NEW op \in Ops, NEW s \in Sessions, FrameworkCall(op, s) PROVE LInv'
  BY <1>1, FrameworkCallLInv
<1>2. CASE TakeTask
  BY <1>2, TakeTaskLInv
<1>3. ASSUME NEW m \in Messages, Notify(m) \/ Deliver(m) PROVE LInv'
  BY <1>3, NotifyLInv
<1>4. CASE CreateSession \/ Tick \/ UNCHANGED vars
  BY <1>4, QuietLInv
<1>5. ASSUME NEW t \in Threads, Step(t) PROVE LInv'
  <2>1. CASE t = "binder"
    BY <1>5, <2>1, BinderStepLInv
  <2>2. CASE t # "binder"
    <3>1. OthersDull /\ t \in Threads \ {"binder"}
      BY <2>2 DEF LInv
    <3> QED
      BY <1>5, <3>1, StepDark, DarkStepLInv
  <2> QED
    BY <2>1, <2>2
<1> QED
  BY <1>1, <1>2, <1>3, <1>4, <1>5 DEF Next

\* With no open session the panel is not left bright nor the sensor armed,
\* unless the close task that puts them out is still to run or was discarded by
\* a full queue: in every interleaving of Session's requests, the worker's
\* tasks, the vendor's messages and the timers.
THEOREM LightsGoOut == Spec => []NeverLitUnattended
<1>1. IInv /\ LInv => NeverLitUnattended
  <2> SUFFICES ASSUME IInv, LInv, ~IsOpen PROVE NeverLitUnattended
    BY DEF NeverLitUnattended
  <2>1. Over
    BY BoundsAssumption DEF IsOpen, Over, IInv, TypeOK
  <2>2. cur \in dropped \/ CloseAhead(queue, cur) \/ Darkening
    BY <2>1 DEF LInv, DarkAhead
  <2> QED
    BY <2>2 DEF NeverLitUnattended, CloseAhead, Darkening, Has, HasCall
<1>2. IInv /\ LInv /\ [Next]_vars => LInv'
  BY NextLInv
<1> QED
  BY <1>1, <1>2, InitLInv, SpecIInv, PTL DEF Spec

-----------------------------------------------------------------------------
(* The lockout, when handlers do not overlap: what a session's fields are   *)
(* while a handler has a given rest of calls to make.                       *)

Perm(r) == r.mFailedCount >= LOCKOUT_PERMANENT_THRESHOLD

\* The mode is the counter's.
Agree(r) == Perm(r) <=> r.mCurrentMode = "PERMANENT"

\* The framework knows the mode.
Informed(r) == /\ r.mCurrentMode = "PERMANENT" <=> r.told = "PERMANENT"
               /\ r.mCurrentMode = "TIMED" => r.told = "TIMED"

\* A timer that is out over a permanent lockout will not lift it.
Held(r) == r.mIsLockoutTimerStarted /\ Perm(r) => r.mIsLockoutTimerAborted

Settled(r) == Agree(r) /\ Informed(r) /\ Held(r)

\* The calls that touch the lockout or wait, and the others.
LockoutCalls == LockoutCallbacks \cup TrackerStores
    \cup {"waitUiReady", "sleep", "goodixOn", "loadCount", "getMode", "getTimeLeft",
          "testStarted", "testAborted", "spawnTimer", "abortTimer", "unabortTimer",
          "timerStarted", "timerStopped", "onAuthenticationFailed"}
Unrelated == Calls \ LockoutCalls

\* What follows checkSensorLockout, on the worker and on the notify thread.
Ends == {<< >>, <<"uiNotReady">>}

\* What is left of a pointer-down, and of the check it shares with a failure.
Pointing == <<"goodixOn", "getMode">>
Checking == {<<"stampStart", "getMode", "uiNotReady">>, <<"getMode", "uiNotReady">>,
             <<"getMode">>}
Elapsed == {<<"clearMode">>, <<"clearMode", "uiNotReady">>}
Timed == {<<"hbmOff", "goodixOff", "getTimeLeft", "onLockoutTimed", "testStarted">>,
          <<"goodixOff", "getTimeLeft", "onLockoutTimed", "testStarted">>,
          <<"getTimeLeft", "onLockoutTimed", "testStarted">>,
          <<"onLockoutTimed", "testStarted">>,
          <<"hbmOff", "goodixOff", "getTimeLeft", "onLockoutTimed", "testStarted",
            "uiNotReady">>,
          <<"goodixOff", "getTimeLeft", "onLockoutTimed", "testStarted", "uiNotReady">>,
          <<"getTimeLeft", "onLockoutTimed", "testStarted", "uiNotReady">>,
          <<"onLockoutTimed", "testStarted", "uiNotReady">>}
Testing == {<<"testStarted">>, <<"testStarted", "uiNotReady">>}
Starting == {<<"unabortTimer", "spawnTimer", "timerStarted">>,
             <<"spawnTimer", "timerStarted">>,
             <<"unabortTimer", "spawnTimer", "timerStarted", "uiNotReady">>,
             <<"spawnTimer", "timerStarted", "uiNotReady">>}
Started == {<<"timerStarted">>, <<"timerStarted", "uiNotReady">>}
Permanent == {<<"hbmOff", "goodixOff", "onLockoutPermanent", "abortTimer">>,
              <<"goodixOff", "onLockoutPermanent", "abortTimer">>,
              <<"onLockoutPermanent", "abortTimer">>,
              <<"hbmOff", "goodixOff", "onLockoutPermanent", "abortTimer", "uiNotReady">>,
              <<"goodixOff", "onLockoutPermanent", "abortTimer", "uiNotReady">>,
              <<"onLockoutPermanent", "abortTimer", "uiNotReady">>}
Aborting == {<<"abortTimer">>, <<"abortTimer", "uiNotReady">>}

\* What is left of a failure, of a reset, of a success and of an expired timer.
Failed1 == <<"onAuthenticationFailed", "loadCount", "storeCount", "stampStart",
             "getMode", "uiNotReady">>
Failed2 == <<"loadCount", "storeCount", "stampStart", "getMode", "uiNotReady">>
Failed3 == <<"storeCount", "stampStart", "getMode", "uiNotReady">>
Reset1 == <<"zeroCount", "clearMode", "onLockoutCleared", "abortTimer">>
Reset2 == <<"clearMode", "onLockoutCleared", "abortTimer">>
Reset3 == <<"onLockoutCleared", "abortTimer">>
Success1 == <<"onAuthenticationSucceeded", "zeroCount", "clearMode", "hbmOff",
              "goodixOff", "uiNotReady">>
Success2 == <<"zeroCount", "clearMode", "hbmOff", "goodixOff", "uiNotReady">>
Success3 == <<"clearMode", "hbmOff", "goodixOff", "uiNotReady">>
Expiring == <<"testAborted">>
Expired1 == <<"clearMode", "onLockoutCleared", "timerStopped", "unabortTimer">>
Expired2 == <<"onLockoutCleared", "timerStopped", "unabortTimer">>
Expired3 == <<"timerStopped", "unabortTimer">>
Expired4 == <<"unabortTimer">>

\* The fields r of a session while a handler on the worker or the notify thread
\* has c left to make for it, having read v.
HandlerOwes(c, r, v) ==
    \/ c \in Seq(Unrelated) /\ Settled(r)
    \/ c \in {Pointing, Failed1, Failed2, Reset1, Success1} /\ Settled(r)
    \/ c = Failed3 /\ Settled(r) /\ v = r.mFailedCount + 1
    \/ c \in Checking /\ Agree(r) /\ (r.told = "PERMANENT" => r.mCurrentMode = "PERMANENT")
    \/ c \in Elapsed /\ ~Perm(r) /\ r.told # "PERMANENT"
    \/ c \in Timed /\ ~Perm(r) /\ r.mCurrentMode = "TIMED"
    \/ c \in Testing /\ ~Perm(r) /\ r.mCurrentMode = "TIMED" /\ r.told = "TIMED"
    \/ /\ c \in Starting \cup Started /\ ~Perm(r) /\ r.mCurrentMode = "TIMED"
       /\ r.told = "TIMED" /\ ~r.mIsLockoutTimerStarted
    \/ c \in Permanent /\ Perm(r) /\ r.mCurrentMode = "PERMANENT"
    \/ c \in Aborting /\ Agree(r) /\ Informed(r)
    \/ c = Reset2 /\ ~Perm(r)
    \/ c = Reset3 /\ ~Perm(r) /\ r.mCurrentMode = "NONE"
    \/ c = Success2 /\ r.told = "NONE"
    \/ c = Success3 /\ r.told = "NONE" /\ ~Perm(r)

\* The same of a timer.
TimerOwes(c, r) ==
    \/ c \in {Expiring, Expired3} /\ Settled(r)
    \/ c = Expired1 /\ ~Perm(r)
    \/ c = Expired2 /\ ~Perm(r) /\ r.mCurrentMode = "NONE"
    \/ c = Expired4 /\ Settled(r) /\ ~r.mIsLockoutTimerStarted

Owed(t, c, r, v) ==
    \/ c = << >> /\ Settled(r)
    \/ t \notin Timers /\ HandlerOwes(c, r, v)
    \/ t \in Timers /\ TimerOwes(c, r)

\* How the rests of the handlers begin, and what a call leaves of them.
LEMMA CheckRests ==
    /\ \A c \in Checking : \/ Head(c) = "stampStart" /\ Tail(c) \in Checking
                           \/ Head(c) = "getMode" /\ Tail(c) \in Ends
    /\ \A c \in Elapsed : Head(c) = "clearMode" /\ Tail(c) \in Ends
    /\ \A c \in Timed : \/ Head(c) \in {"hbmOff", "goodixOff", "getTimeLeft"} /\ Tail(c) \in Timed
                        \/ Head(c) = "onLockoutTimed" /\ Tail(c) \in Testing
    /\ \A c \in Testing : Head(c) = "testStarted" /\ Tail(c) \in Ends
    /\ \A c \in Starting : \/ Head(c) = "unabortTimer" /\ Tail(c) \in Starting
                           \/ Head(c) = "spawnTimer" /\ Tail(c) \in Started
    /\ \A c \in Started : Head(c) = "timerStarted" /\ Tail(c) \in Ends
    /\ \A c \in Permanent : \/ Head(c) \in {"hbmOff", "goodixOff"} /\ Tail(c) \in Permanent
                            \/ Head(c) = "onLockoutPermanent" /\ Tail(c) \in Aborting
    /\ \A c \in Aborting : Head(c) = "abortTimer" /\ Tail(c) \in Ends
<1>1. ASSUME NEW c \in Checking
      PROVE  \/ Head(c) = "stampStart" /\ Tail(c) \in Checking
             \/ Head(c) = "getMode" /\ Tail(c) \in Ends
  <2>1. CASE c = <<"stampStart", "getMode", "uiNotReady">>
    BY <2>1 DEF Checking, Ends
  <2>2. CASE c = <<"getMode", "uiNotReady">>
    BY <2>2 DEF Checking, Ends
  <2>3. CASE c = <<"getMode">>
    BY <2>3 DEF Checking, Ends
  <2> QED
    BY <2>1, <2>2, <2>3 DEF Checking
<1>2. ASSUME NEW c \in Elapsed
      PROVE  Head(c) = "clearMode" /\ Tail(c) \in Ends
  <2>1. CASE c = <<"clearMode">>
    BY <2>1 DEF Ends
  <2>2. CASE c = <<"clearMode", "uiNotReady">>
    BY <2>2 DEF Ends
  <2> QED
    BY <2>1, <2>2 DEF Elapsed
<1>3. ASSUME NEW c \in Timed
      PROVE  \/ Head(c) \in {"hbmOff", "goodixOff", "getTimeLeft"} /\ Tail(c) \in Timed
             \/ Head(c) = "onLockoutTimed" /\ Tail(c) \in Testing
  <2>1. CASE c = <<"hbmOff", "goodixOff", "getTimeLeft", "onLockoutTimed", "testStarted">>
    BY <2>1 DEF Timed, Testing
  <2>2. CASE c = <<"goodixOff", "getTimeLeft", "onLockoutTimed", "testStarted">>
    BY <2>2 DEF Timed, Testing
  <2>3. CASE c = <<"getTimeLeft", "onLockoutTimed", "testStarted">>
    BY <2>3 DEF Timed, Testing
  <2>4. CASE c = <<"onLockoutTimed", "testStarted">>
    BY <2>4 DEF Timed, Testing
  <2>5. CASE c = <<"hbmOff", "goodixOff", "getTimeLeft", "onLockoutTimed", "testStarted", "uiNotReady">>
    BY <2>5 DEF Timed, Testing
  <2>6. CASE c = <<"goodixOff", "getTimeLeft", "onLockoutTimed", "testStarted", "uiNotReady">>
    BY <2>6 DEF Timed, Testing
  <2>7. CASE c = <<"getTimeLeft", "onLockoutTimed", "testStarted", "uiNotReady">>
    BY <2>7 DEF Timed, Testing
  <2>8. CASE c = <<"onLockoutTimed", "testStarted", "uiNotReady">>
    BY <2>8 DEF Timed, Testing
  <2> QED
    BY <2>1, <2>2, <2>3, <2>4, <2>5, <2>6, <2>7, <2>8 DEF Timed
<1>4. ASSUME NEW c \in Testing
      PROVE  Head(c) = "testStarted" /\ Tail(c) \in Ends
  <2>1. CASE c = <<"testStarted">>
    BY <2>1 DEF Ends
  <2>2. CASE c = <<"testStarted", "uiNotReady">>
    BY <2>2 DEF Ends
  <2> QED
    BY <2>1, <2>2 DEF Testing
<1>5. ASSUME NEW c \in Starting
      PROVE  \/ Head(c) = "unabortTimer" /\ Tail(c) \in Starting
             \/ Head(c) = "spawnTimer" /\ Tail(c) \in Started
  <2>1. CASE c = <<"unabortTimer", "spawnTimer", "timerStarted">>
    BY <2>1 DEF Starting, Started
  <2>2. CASE c = <<"spawnTimer", "timerStarted">>
    BY <2>2 DEF Starting, Started
  <2>3. CASE c = <<"unabortTimer", "spawnTimer", "timerStarted", "uiNotReady">>
    BY <2>3 DEF Starting, Started
  <2>4. CASE c = <<"spawnTimer", "timerStarted", "uiNotReady">>
    BY <2>4 DEF Starting, Started
  <2> QED
    BY <2>1, <2>2, <2>3, <2>4 DEF Starting
<1>6. ASSUME NEW c \in Started
      PROVE  Head(c) = "timerStarted" /\ Tail(c) \in Ends
  <2>1. CASE c = <<"timerStarted">>
    BY <2>1 DEF Ends
  <2>2. CASE c = <<"timerStarted", "uiNotReady">>
    BY <2>2 DEF Ends
  <2> QED
    BY <2>1, <2>2 DEF Started
<1>7. ASSUME NEW c \in Permanent
      PROVE  \/ Head(c) \in {"hbmOff", "goodixOff"} /\ Tail(c) \in Permanent
             \/ Head(c) = "onLockoutPermanent" /\ Tail(c) \in Aborting
  <2>1. CASE c = <<"hbmOff", "goodixOff", "onLockoutPermanent", "abortTimer">>
    BY <2>1 DEF Permanent, Aborting
  <2>2. CASE c = <<"goodixOff", "onLockoutPermanent", "abortTimer">>
    BY <2>2 DEF Permanent, Aborting
  <2>3. CASE c = <<"onLockoutPermanent", "abortTimer">>
    BY <2>3 DEF Permanent, Aborting
  <2>4. CASE c = <<"hbmOff", "goodixOff", "onLockoutPermanent", "abortTimer", "uiNotReady">>
    BY <2>4 DEF Permanent, Aborting
  <2>5. CASE c = <<"goodixOff", "onLockoutPermanent", "abortTimer", "uiNotReady">>
    BY <2>5 DEF Permanent, Aborting
  <2>6. CASE c = <<"onLockoutPermanent", "abortTimer", "uiNotReady">>
    BY <2>6 DEF Permanent, Aborting
  <2> QED
    BY <2>1, <2>2, <2>3, <2>4, <2>5, <2>6 DEF Permanent
<1>8. ASSUME NEW c \in Aborting
      PROVE  Head(c) = "abortTimer" /\ Tail(c) \in Ends
  <2>1. CASE c = <<"abortTimer">>
    BY <2>1 DEF Ends
  <2>2. CASE c = <<"abortTimer", "uiNotReady">>
    BY <2>2 DEF Ends
  <2> QED
    BY <2>1, <2>2 DEF Aborting
<1> QED
  BY <1>1, <1>2, <1>3, <1>4, <1>5, <1>6, <1>7, <1>8

\* The same of those with one course.
LEMMA OtherRests ==
    /\ Head(Pointing) = "goodixOn" /\ Tail(Pointing) \in Checking
    /\ Head(Failed1) = "onAuthenticationFailed" /\ Tail(Failed1) = Failed2
    /\ Head(Failed2) = "loadCount" /\ Tail(Failed2) = Failed3
    /\ Head(Failed3) = "storeCount" /\ Tail(Failed3) \in Checking
    /\ Head(Reset1) = "zeroCount" /\ Tail(Reset1) = Reset2
    /\ Head(Reset2) = "clearMode" /\ Tail(Reset2) = Reset3
    /\ Head(Reset3) = "onLockoutCleared" /\ Tail(Reset3) \in Aborting
    /\ Head(Success1) = "onAuthenticationSucceeded" /\ Tail(Success1) = Success2
    /\ Head(Success2) = "zeroCount" /\ Tail(Success2) = Success3
    /\ Head(Success3) = "clearMode" /\ Tail(Success3) \in Seq(Unrelated)
    /\ Head(Expiring) = "testAborted"
    /\ Head(Expired1) = "clearMode" /\ Tail(Expired1) = Expired2
    /\ Head(Expired2) = "onLockoutCleared" /\ Tail(Expired2) = Expired3
    /\ Head(Expired3) = "timerStopped" /\ Tail(Expired3) = Expired4
    /\ Head(Expired4) = "unabortTimer" /\ Tail(Expired4) = << >>
    /\ Ends \subseteq Seq(Unrelated)
<1>1. {"hbmOff", "goodixOff", "uiNotReady"} \subseteq Unrelated
  BY DEF Unrelated, LockoutCalls, LockoutCallbacks, TrackerStores, Calls, Stores
<1>2. Head(Pointing) = "goodixOn" /\ Tail(Pointing) \in Checking
  BY DEF Pointing, Checking
<1>3. /\ Head(Failed1) = "onAuthenticationFailed" /\ Tail(Failed1) = Failed2
      /\ Head(Failed2) = "loadCount" /\ Tail(Failed2) = Failed3
      /\ Head(Failed3) = "storeCount" /\ Tail(Failed3) \in Checking
  BY DEF Failed1, Failed2, Failed3, Checking
<1>4. /\ Head(Reset1) = "zeroCount" /\ Tail(Reset1) = Reset2
      /\ Head(Reset2) = "clearMode" /\ Tail(Reset2) = Reset3
      /\ Head(Reset3) = "onLockoutCleared" /\ Tail(Reset3) \in Aborting
  BY DEF Reset1, Reset2, Reset3, Aborting
<1>5. /\ Head(Success1) = "onAuthenticationSucceeded" /\ Tail(Success1) = Success2
      /\ Head(Success2) = "zeroCount" /\ Tail(Success2) = Success3
  BY DEF Success1, Success2, Success3
<1>6. Head(Success3) = "clearMode" /\ Tail(Success3) \in Seq(Unrelated)
  <2>1. /\ Head(Success3) = "clearMode"
        /\ Tail(Success3) = <<"hbmOff", "goodixOff", "uiNotReady">>
    BY DEF Success3
  <2>2. <<"hbmOff", "goodixOff", "uiNotReady">> \in Seq(Unrelated)
    BY <1>1, ShortSeqs
  <2> QED
    BY <2>1, <2>2
<1>7. /\ Head(Expiring) = "testAborted"
      /\ Head(Expired1) = "clearMode" /\ Tail(Expired1) = Expired2
      /\ Head(Expired2) = "onLockoutCleared" /\ Tail(Expired2) = Expired3
      /\ Head(Expired3) = "timerStopped" /\ Tail(Expired3) = Expired4
      /\ Head(Expired4) = "unabortTimer" /\ Tail(Expired4) = << >>
  BY DEF Expiring, Expired1, Expired2, Expired3, Expired4
<1>8. Ends \subseteq Seq(Unrelated)
  BY <1>1 DEF Ends
<1> QED
  BY <1>2, <1>3, <1>4, <1>5, <1>6, <1>7, <1>8

\* Unrelated calls.
LEMMA UnrelatedRests ==
    ASSUME NEW c \in Seq(Unrelated), c # << >>
    PROVE  /\ Head(c) \in Unrelated /\ Tail(c) \in Seq(Unrelated)
           /\ Head(c) \notin LockoutCalls
  BY DEF Unrelated

\* What a call makes of the rest of a handler, of the fields of its session and of
\* the value its thread has read.
After(c, r, v, c1, r1, v1) ==
    /\ Head(c) \in Stores => c1 = Tail(c) /\ r1 = Stored(Head(c), r, v) /\ v1 = v
    /\ Head(c) \in TrackerStores => c1 = Tail(c) /\ r1 = TrackerStored(Head(c), r, v) /\ v1 = v
    /\ Head(c) = "getMode" => c1 = getMode(r) \o Tail(c) /\ r1 = r
    /\ Head(c) = "testStarted" =>
         /\ r1 = r
         /\ c1 = IF r.mIsLockoutTimerStarted THEN Tail(c) ELSE startLockoutTimer \o Tail(c)
    /\ Head(c) = "testAborted" =>
         r1 = r /\ c1 = lockoutTimerExpired(r.mIsLockoutTimerAborted)
    /\ Head(c) = "loadCount" => c1 = Tail(c) /\ r1 = r /\ v1 = r.mFailedCount + 1
    /\ Head(c) \in {"goodixOn", "hbmOff", "goodixOff", "getTimeLeft", "spawnTimer",
                    "onAuthenticationFailed"} => c1 = Tail(c) /\ r1 = r
    /\ Head(c) \in Unrelated \ Stores => r1 = r /\ c1 \in {Tail(c), <<"onError">>}

\* Nothing but spawning a timer leads to marking it started.
MarksSpawned(c, c1) ==
    c1 # << >> /\ Head(c1) = "timerStarted" => Head(c) = "spawnTimer"

\* What a store changes of a session's fields.
LEMMA StoresMade ==
    ASSUME NEW r \in SessionFields, NEW v
    PROVE  /\ Stored("abortTimer", r, v) = [r EXCEPT !.mIsLockoutTimerAborted = TRUE]
           /\ Stored("unabortTimer", r, v) = [r EXCEPT !.mIsLockoutTimerAborted = FALSE]
           /\ Stored("timerStarted", r, v) = [r EXCEPT !.mIsLockoutTimerStarted = TRUE]
           /\ Stored("timerStopped", r, v) = [r EXCEPT !.mIsLockoutTimerStarted = FALSE]
           /\ Stored("onLockoutTimed", r, v) = [r EXCEPT !.told = "TIMED"]
           /\ Stored("onLockoutPermanent", r, v) = [r EXCEPT !.told = "PERMANENT"]
           /\ Stored("onLockoutCleared", r, v) = [r EXCEPT !.told = "NONE"]
           /\ Stored("onAuthenticationSucceeded", r, v) = [r EXCEPT !.told = "NONE"]
           /\ TrackerStored("zeroCount", r, v) = [r EXCEPT !.mFailedCount = 0]
           /\ TrackerStored("clearMode", r, v) =
                [r EXCEPT !.mLockoutTimedStart = 0, !.mCurrentMode = "NONE"]
  BY DEF Stored, TrackerStored

\* The fields the lockout is about.
SameLockout(r, r1) ==
    /\ r1.mFailedCount = r.mFailedCount
    /\ r1.mCurrentMode = r.mCurrentMode
    /\ r1.told = r.told
    /\ r1.mIsLockoutTimerStarted = r.mIsLockoutTimerStarted
    /\ r1.mIsLockoutTimerAborted = r.mIsLockoutTimerAborted

\* Being settled depends on these fields only.
LEMMA SameSettled ==
    ASSUME NEW r, NEW r1, SameLockout(r, r1)
    PROVE  Settled(r) <=> Settled(r1)
  BY DEF SameLockout, Settled, Agree, Informed, Held, Perm

\* The gate and the closed flag have nothing to do with it.
LEMMA GateStores ==
    ASSUME NEW r \in SessionFields, NEW call \in {"uiReady", "uiNotReady", "markClosed"}, NEW v
    PROVE  SameLockout(r, Stored(call, r, v))
  BY DEF SameLockout, Stored, SessionFields

\* Rests after which all is settled.
LEMMA EndsOwe ==
    ASSUME NEW t, NEW c, NEW r, NEW v, t \notin Timers, c \in Seq(Unrelated), Settled(r)
    PROVE  Owed(t, c, r, v)
  BY DEF Owed, HandlerOwes

\* Unrelated calls mark no timer.
LEMMA UnrelatedNotMarking ==
    ASSUME NEW c, NEW d \in Seq(Unrelated)
    PROVE  MarksSpawned(c, d)
  BY UnrelatedRests DEF MarksSpawned, LockoutCalls

\* An unrelated call.
LEMMA UnrelatedNext ==
    ASSUME NEW t, t \notin Timers, NEW c \in Seq(Unrelated), c # << >>, NEW r \in SessionFields,
           NEW v, Settled(r), NEW c1, NEW r1, NEW v1, After(c, r, v, c1, r1, v1)
    PROVE  Owed(t, c1, r1, v1) /\ MarksSpawned(c, c1)
<1>1. /\ Head(c) \in Unrelated /\ Tail(c) \in Seq(Unrelated)
      /\ Head(c) \notin LockoutCalls
  BY UnrelatedRests
<1>2. "onError" \in Unrelated
  BY DEF Unrelated, Calls, Callbacks, LockoutCalls, LockoutCallbacks, TrackerStores
<1>3. <<"onError">> \in Seq(Unrelated)
  BY <1>2
<1>4. CASE Head(c) \in Stores
  <2>1. Head(c) \in {"uiReady", "uiNotReady", "markClosed"}
    BY <1>1, <1>4 DEF Stores, LockoutCalls
  <2>2. c1 = Tail(c) /\ r1 = Stored(Head(c), r, v)
    BY <1>4 DEF After
  <2>3. Settled(r1)
    BY <2>1, <2>2, GateStores, SameSettled
  <2> QED
    BY <1>1, <2>2, <2>3, EndsOwe, UnrelatedNotMarking
<1>5. CASE Head(c) \notin Stores
  <2>1. r1 = r /\ c1 \in Seq(Unrelated)
    BY <1>1, <1>3, <1>5 DEF After
  <2> QED
    BY <2>1, EndsOwe, UnrelatedNotMarking
<1> QED
  BY <1>4, <1>5

\* Two sequences with the same calls are the same.
LEMMA SameSeq ==
    ASSUME NEW S, NEW p \in Seq(S), NEW q \in Seq(S), Len(p) = Len(q),
           \A i \in 1..Len(p) : p[i] = q[i]
    PROVE  p = q
  OBVIOUS

\* One call more after one.
LEMMA ConcatOne ==
    ASSUME NEW a \in Calls, NEW x \in Calls
    PROVE  <<a>> \o <<x>> = <<a, x>>
<1> DEFINE p == <<a>> \o <<x>>
           q == <<a, x>>
<1>1. p \in Seq(Calls) /\ Len(p) = 2 /\ q \in Seq(Calls) /\ Len(q) = 2
  OBVIOUS
<1>2. p[1] = q[1] /\ p[2] = q[2]
  OBVIOUS
<1> HIDE DEF p, q
<1>3. \A i \in 1..2 : p[i] = q[i]
  BY <1>2
<1>4. p = q
  BY <1>1, <1>3, SameSeq
<1> QED
  BY <1>4 DEF p, q

\* After three.
LEMMA ConcatThree ==
    ASSUME NEW a \in Calls, NEW b \in Calls, NEW c \in Calls, NEW x \in Calls
    PROVE  <<a, b, c>> \o <<x>> = <<a, b, c, x>>
<1> DEFINE p == <<a, b, c>> \o <<x>>
           q == <<a, b, c, x>>
<1>1. p \in Seq(Calls) /\ Len(p) = 4 /\ q \in Seq(Calls) /\ Len(q) = 4
  OBVIOUS
<1>2. p[1] = q[1] /\ p[2] = q[2] /\ p[3] = q[3] /\ p[4] = q[4]
  OBVIOUS
<1> HIDE DEF p, q
<1>3. \A i \in 1..4 : p[i] = q[i]
  BY <1>2
<1>4. p = q
  BY <1>1, <1>3, SameSeq
<1> QED
  BY <1>4 DEF p, q

\* After four.
LEMMA ConcatFour ==
    ASSUME NEW a \in Calls, NEW b \in Calls, NEW c \in Calls, NEW d \in Calls, NEW x \in Calls
    PROVE  <<a, b, c, d>> \o <<x>> = <<a, b, c, d, x>>
<1> DEFINE p == <<a, b, c, d>> \o <<x>>
           q == <<a, b, c, d, x>>
<1>1. p \in Seq(Calls) /\ Len(p) = 5 /\ q \in Seq(Calls) /\ Len(q) = 5
  OBVIOUS
<1>2. p[1] = q[1] /\ p[2] = q[2] /\ p[3] = q[3] /\ p[4] = q[4] /\ p[5] = q[5]
  OBVIOUS
<1> HIDE DEF p, q
<1>3. \A i \in 1..5 : p[i] = q[i]
  BY <1>2
<1>4. p = q
  BY <1>1, <1>3, SameSeq
<1> QED
  BY <1>4 DEF p, q

\* After five.
LEMMA ConcatFive ==
    ASSUME NEW a \in Calls, NEW b \in Calls, NEW c \in Calls, NEW d \in Calls, NEW e \in Calls, NEW x \in Calls
    PROVE  <<a, b, c, d, e>> \o <<x>> = <<a, b, c, d, e, x>>
<1> DEFINE p == <<a, b, c, d, e>> \o <<x>>
           q == <<a, b, c, d, e, x>>
<1>1. p \in Seq(Calls) /\ Len(p) = 6 /\ q \in Seq(Calls) /\ Len(q) = 6
  OBVIOUS
<1>2. p[1] = q[1] /\ p[2] = q[2] /\ p[3] = q[3] /\ p[4] = q[4] /\ p[5] = q[5] /\ p[6] = q[6]
  OBVIOUS
<1> HIDE DEF p, q
<1>3. \A i \in 1..6 : p[i] = q[i]
  BY <1>2
<1>4. p = q
  BY <1>1, <1>3, SameSeq
<1> QED
  BY <1>4 DEF p, q


\* The rests of checkSensorLockout, once the mode is known.
LEMMA CheckedRests ==
    ASSUME NEW d \in Ends
    PROVE  /\ <<"clearMode">> \o d \in Elapsed
           /\ checkSensorLockout["NONE"] \o d = d
           /\ checkSensorLockout["TIMED"] \o d \in Timed
           /\ checkSensorLockout["PERMANENT"] \o d \in Permanent
           /\ startLockoutTimer \o d \in Starting
<1> USE DEF checkSensorLockout, startLockoutTimer
<1>0. {"clearMode", "uiNotReady", "hbmOff", "goodixOff", "getTimeLeft", "onLockoutTimed",
       "testStarted", "onLockoutPermanent", "abortTimer", "unabortTimer", "spawnTimer",
       "timerStarted"} \subseteq Calls
  BY DEF Calls, Stores, TrackerStores, LockoutCallbacks
<1>1. CASE d = << >>
  BY <1>1 DEF Elapsed, Timed, Permanent, Starting
<1>2. CASE d = <<"uiNotReady">>
  <2>1. <<"clearMode">> \o d = <<"clearMode", "uiNotReady">>
    BY <1>0, <1>2, ConcatOne
  <2>2. checkSensorLockout["NONE"] \o d = d
    BY <1>2
  <2>3. checkSensorLockout["TIMED"] \o d
          = <<"hbmOff", "goodixOff", "getTimeLeft", "onLockoutTimed", "testStarted",
              "uiNotReady">>
    <3>1. checkSensorLockout["TIMED"]
            = <<"hbmOff", "goodixOff", "getTimeLeft", "onLockoutTimed", "testStarted">>
      OBVIOUS
    <3> HIDE DEF checkSensorLockout
    <3>2. /\ "hbmOff" \in Calls /\ "goodixOff" \in Calls /\ "getTimeLeft" \in Calls
          /\ "onLockoutTimed" \in Calls /\ "testStarted" \in Calls /\ "uiNotReady" \in Calls
      BY <1>0
    <3>3. <<"hbmOff", "goodixOff", "getTimeLeft", "onLockoutTimed", "testStarted">>
            \o <<"uiNotReady">>
          = <<"hbmOff", "goodixOff", "getTimeLeft", "onLockoutTimed", "testStarted",
              "uiNotReady">>
      BY <3>2, ConcatFive, SMTT(30)
    <3> QED
      BY <1>2, <3>1, <3>3, Zenon
  <2>4. checkSensorLockout["PERMANENT"] \o d
          = <<"hbmOff", "goodixOff", "onLockoutPermanent", "abortTimer", "uiNotReady">>
    BY <1>0, <1>2, ConcatFour
  <2>5. startLockoutTimer \o d = <<"unabortTimer", "spawnTimer", "timerStarted", "uiNotReady">>
    BY <1>0, <1>2, ConcatThree
  <2> HIDE DEF checkSensorLockout, startLockoutTimer
  <2> QED
    BY <2>1, <2>2, <2>3, <2>4, <2>5, Zenon DEF Elapsed, Timed, Permanent, Starting
<1> QED
  BY <1>1, <1>2 DEF Ends

\* What none of these begin with.
LEMMA ChecksMarkNothing ==
    ASSUME NEW c, NEW c1 \in Checking \cup Elapsed \cup Timed \cup Testing \cup Permanent
                              \cup Aborting \cup Starting
    PROVE  MarksSpawned(c, c1)
  BY CheckRests DEF MarksSpawned

\* Nor do the rests with one course.
LEMMA OthersMarkNothing ==
    ASSUME NEW c, NEW c1 \in {Failed2, Failed3, Reset2, Reset3, Success2, Success3,
                              Expired1, Expired2, Expired3, Expired4, << >>}
    PROVE  MarksSpawned(c, c1)
  BY OtherRests DEF MarksSpawned

\* A failure up to its count, a reset and a success, from a settled session.
LEMMA SettledNext ==
    ASSUME NEW t, t \notin Timers, NEW c \in {Pointing, Failed1, Failed2, Reset1, Success1},
           NEW r \in SessionFields, NEW v, Settled(r),
           NEW c1, NEW r1, NEW v1, After(c, r, v, c1, r1, v1)
    PROVE  Owed(t, c1, r1, v1) /\ MarksSpawned(c, c1)
<1>1. CASE c = Pointing
  <2>1. c1 \in Checking /\ r1 = r
    BY <1>1, OtherRests DEF After
  <2>2. Agree(r1) /\ (r1.told = "PERMANENT" => r1.mCurrentMode = "PERMANENT")
    BY <2>1 DEF Settled, Informed
  <2> QED
    BY <2>1, <2>2, ChecksMarkNothing DEF Owed, HandlerOwes
<1>2. CASE c = Failed1
  <2>1. c1 = Failed2 /\ r1 = r
    BY <1>2, OtherRests DEF After
  <2> QED
    BY <2>1, OthersMarkNothing DEF Owed, HandlerOwes
<1>3. CASE c = Failed2
  <2>1. c1 = Failed3 /\ r1 = r /\ v1 = r.mFailedCount + 1
    BY <1>3, OtherRests DEF After
  <2> QED
    BY <2>1, OthersMarkNothing DEF Owed, HandlerOwes
<1>4. CASE c = Reset1
  <2>0. Head(c) = "zeroCount" /\ Tail(c) = Reset2
    BY <1>4, OtherRests
  <2>a. c1 = Reset2 /\ r1 = TrackerStored("zeroCount", r, v)
    BY <2>0 DEF After, TrackerStores
  <2>1. c1 = Reset2 /\ r1 = [r EXCEPT !.mFailedCount = 0]
    BY <2>a, StoresMade
  <2>2. ~Perm(r1)
    BY <2>1, LimitsAssumption DEF Perm, SessionFields
  <2> QED
    BY <2>1, <2>2, OthersMarkNothing DEF Owed, HandlerOwes
<1>5. CASE c = Success1
  <2>0. Head(c) = "onAuthenticationSucceeded" /\ Tail(c) = Success2
    BY <1>5, OtherRests
  <2>a. c1 = Success2 /\ r1 = Stored("onAuthenticationSucceeded", r, v)
    BY <2>0 DEF After, Stores, LockoutCallbacks
  <2>1. c1 = Success2 /\ r1 = [r EXCEPT !.told = "NONE"]
    BY <2>a, StoresMade
  <2>2. r1.told = "NONE"
    BY <2>1 DEF SessionFields
  <2> QED
    BY <2>1, <2>2, OthersMarkNothing DEF Owed, HandlerOwes
<1> QED
  BY <1>1, <1>2, <1>3, <1>4, <1>5

\* The count of a failure is stored with the mode it calls for.
LEMMA CountNext ==
    ASSUME NEW t, t \notin Timers, NEW r \in SessionFields, NEW v, Settled(r),
           v = r.mFailedCount + 1,
           NEW c1, NEW r1, NEW v1, After(Failed3, r, v, c1, r1, v1)
    PROVE  Owed(t, c1, r1, v1) /\ MarksSpawned(Failed3, c1)
<1>1. c1 \in Checking /\ r1 = TrackerStored("storeCount", r, v)
  BY OtherRests DEF After, TrackerStores
<1>2. r1 = [r EXCEPT !.mFailedCount = v,
            !.mCurrentMode = IF v >= LOCKOUT_PERMANENT_THRESHOLD THEN "PERMANENT"
                             ELSE IF v >= LOCKOUT_TIMED_THRESHOLD THEN "TIMED"
                             ELSE r.mCurrentMode]
  BY <1>1 DEF TrackerStored
<1>3. /\ r1.mFailedCount = v /\ r1.told = r.told
      /\ r1.mCurrentMode = IF v >= LOCKOUT_PERMANENT_THRESHOLD THEN "PERMANENT"
                           ELSE IF v >= LOCKOUT_TIMED_THRESHOLD THEN "TIMED"
                           ELSE r.mCurrentMode
  BY <1>2 DEF SessionFields
<1>4. r.mFailedCount \in Nat
  BY DEF SessionFields
<1>5. Agree(r1)
  BY <1>3, <1>4, LimitsAssumption DEF Agree, Perm, Settled
<1>6. r1.told = "PERMANENT" => r1.mCurrentMode = "PERMANENT"
  BY <1>3, <1>4, LimitsAssumption DEF Settled, Informed, Agree, Perm
<1> QED
  BY <1>1, <1>5, <1>6, ChecksMarkNothing DEF Owed, HandlerOwes

\* checkSensorLockout up to the mode it finds.
LEMMA CheckingNext ==
    ASSUME NEW t, t \notin Timers, NEW c \in Checking, NEW r \in SessionFields, NEW v, Agree(r),
           r.told = "PERMANENT" => r.mCurrentMode = "PERMANENT",
           NEW c1, NEW r1, NEW v1, After(c, r, v, c1, r1, v1)
    PROVE  Owed(t, c1, r1, v1) /\ MarksSpawned(c, c1)
<1>1. CASE Head(c) = "stampStart" /\ Tail(c) \in Checking
  <2>1. c1 \in Checking /\ r1 = TrackerStored("stampStart", r, v)
    BY <1>1 DEF After, TrackerStores
  <2>2. r1 = [r EXCEPT !.mLockoutTimedStart =
            IF v \in LOCKOUT_TIMED_THRESHOLD..(LOCKOUT_PERMANENT_THRESHOLD - 1)
            THEN now ELSE r.mLockoutTimedStart]
    BY <2>1 DEF TrackerStored
  <2>3. /\ r1.told = r.told /\ r1.mCurrentMode = r.mCurrentMode
        /\ r1.mFailedCount = r.mFailedCount
    BY <2>2 DEF SessionFields
  <2>4. Agree(r1) /\ (r1.told = "PERMANENT" => r1.mCurrentMode = "PERMANENT")
    BY <2>3 DEF Agree, Perm
  <2> QED
    BY <2>1, <2>4, ChecksMarkNothing DEF Owed, HandlerOwes
<1>2. CASE Head(c) = "getMode" /\ Tail(c) \in Ends
  <2>1. c1 = getMode(r) \o Tail(c) /\ r1 = r
    BY <1>2 DEF After
  <2>2. r.mCurrentMode \in {"NONE", "TIMED", "PERMANENT"} /\ r.told \in {"NONE", "TIMED", "PERMANENT"}
    BY DEF SessionFields, Modes
  <2>3. CASE r.mCurrentMode = "NONE"
    <3>1. c1 = Tail(c)
      BY <2>1, <2>3, <1>2, CheckedRests DEF getMode
    <3>2. Settled(r1)
      BY <2>1, <2>2, <2>3 DEF Settled, Agree, Informed, Held
    <3>3. c1 \in Seq(Unrelated)
      BY <3>1, <1>2, OtherRests
    <3> QED
      BY <3>2, <3>3, EndsOwe, UnrelatedNotMarking
  <2>4. CASE r.mCurrentMode = "PERMANENT"
    <3>1. c1 \in Permanent
      BY <2>1, <2>4, <1>2, CheckedRests DEF getMode
    <3>2. Perm(r1) /\ r1.mCurrentMode = "PERMANENT"
      BY <2>1, <2>4 DEF Agree
    <3> QED
      BY <3>1, <3>2, ChecksMarkNothing DEF Owed, HandlerOwes
  <2>5. CASE r.mCurrentMode = "TIMED"
    <3>1. ~Perm(r1) /\ r1.told # "PERMANENT" /\ r1.mCurrentMode = "TIMED"
      BY <2>1, <2>5 DEF Agree
    <3>2. c1 \in Elapsed \cup Timed
      BY <2>1, <2>5, <1>2, CheckedRests DEF getMode
    <3> QED
      BY <3>1, <3>2, ChecksMarkNothing DEF Owed, HandlerOwes
  <2> QED
    BY <2>2, <2>3, <2>4, <2>5
<1> QED
  BY <1>1, <1>2, CheckRests

\* A lockout that has elapsed.
LEMMA ElapsedNext ==
    ASSUME NEW t, t \notin Timers, NEW c \in Elapsed, NEW r \in SessionFields, NEW v, ~Perm(r),
           r.told # "PERMANENT", NEW c1, NEW r1, NEW v1, After(c, r, v, c1, r1, v1)
    PROVE  Owed(t, c1, r1, v1) /\ MarksSpawned(c, c1)
<1>1. Head(c) = "clearMode" /\ Tail(c) \in Seq(Unrelated)
  BY CheckRests, OtherRests
<1>2. c1 \in Seq(Unrelated) /\ r1 = TrackerStored("clearMode", r, v)
  BY <1>1 DEF After, TrackerStores
<1>3. r1 = [r EXCEPT !.mLockoutTimedStart = 0, !.mCurrentMode = "NONE"]
  BY <1>2, StoresMade
<1>4. /\ r1.told = r.told /\ r1.mCurrentMode = "NONE" /\ r1.mFailedCount = r.mFailedCount
  BY <1>3 DEF SessionFields
<1>5. Settled(r1)
  BY <1>4 DEF Settled, Agree, Informed, Held, Perm
<1> QED
  BY <1>2, <1>5, EndsOwe, UnrelatedNotMarking

\* A timed lockout up to the start of its timer.
LEMMA TimedNext ==
    ASSUME NEW t, t \notin Timers, NEW c \in Timed, NEW r \in SessionFields, NEW v, ~Perm(r),
           r.mCurrentMode = "TIMED", NEW c1, NEW r1, NEW v1, After(c, r, v, c1, r1, v1)
    PROVE  Owed(t, c1, r1, v1) /\ MarksSpawned(c, c1)
<1>1. CASE Head(c) \in {"hbmOff", "goodixOff", "getTimeLeft"} /\ Tail(c) \in Timed
  <2>1. c1 \in Timed /\ r1 = r
    BY <1>1 DEF After
  <2> QED
    BY <2>1, ChecksMarkNothing DEF Owed, HandlerOwes
<1>2. CASE Head(c) = "onLockoutTimed" /\ Tail(c) \in Testing
  <2>1. c1 \in Testing /\ r1 = Stored("onLockoutTimed", r, v)
    BY <1>2 DEF After, Stores, LockoutCallbacks
  <2>2. r1 = [r EXCEPT !.told = "TIMED"]
    BY <2>1, StoresMade
  <2>3. r1.told = "TIMED" /\ r1.mCurrentMode = "TIMED" /\ r1.mFailedCount = r.mFailedCount
    BY <2>2 DEF SessionFields
  <2>4. ~Perm(r1)
    BY <2>3 DEF Perm
  <2> QED
    BY <2>1, <2>3, <2>4, ChecksMarkNothing DEF Owed, HandlerOwes
<1> QED
  BY <1>1, <1>2, CheckRests

\* A timed lockout with nothing left to do but its timer.
LEMMA TimedSettled ==
    ASSUME NEW r, ~Perm(r), r.mCurrentMode = "TIMED", r.told = "TIMED"
    PROVE  Settled(r)
  BY DEF Settled, Agree, Informed, Held

\* The test whether a timer is out, which starts one if not.
LEMMA TestingNext ==
    ASSUME NEW t, t \notin Timers, NEW c \in Testing, NEW r \in SessionFields, NEW v, ~Perm(r),
           r.mCurrentMode = "TIMED", r.told = "TIMED",
           NEW c1, NEW r1, NEW v1, After(c, r, v, c1, r1, v1)
    PROVE  Owed(t, c1, r1, v1) /\ MarksSpawned(c, c1)
<1>1. Head(c) = "testStarted" /\ Tail(c) \in Ends
  BY CheckRests
<1>2. r1 = r
  BY <1>1 DEF After
<1>3. CASE r.mIsLockoutTimerStarted
  <2>1. c1 \in Seq(Unrelated)
    BY <1>1, <1>3, OtherRests DEF After
  <2> QED
    BY <1>2, <2>1, TimedSettled, EndsOwe, UnrelatedNotMarking
<1>4. CASE ~r.mIsLockoutTimerStarted
  <2>1. c1 = startLockoutTimer \o Tail(c)
    BY <1>1, <1>4 DEF After
  <2>2. c1 \in Starting
    BY <1>1, <2>1, CheckedRests
  <2> QED
    BY <1>2, <1>4, <2>2, ChecksMarkNothing DEF Owed, HandlerOwes
<1> QED
  BY <1>3, <1>4

\* startLockoutTimer up to its mark.
LEMMA StartingNext ==
    ASSUME NEW t, t \notin Timers, NEW c \in Starting \cup Started, NEW r \in SessionFields,
           NEW v, ~Perm(r), r.mCurrentMode = "TIMED", r.told = "TIMED",
           ~r.mIsLockoutTimerStarted,
           NEW c1, NEW r1, NEW v1, After(c, r, v, c1, r1, v1)
    PROVE  Owed(t, c1, r1, v1) /\ MarksSpawned(c, c1)
<1>1. CASE Head(c) = "unabortTimer" /\ Tail(c) \in Starting
  <2>1. c1 \in Starting /\ r1 = Stored("unabortTimer", r, v)
    BY <1>1 DEF After, Stores
  <2>2. r1 = [r EXCEPT !.mIsLockoutTimerAborted = FALSE]
    BY <2>1, StoresMade
  <2>3. /\ r1.told = r.told /\ r1.mCurrentMode = r.mCurrentMode
        /\ r1.mFailedCount = r.mFailedCount /\ ~r1.mIsLockoutTimerStarted
    BY <2>2 DEF SessionFields
  <2>4. ~Perm(r1)
    BY <2>3 DEF Perm
  <2> QED
    BY <2>1, <2>3, <2>4, ChecksMarkNothing DEF Owed, HandlerOwes
<1>2. CASE Head(c) = "spawnTimer" /\ Tail(c) \in Started
  <2>1. c1 \in Started /\ r1 = r
    BY <1>2 DEF After
  <2> QED
    BY <1>2, <2>1 DEF Owed, HandlerOwes, MarksSpawned
<1>3. CASE Head(c) = "timerStarted" /\ Tail(c) \in Ends
  <2>1. c1 \in Seq(Unrelated) /\ r1 = Stored("timerStarted", r, v)
    BY <1>3, OtherRests DEF After, Stores
  <2>2. r1 = [r EXCEPT !.mIsLockoutTimerStarted = TRUE]
    BY <2>1, StoresMade
  <2>3. /\ r1.told = r.told /\ r1.mCurrentMode = r.mCurrentMode
        /\ r1.mFailedCount = r.mFailedCount
    BY <2>2 DEF SessionFields
  <2>4. ~Perm(r1)
    BY <2>3 DEF Perm
  <2> QED
    BY <2>1, <2>3, <2>4, TimedSettled, EndsOwe, UnrelatedNotMarking
<1> QED
  BY <1>1, <1>2, <1>3, CheckRests

\* A permanent lockout.
LEMMA PermanentNext ==
    ASSUME NEW t, t \notin Timers, NEW c \in Permanent, NEW r \in SessionFields, NEW v, Perm(r),
           r.mCurrentMode = "PERMANENT", NEW c1, NEW r1, NEW v1, After(c, r, v, c1, r1, v1)
    PROVE  Owed(t, c1, r1, v1) /\ MarksSpawned(c, c1)
<1>1. CASE Head(c) \in {"hbmOff", "goodixOff"} /\ Tail(c) \in Permanent
  <2>1. c1 \in Permanent /\ r1 = r
    BY <1>1 DEF After
  <2> QED
    BY <2>1, ChecksMarkNothing DEF Owed, HandlerOwes
<1>2. CASE Head(c) = "onLockoutPermanent" /\ Tail(c) \in Aborting
  <2>1. c1 \in Aborting /\ r1 = Stored("onLockoutPermanent", r, v)
    BY <1>2 DEF After, Stores, LockoutCallbacks
  <2>2. r1 = [r EXCEPT !.told = "PERMANENT"]
    BY <2>1, StoresMade
  <2>3. r1.told = "PERMANENT" /\ r1.mCurrentMode = "PERMANENT" /\ r1.mFailedCount = r.mFailedCount
    BY <2>2 DEF SessionFields
  <2>4. Agree(r1) /\ Informed(r1)
    BY <2>3 DEF Perm, Agree, Informed
  <2> QED
    BY <2>1, <2>4, ChecksMarkNothing DEF Owed, HandlerOwes
<1> QED
  BY <1>1, <1>2, CheckRests

\* The last store of a permanent lockout and of a reset.
LEMMA AbortingNext ==
    ASSUME NEW t, t \notin Timers, NEW c \in Aborting, NEW r \in SessionFields, NEW v, Agree(r),
           Informed(r), NEW c1, NEW r1, NEW v1, After(c, r, v, c1, r1, v1)
    PROVE  Owed(t, c1, r1, v1) /\ MarksSpawned(c, c1)
<1>1. Head(c) = "abortTimer" /\ Tail(c) \in Seq(Unrelated)
  BY CheckRests, OtherRests
<1>2. c1 \in Seq(Unrelated) /\ r1 = Stored("abortTimer", r, v)
  BY <1>1 DEF After, Stores
<1>3. r1 = [r EXCEPT !.mIsLockoutTimerAborted = TRUE]
  BY <1>2, StoresMade
<1>4. /\ r1.told = r.told /\ r1.mCurrentMode = r.mCurrentMode
      /\ r1.mFailedCount = r.mFailedCount /\ r1.mIsLockoutTimerAborted
  BY <1>3 DEF SessionFields
<1>5. Settled(r1)
  BY <1>4 DEF Settled, Agree, Informed, Held, Perm
<1> QED
  BY <1>2, <1>5, EndsOwe, UnrelatedNotMarking

\* The rest of a reset and of a success.
LEMMA ResetNext ==
    ASSUME NEW t, t \notin Timers, NEW c, NEW r \in SessionFields, NEW v,
           \/ c = Reset2 /\ ~Perm(r)
           \/ c = Reset3 /\ ~Perm(r) /\ r.mCurrentMode = "NONE",
           NEW c1, NEW r1, NEW v1, After(c, r, v, c1, r1, v1)
    PROVE  Owed(t, c1, r1, v1) /\ MarksSpawned(c, c1)
<1>1. CASE c = Reset2 /\ ~Perm(r)
  <2>0. Head(c) = "clearMode" /\ Tail(c) = Reset3
    BY <1>1, OtherRests
  <2>1. c1 = Reset3 /\ r1 = TrackerStored("clearMode", r, v)
    BY <2>0 DEF After, TrackerStores
  <2>2. r1 = [r EXCEPT !.mLockoutTimedStart = 0, !.mCurrentMode = "NONE"]
    BY <2>1, StoresMade
  <2>3. r1.mCurrentMode = "NONE" /\ r1.mFailedCount = r.mFailedCount
    BY <2>2 DEF SessionFields
  <2>4. ~Perm(r1)
    BY <1>1, <2>3 DEF Perm
  <2> QED
    BY <2>1, <2>3, <2>4, OthersMarkNothing DEF Owed, HandlerOwes
<1>2. CASE c = Reset3 /\ ~Perm(r) /\ r.mCurrentMode = "NONE"
  <2>0. Head(c) = "onLockoutCleared" /\ Tail(c) \in Aborting
    BY <1>2, OtherRests
  <2>1. c1 \in Aborting /\ r1 = Stored("onLockoutCleared", r, v)
    BY <2>0 DEF After, Stores, LockoutCallbacks
  <2>2. r1 = [r EXCEPT !.told = "NONE"]
    BY <2>1, StoresMade
  <2>3. r1.told = "NONE" /\ r1.mCurrentMode = "NONE" /\ r1.mFailedCount = r.mFailedCount
    BY <1>2, <2>2 DEF SessionFields
  <2>4. Agree(r1) /\ Informed(r1)
    BY <1>2, <2>3 DEF Perm, Agree, Informed
  <2> QED
    BY <2>1, <2>4, ChecksMarkNothing DEF Owed, HandlerOwes
<1> QED
  BY <1>1, <1>2

\* A success, whose callback has already cleared the framework's lockout.
LEMMA SuccessNext ==
    ASSUME NEW t, t \notin Timers, NEW c, NEW r \in SessionFields, NEW v,
           \/ c = Success2 /\ r.told = "NONE"
           \/ c = Success3 /\ r.told = "NONE" /\ ~Perm(r),
           NEW c1, NEW r1, NEW v1, After(c, r, v, c1, r1, v1)
    PROVE  Owed(t, c1, r1, v1) /\ MarksSpawned(c, c1)
<1>1. CASE c = Success2 /\ r.told = "NONE"
  <2>0. Head(c) = "zeroCount" /\ Tail(c) = Success3
    BY <1>1, OtherRests
  <2>1. c1 = Success3 /\ r1 = TrackerStored("zeroCount", r, v)
    BY <2>0 DEF After, TrackerStores
  <2>2. r1 = [r EXCEPT !.mFailedCount = 0]
    BY <2>1, StoresMade
  <2>3. r1.told = "NONE" /\ r1.mFailedCount = 0
    BY <1>1, <2>2 DEF SessionFields
  <2>4. ~Perm(r1)
    BY <2>3, LimitsAssumption DEF Perm
  <2> QED
    BY <2>1, <2>3, <2>4, OthersMarkNothing DEF Owed, HandlerOwes
<1>2. CASE c = Success3 /\ r.told = "NONE" /\ ~Perm(r)
  <2>0. Head(c) = "clearMode" /\ Tail(c) \in Seq(Unrelated)
    BY <1>2, OtherRests
  <2>1. c1 \in Seq(Unrelated) /\ r1 = TrackerStored("clearMode", r, v)
    BY <2>0 DEF After, TrackerStores
  <2>2. r1 = [r EXCEPT !.mLockoutTimedStart = 0, !.mCurrentMode = "NONE"]
    BY <2>1, StoresMade
  <2>3. r1.told = "NONE" /\ r1.mCurrentMode = "NONE" /\ r1.mFailedCount = r.mFailedCount
    BY <1>2, <2>2 DEF SessionFields
  <2>4. Settled(r1)
    BY <1>2, <2>3 DEF Perm, Settled, Agree, Informed, Held
  <2> QED
    BY <2>1, <2>4, EndsOwe, UnrelatedNotMarking
<1> QED
  BY <1>1, <1>2

\* A timer that has slept.
LEMMA ExpiredCode ==
    /\ lockoutTimerExpired(TRUE) = Expired3
    /\ lockoutTimerExpired(FALSE) = Expired1
<1>1. << >> \o <<"timerStopped", "unabortTimer">> = <<"timerStopped", "unabortTimer">>
  OBVIOUS
<1>2. <<"clearMode", "onLockoutCleared">> \o <<"timerStopped", "unabortTimer">>
        = <<"clearMode", "onLockoutCleared", "timerStopped", "unabortTimer">>
  <2> DEFINE p == <<"clearMode", "onLockoutCleared">> \o <<"timerStopped", "unabortTimer">>
             q == <<"clearMode", "onLockoutCleared", "timerStopped", "unabortTimer">>
  <2>1. {"clearMode", "onLockoutCleared", "timerStopped", "unabortTimer"} \subseteq Calls
    BY DEF Calls, Stores, TrackerStores, LockoutCallbacks
  <2>2. p \in Seq(Calls) /\ Len(p) = 4 /\ q \in Seq(Calls) /\ Len(q) = 4
    BY <2>1
  <2>3. p[1] = q[1] /\ p[2] = q[2] /\ p[3] = q[3] /\ p[4] = q[4]
    OBVIOUS
  <2> HIDE DEF p, q
  <2>4. \A i \in 1..4 : p[i] = q[i]
    BY <2>3
  <2>5. p = q
    BY <2>2, <2>4, SameSeq
  <2> QED
    BY <2>5 DEF p, q
<1> QED
  BY <1>1, <1>2 DEF lockoutTimerExpired, Expired1, Expired3

\* lockoutTimerExpired: with the lockout permanent by now, the abort flag is set.
LEMMA TimerNext ==
    ASSUME NEW t \in Timers, NEW c, NEW r \in SessionFields, NEW v, TimerOwes(c, r),
           c = Expiring => r.mIsLockoutTimerStarted,
           NEW c1, NEW r1, NEW v1, After(c, r, v, c1, r1, v1)
    PROVE  Owed(t, c1, r1, v1) /\ MarksSpawned(c, c1)
<1>1. CASE c = Expiring /\ Settled(r)
  <2>0. Head(c) = "testAborted"
    BY <1>1, OtherRests
  <2>1. c1 = lockoutTimerExpired(r.mIsLockoutTimerAborted) /\ r1 = r
    BY <2>0 DEF After
  <2>2. CASE r.mIsLockoutTimerAborted = TRUE
    <3>1. c1 = Expired3
      BY <2>1, <2>2, ExpiredCode
    <3> QED
      BY <1>1, <2>1, <3>1, OthersMarkNothing DEF Owed, TimerOwes
  <2>3. CASE r.mIsLockoutTimerAborted = FALSE
    <3>1. c1 = Expired1
      BY <2>1, <2>3, ExpiredCode
    <3>2. ~Perm(r1)
      BY <1>1, <2>1, <2>3 DEF Settled, Held
    <3> QED
      BY <3>1, <3>2, OthersMarkNothing DEF Owed, TimerOwes
  <2> QED
    BY <2>2, <2>3 DEF SessionFields
<1>2. CASE c = Expired1 /\ ~Perm(r)
  <2>0. Head(c) = "clearMode" /\ Tail(c) = Expired2
    BY <1>2, OtherRests
  <2>1. c1 = Expired2 /\ r1 = TrackerStored("clearMode", r, v)
    BY <2>0 DEF After, TrackerStores
  <2>2. r1 = [r EXCEPT !.mLockoutTimedStart = 0, !.mCurrentMode = "NONE"]
    BY <2>1, StoresMade
  <2>3. r1.mCurrentMode = "NONE" /\ r1.mFailedCount = r.mFailedCount
    BY <2>2 DEF SessionFields
  <2>4. ~Perm(r1)
    BY <1>2, <2>3 DEF Perm
  <2> QED
    BY <2>1, <2>3, <2>4, OthersMarkNothing DEF Owed, TimerOwes
<1>3. CASE c = Expired2 /\ ~Perm(r) /\ r.mCurrentMode = "NONE"
  <2>0. Head(c) = "onLockoutCleared" /\ Tail(c) = Expired3
    BY <1>3, OtherRests
  <2>1. c1 = Expired3 /\ r1 = Stored("onLockoutCleared", r, v)
    BY <2>0 DEF After, Stores, LockoutCallbacks
  <2>2. r1 = [r EXCEPT !.told = "NONE"]
    BY <2>1, StoresMade
  <2>3. r1.told = "NONE" /\ r1.mCurrentMode = "NONE" /\ r1.mFailedCount = r.mFailedCount
    BY <1>3, <2>2 DEF SessionFields
  <2>4. Settled(r1)
    BY <1>3, <2>3 DEF Perm, Settled, Agree, Informed, Held
  <2> QED
    BY <2>1, <2>4, OthersMarkNothing DEF Owed, TimerOwes
<1>4. CASE c = Expired3 /\ Settled(r)
  <2>0. Head(c) = "timerStopped" /\ Tail(c) = Expired4
    BY <1>4, OtherRests
  <2>1. c1 = Expired4 /\ r1 = Stored("timerStopped", r, v)
    BY <2>0 DEF After, Stores
  <2>2. r1 = [r EXCEPT !.mIsLockoutTimerStarted = FALSE]
    BY <2>1, StoresMade
  <2>3. /\ r1.told = r.told /\ r1.mCurrentMode = r.mCurrentMode
        /\ r1.mFailedCount = r.mFailedCount /\ ~r1.mIsLockoutTimerStarted
    BY <2>2 DEF SessionFields
  <2>4. Settled(r1)
    BY <1>4, <2>3 DEF Perm, Settled, Agree, Informed, Held
  <2> QED
    BY <2>1, <2>3, <2>4, OthersMarkNothing DEF Owed, TimerOwes
<1>5. CASE c = Expired4 /\ Settled(r) /\ ~r.mIsLockoutTimerStarted
  <2>0. Head(c) = "unabortTimer" /\ Tail(c) = << >>
    BY <1>5, OtherRests
  <2>1. c1 = << >> /\ r1 = Stored("unabortTimer", r, v)
    BY <2>0 DEF After, Stores
  <2>2. r1 = [r EXCEPT !.mIsLockoutTimerAborted = FALSE]
    BY <2>1, StoresMade
  <2>3. /\ r1.told = r.told /\ r1.mCurrentMode = r.mCurrentMode
        /\ r1.mFailedCount = r.mFailedCount /\ ~r1.mIsLockoutTimerStarted
    BY <1>5, <2>2 DEF SessionFields
  <2>4. Settled(r1)
    BY <1>5, <2>3 DEF Perm, Settled, Agree, Informed, Held
  <2> QED
    BY <2>1, <2>4, OthersMarkNothing DEF Owed
<1> QED
  BY <1>1, <1>2, <1>3, <1>4, <1>5 DEF TimerOwes

\* Whatever a handler owes, it owes the rest of after its next call.
LEMMA OwedNext ==
    ASSUME NEW t, NEW c, c # << >>, NEW r \in SessionFields, NEW v, Owed(t, c, r, v),
           t \in Timers /\ c = Expiring => r.mIsLockoutTimerStarted,
           NEW c1, NEW r1, NEW v1, After(c, r, v, c1, r1, v1)
    PROVE  Owed(t, c1, r1, v1) /\ MarksSpawned(c, c1)
<1>1. CASE t \in Timers /\ TimerOwes(c, r)
  BY <1>1, TimerNext
<1>2. ASSUME t \notin Timers, HandlerOwes(c, r, v)
      PROVE  Owed(t, c1, r1, v1) /\ MarksSpawned(c, c1)
  <2>1. CASE c \in Seq(Unrelated) /\ Settled(r)
    BY <1>2, <2>1, UnrelatedNext
  <2>2. CASE c \in {Pointing, Failed1, Failed2, Reset1, Success1} /\ Settled(r)
    BY <1>2, <2>2, SettledNext
  <2>3. CASE c = Failed3 /\ Settled(r) /\ v = r.mFailedCount + 1
    BY <1>2, <2>3, CountNext
  <2>4. CASE c \in Checking /\ Agree(r) /\ (r.told = "PERMANENT" => r.mCurrentMode = "PERMANENT")
    BY <1>2, <2>4, CheckingNext
  <2>5. CASE c \in Elapsed /\ ~Perm(r) /\ r.told # "PERMANENT"
    BY <1>2, <2>5, ElapsedNext
  <2>6. CASE c \in Timed /\ ~Perm(r) /\ r.mCurrentMode = "TIMED"
    BY <1>2, <2>6, TimedNext
  <2>7. CASE c \in Testing /\ ~Perm(r) /\ r.mCurrentMode = "TIMED" /\ r.told = "TIMED"
    BY <1>2, <2>7, TestingNext
  <2>8. CASE /\ c \in Starting \cup Started /\ ~Perm(r) /\ r.mCurrentMode = "TIMED"
             /\ r.told = "TIMED" /\ ~r.mIsLockoutTimerStarted
    BY <1>2, <2>8, StartingNext
  <2>9. CASE c \in Permanent /\ Perm(r) /\ r.mCurrentMode = "PERMANENT"
    BY <1>2, <2>9, PermanentNext
  <2>10. CASE c \in Aborting /\ Agree(r) /\ Informed(r)
    BY <1>2, <2>10, AbortingNext
  <2>11. CASE \/ c = Reset2 /\ ~Perm(r)
              \/ c = Reset3 /\ ~Perm(r) /\ r.mCurrentMode = "NONE"
    BY <1>2, <2>11, ResetNext
  <2>12. CASE \/ c = Success2 /\ r.told = "NONE"
              \/ c = Success3 /\ r.told = "NONE" /\ ~Perm(r)
    BY <1>2, <2>12, SuccessNext
  <2> QED
    BY <1>2, <2>1, <2>2, <2>3, <2>4, <2>5, <2>6, <2>7, <2>8, <2>9, <2>10, <2>11, <2>12
    DEF HandlerOwes
<1> QED
  BY <1>1, <1>2 DEF Owed

\* What the first call tells of the rest of a handler.
LEMMA OwedHeads ==
    ASSUME NEW t, NEW c, c # << >>, NEW r, NEW v, Owed(t, c, r, v)
    PROVE  /\ Head(c) \notin {"sleep", "waitUiReady"}
           /\ Head(c) = "spawnTimer" => t \notin Timers /\ ~r.mIsLockoutTimerStarted
           /\ Head(c) = "timerStopped" => t \in Timers /\ Tail(c) = Expired4
           /\ Head(c) \in Messages => Settled(r)
<1> USE DEF Messages
<1>1. CASE t \in Timers /\ TimerOwes(c, r)
  BY <1>1, OtherRests DEF TimerOwes
<1>2. ASSUME t \notin Timers, HandlerOwes(c, r, v)
      PROVE  /\ Head(c) \notin {"sleep", "waitUiReady"}
             /\ Head(c) = "spawnTimer" => t \notin Timers /\ ~r.mIsLockoutTimerStarted
             /\ Head(c) = "timerStopped" => t \in Timers /\ Tail(c) = Expired4
             /\ Head(c) \in Messages => Settled(r)
  <2>1. CASE c \in Seq(Unrelated) /\ Settled(r)
    BY <2>1, UnrelatedRests DEF LockoutCalls
  <2>2. CASE c \in {Pointing, Failed1, Failed2, Failed3, Reset1, Reset2, Reset3, Success1,
                    Success2, Success3}
    BY <2>2, OtherRests
  <2>3. CASE c \in Checking \cup Elapsed \cup Timed \cup Testing \cup Started \cup Permanent
                    \cup Aborting
    BY <2>3, CheckRests
  <2>4. CASE c \in Starting /\ ~r.mIsLockoutTimerStarted
    BY <1>2, <2>4, CheckRests
  <2> QED
    BY <1>2, <2>1, <2>2, <2>3, <2>4 DEF HandlerOwes
<1> QED
  BY <1>1, <1>2 DEF Owed

\* A timer's last call.
LEMMA TimerHeads ==
    ASSUME NEW t \in Timers, NEW c, c # << >>, NEW r \in SessionFields, NEW v, Owed(t, c, r, v),
           NEW c1, NEW r1, NEW v1, After(c, r, v, c1, r1, v1)
    PROVE  /\ c1 = << >> => ~r1.mIsLockoutTimerStarted
           /\ Head(c) # "timerStarted"
<1>0. TimerOwes(c, r)
  BY DEF Owed
<1>1. CASE c = Expiring
  <2>1. c1 = lockoutTimerExpired(r.mIsLockoutTimerAborted) /\ Head(c) = "testAborted"
    BY <1>1, OtherRests DEF After
  <2>2. c1 \in {Expired1, Expired3}
    BY <2>1, ExpiredCode DEF SessionFields
  <2>3. Expired1 # << >> /\ Expired3 # << >>
    BY DEF Expired1, Expired3
  <2> QED
    BY <2>1, <2>2, <2>3
<1>2. CASE c \in {Expired1, Expired2, Expired3}
  <2>1. /\ Head(c) \in {"clearMode", "onLockoutCleared", "timerStopped"}
        /\ Tail(c) \in {Expired2, Expired3, Expired4}
    BY <1>2, OtherRests
  <2>2. c1 = Tail(c)
    BY <2>1 DEF After, Stores, TrackerStores, LockoutCallbacks
  <2>3. Expired2 # << >> /\ Expired3 # << >> /\ Expired4 # << >>
    BY DEF Expired2, Expired3, Expired4
  <2> QED
    BY <2>1, <2>2, <2>3
<1>3. CASE c = Expired4
  <2>0. ~r.mIsLockoutTimerStarted
    <3>1. Expired4 # Expired3 /\ Expired4 # Expired2 /\ Expired4 # Expired1 /\ Expired4 # Expiring
      BY OtherRests
    <3> QED
      BY <1>0, <1>3, <3>1 DEF TimerOwes
  <2>1. r1 = Stored("unabortTimer", r, v) /\ Head(c) = "unabortTimer"
    BY <1>3, OtherRests DEF After, Stores
  <2>2. r1 = [r EXCEPT !.mIsLockoutTimerAborted = FALSE]
    BY <2>1, StoresMade
  <2> QED
    BY <2>0, <2>1, <2>2 DEF SessionFields
<1> QED
  BY <1>0, <1>1, <1>2, <1>3 DEF TimerOwes

\* Only two calls change whether a timer is marked as started.
LEMMA MarkKept ==
    ASSUME NEW c, NEW r \in SessionFields, NEW v, NEW c1, NEW r1, NEW v1, After(c, r, v, c1, r1, v1),
           Head(c) \in Stores \cup TrackerStores \/ r1 = r
    PROVE  /\ Head(c) \notin {"timerStarted", "timerStopped"} =>
                r1.mIsLockoutTimerStarted = r.mIsLockoutTimerStarted
           /\ Head(c) = "timerStarted" => r1.mIsLockoutTimerStarted
           /\ Head(c) = "timerStopped" => c1 = Tail(c)
<1>1. CASE Head(c) \in Stores
  <2>1. c1 = Tail(c) /\ r1 = Stored(Head(c), r, v)
    BY <1>1 DEF After
  <2> QED
    BY <1>1, <2>1 DEF Stored, SessionFields, Stores, LockoutCallbacks
<1>2. CASE Head(c) \in TrackerStores
  <2>1. r1 = TrackerStored(Head(c), r, v)
    BY <1>2 DEF After
  <2>2. Head(c) \in {"zeroCount", "clearMode", "storeCount", "stampStart"}
    BY <1>2 DEF TrackerStores
  <2>3. r1.mIsLockoutTimerStarted = r.mIsLockoutTimerStarted
    BY <2>1, <2>2 DEF TrackerStored, SessionFields
  <2> QED
    BY <2>2, <2>3
<1>3. CASE Head(c) \notin Stores /\ r1 = r
  BY <1>3 DEF Stores
<1> QED
  BY <1>1, <1>2, <1>3

-----------------------------------------------------------------------------
(* What a step of a thread changes.                                        *)

Asleep == <<"sleep", "testAborted">>

SameThread(u) == code'[u] = code[u] /\ self'[u] = self[u]

\* Its own code, the fields of its session, and a timer if it spawns one.
StepEffect(t) ==
    /\ code[t] # << >> /\ self[t] \in Sessions /\ self'[t] = self[t]
    /\ After(code[t], session[self[t]], reg[t], code'[t], session'[self[t]], reg'[t])
    /\ Head(code[t]) \in Stores \cup TrackerStores \/ session'[self[t]] = session[self[t]]
    /\ \A s \in Sessions \ {self[t]} : session'[s] = session[s]
    /\ Head(code[t]) \in {"sleep", "waitUiReady"} => code'[t] = Tail(code[t])
    /\ Head(code[t]) # "spawnTimer" => \A u \in Threads \ {t} : SameThread(u)
    /\ Head(code[t]) = "spawnTimer" =>
         \E x \in Timers \ {t} :
            /\ code[x] = << >> /\ code'[x] = Asleep /\ self'[x] = self[t]
            /\ \A u \in Threads \ {t, x} : SameThread(u)

\* A call that neither stores nor tests.
LEMMA QuietEffect ==
    ASSUME TypeOK, NEW t \in Threads, code[t] # << >>,
           Head(code[t]) \notin Stores \cup TrackerStores
               \cup {"getMode", "testStarted", "testAborted", "loadCount", "spawnTimer"},
           NEW rest, Continue(t, rest),
           \/ rest = Tail(code[t])
           \/ /\ rest = <<"onError">>
              /\ Head(code[t]) \notin {"goodixOn", "hbmOff", "goodixOff", "getTimeLeft",
                    "onAuthenticationFailed", "sleep", "waitUiReady"},
           UNCHANGED <<session, self>>
    PROVE  StepEffect(t)
<1> DEFINE c == code[t]
           r == session[self[t]]
<1>1. code' = [code EXCEPT ![t] = rest] /\ session' = session /\ self' = self
  BY DEF Continue
<1>2. code \in [Threads -> Seq(Calls)] /\ (~Idle(t) => self[t] \in Sessions)
  BY DEF TypeOK
<1>3. self[t] \in Sessions
  BY <1>2 DEF Idle
<1>4. code'[t] = rest /\ \A u \in Threads \ {t} : SameThread(u)
  BY <1>1, <1>2 DEF SameThread
<1>5. After(c, r, reg[t], rest, r, reg'[t])
  BY DEF After
<1> QED
  BY <1>1, <1>3, <1>4, <1>5 DEF StepEffect

\* Each kind of step has that effect.
LEMMA StepEffects ==
    ASSUME TypeOK, NEW t \in Threads, Step(t)
    PROVE  StepEffect(t)
<1> USE DEF At, Advance
<1>0. /\ code \in [Threads -> Seq(Calls)] /\ session \in [Sessions -> SessionFields]
      /\ self \in [Threads -> 0..MaxSessions] /\ reg \in [Threads -> Int]
      /\ (~Idle(t) => self[t] \in Sessions)
  BY DEF TypeOK
<1>1. CASE Schedule(t)
  <2>1. PICK task \in Tasks : code[t] # << >> /\ Head(code[t]) = task
    BY <1>1 DEF Schedule
  <2>2. task \notin Stores \cup TrackerStores
               \cup {"getMode", "testStarted", "testAborted", "loadCount", "spawnTimer"}
    BY DEF Tasks, Stores, TrackerStores, LockoutCallbacks
  <2> QED
    BY <1>1, <2>1, <2>2, QuietEffect DEF Schedule
<1>2. CASE WaitUiReady(t) \/ Sleep(t)
  <2>1. code[t] # << >> /\ Head(code[t]) \in {"waitUiReady", "sleep"}
    BY <1>2 DEF WaitUiReady, Sleep
  <2>2. Head(code[t]) \notin Stores \cup TrackerStores
               \cup {"getMode", "testStarted", "testAborted", "loadCount", "spawnTimer"}
    BY <2>1 DEF Stores, TrackerStores, LockoutCallbacks
  <2> QED
    BY <1>2, <2>1, <2>2, QuietEffect DEF WaitUiReady, Sleep
<1>3. CASE Light(t)
  <2>1. code[t] # << >> /\ Head(code[t]) \in {"hbmOn", "hbmOff", "goodixOn", "goodixOff"}
    BY <1>3 DEF Light
  <2>2. Head(code[t]) \notin Stores \cup TrackerStores
               \cup {"getMode", "testStarted", "testAborted", "loadCount", "spawnTimer"}
    BY <2>1 DEF Stores, TrackerStores, LockoutCallbacks
  <2> QED
    BY <1>3, <2>1, <2>2, QuietEffect DEF Light
<1>4. CASE DeviceCall(t)
  <2>1. code[t] # << >> /\ Head(code[t]) \in {"devEnroll", "devAuthenticate", "devCancel"}
    BY <1>4 DEF DeviceCall
  <2>2. Head(code[t]) \notin Stores \cup TrackerStores
               \cup {"getMode", "testStarted", "testAborted", "loadCount", "spawnTimer"}
    BY <2>1 DEF Stores, TrackerStores, LockoutCallbacks
  <2>3. CASE Continue(t, Tail(code[t]))
    BY <1>4, <2>1, <2>2, <2>3, QuietEffect DEF DeviceCall
  <2>4. CASE Continue(t, <<"onError">>)
    BY <1>4, <2>1, <2>2, <2>4, QuietEffect DEF DeviceCall
  <2> QED
    BY <1>4, <2>3, <2>4 DEF DeviceCall
<1>5. CASE PlainCall(t)
  <2>1. code[t] # << >> /\ Head(code[t]) \in Callbacks \cup DeviceQueries
    BY <1>5 DEF PlainCall
  <2>2. Head(code[t]) \notin Stores \cup TrackerStores
               \cup {"getMode", "testStarted", "testAborted", "loadCount", "spawnTimer"}
    BY <2>1 DEF Stores, TrackerStores, LockoutCallbacks, Callbacks, DeviceQueries
  <2> QED
    BY <1>5, <2>1, <2>2, QuietEffect DEF PlainCall
<1>6. CASE Store(t)
  <2> DEFINE r == session[self[t]]
  <2>1. /\ code[t] # << >> /\ self[t] \in Sessions
        /\ code' = [code EXCEPT ![t] = Tail(code[t])] /\ self' = self /\ reg' = reg
    BY <1>0, <1>6 DEF Store, Idle, Continue
  <2>2. /\ code'[t] = Tail(code[t]) /\ \A u \in Threads \ {t} : SameThread(u)
        /\ self'[t] = self[t] /\ reg'[t] = reg[t]
    BY <1>0, <2>1 DEF SameThread
  <2>3. CASE /\ Head(code[t]) \in Stores
             /\ session' = [session EXCEPT ![self[t]] = Stored(Head(code[t]), r, reg[t])]
    <3>1. /\ session'[self[t]] = Stored(Head(code[t]), r, reg[t])
          /\ \A s \in Sessions \ {self[t]} : session'[s] = session[s]
      BY <1>0, <2>1, <2>3
    <3>2. /\ Head(code[t]) \notin TrackerStores \cup {"getMode", "testStarted", "testAborted",
                "loadCount", "goodixOn", "hbmOff", "goodixOff", "getTimeLeft", "spawnTimer",
                "onAuthenticationFailed", "sleep", "waitUiReady"}
      BY <2>3 DEF Stores, TrackerStores, LockoutCallbacks
    <3>3. After(code[t], r, reg[t], code'[t], session'[self[t]], reg'[t])
      BY <2>2, <2>3, <3>1, <3>2 DEF After
    <3> QED
      BY <2>1, <2>2, <2>3, <3>1, <3>2, <3>3 DEF StepEffect
  <2>4. CASE /\ Head(code[t]) \in TrackerStores
             /\ session' = [session EXCEPT ![self[t]] = TrackerStored(Head(code[t]), r, reg[t])]
    <3>1. /\ session'[self[t]] = TrackerStored(Head(code[t]), r, reg[t])
          /\ \A s \in Sessions \ {self[t]} : session'[s] = session[s]
      BY <1>0, <2>1, <2>4
    <3>2. /\ Head(code[t]) \notin Stores \cup Unrelated \cup {"getMode", "testStarted",
                "testAborted",
                "loadCount", "goodixOn", "hbmOff", "goodixOff", "getTimeLeft", "spawnTimer",
                "onAuthenticationFailed", "sleep", "waitUiReady"}
      BY <2>4 DEF Stores, TrackerStores, LockoutCallbacks, Unrelated, LockoutCalls
    <3>3. After(code[t], r, reg[t], code'[t], session'[self[t]], reg'[t])
      BY <2>2, <2>4, <3>1, <3>2 DEF After
    <3> QED
      BY <2>1, <2>2, <2>4, <3>1, <3>2, <3>3 DEF StepEffect
  <2> QED
    BY <1>6, <2>3, <2>4 DEF Store
<1>7. CASE Load(t) \/ Test(t)
  <2> DEFINE r == session[self[t]]
             rest == code'[t]
  <2>1. /\ Head(code[t]) \in {"loadCount", "getTimeLeft", "getMode", "testStarted", "testAborted"}
        /\ code[t] # << >>
        /\ session' = session /\ self' = self
    BY <1>7 DEF Load, Test
  <2>2. self[t] \in Sessions
    BY <1>0, <2>1 DEF Idle
  <2>3. \A u \in Threads \ {t} : SameThread(u)
    BY <1>0, <1>7 DEF SameThread, Load, Test, Continue
  <2>4. Head(code[t]) \notin Stores \cup TrackerStores \cup Unrelated
    BY <2>1 DEF Stores, TrackerStores, LockoutCallbacks, Unrelated, LockoutCalls
  <2>5. After(code[t], r, reg[t], rest, r, reg'[t])
    <3>1. CASE Head(code[t]) = "loadCount"
      <4>1. Load(t)
        BY <1>7, <3>1 DEF Test
      <4>2. rest = Tail(code[t]) /\ reg'[t] = r.mFailedCount + 1
        BY <1>0, <3>1, <4>1 DEF Load, Continue, LoadedCount
      <4> QED
        BY <2>4, <3>1, <4>2 DEF After
    <3>2. CASE Head(code[t]) = "getTimeLeft"
      <4>1. rest = Tail(code[t])
        BY <1>0, <1>7, <3>2 DEF Load, Test, Continue
      <4> QED
        BY <2>4, <3>2, <4>1 DEF After
    <3>3. CASE Head(code[t]) = "getMode"
      <4>1. rest = getMode(r) \o Tail(code[t])
        BY <1>0, <1>7, <3>3 DEF Load, Test, Continue
      <4> QED
        BY <2>4, <3>3, <4>1 DEF After
    <3>4. CASE Head(code[t]) = "testStarted"
      <4>1. rest = IF r.mIsLockoutTimerStarted THEN Tail(code[t])
                   ELSE startLockoutTimer \o Tail(code[t])
        BY <1>0, <1>7, <3>4 DEF Load, Test, Continue
      <4> QED
        BY <2>4, <3>4, <4>1 DEF After
    <3>5. CASE Head(code[t]) = "testAborted"
      <4>1. rest = lockoutTimerExpired(r.mIsLockoutTimerAborted)
        BY <1>0, <1>7, <3>5 DEF Load, Test, Continue
      <4> QED
        BY <2>4, <3>5, <4>1 DEF After
    <3> QED
      BY <2>1, <3>1, <3>2, <3>3, <3>4, <3>5
  <2> QED
    BY <2>1, <2>2, <2>3, <2>5 DEF StepEffect
<1>8. CASE SpawnTimer(t)
  <2>1. /\ Head(code[t]) = "spawnTimer" /\ code[t] # << >> /\ session' = session
    BY <1>8 DEF SpawnTimer
  <2>2. PICK x \in Timers :
          /\ code[x] = << >>
          /\ code' = [code EXCEPT ![t] = Tail(@), ![x] = Asleep]
          /\ self' = [self EXCEPT ![x] = self[t]]
    BY <1>8 DEF SpawnTimer, Idle, Asleep
  <2>3. x # t /\ x \in Threads
    BY <2>1, <2>2 DEF Threads
  <2>4. self[t] \in Sessions
    BY <1>0, <2>1 DEF Idle
  <2>5. /\ code'[t] = Tail(code[t]) /\ code'[x] = Asleep
        /\ self'[t] = self[t] /\ self'[x] = self[t]
        /\ \A u \in Threads \ {t, x} : SameThread(u)
    BY <1>0, <2>2, <2>3 DEF SameThread
  <2>6. Head(code[t]) \notin Stores \cup TrackerStores \cup Unrelated
    BY <2>1 DEF Stores, TrackerStores, LockoutCallbacks, Unrelated, LockoutCalls
  <2>7. After(code[t], session[self[t]], reg[t], code'[t], session'[self[t]], reg'[t])
    BY <2>1, <2>5, <2>6 DEF After
  <2> QED
    BY <2>1, <2>2, <2>3, <2>4, <2>5, <2>7 DEF StepEffect
<1> QED
  BY <1>1, <1>2, <1>3, <1>4, <1>5, <1>6, <1>7, <1>8 DEF Step

-----------------------------------------------------------------------------
(* The invariant of the executions in which handlers do not overlap.        *)

Own == Threads \ {"binder"}

BusyCode(c) == c # << >> /\ Head(c) \notin {"sleep", "waitUiReady"}

OneBusy == \A t, u \in Threads : Busy(t) /\ Busy(u) => t = u

\* A thread that is not in the middle of a handler has nothing to do, or it is a
\* timer that sleeps or a pointer-down that waits.
WaitingRest(t, c) ==
    \/ c = << >>
    \/ t \in Timers /\ c = Asleep
    \/ t = "worker" /\ c = onPointerDown
Waiting == \A t \in Own : ~Busy(t) => WaitingRest(t, code[t])

\* One that is in the middle of it owes its session the rest.
BusyOwes == \A t \in Own : Busy(t) => Owed(t, code[t], session[self[t]], reg[t])

\* The other sessions are settled.
OthersSettled ==
    \A s \in Sessions : (\A t \in Own : Busy(t) => self[t] # s) => Settled(session[s])

\* A timer is out for a session when it is marked as started, or about to be, or
\* when it has just been unmarked; and never two.
Out(x, s) == ~Idle(x) /\ self[x] = s
Marking(s) == \E t \in {"worker", "notify"} : self[t] = s /\ At(t, "timerStarted")
OneOut(s) == \A x, y \in Timers : Out(x, s) /\ Out(y, s) => x = y
MarkedOut(s) == session[s].mIsLockoutTimerStarted \/ Marking(s) => \E x \in Timers : Out(x, s)
OutMarked(s) ==
    \A x \in Timers : Out(x, s) =>
        session[s].mIsLockoutTimerStarted \/ code[x] = Expired4 \/ Marking(s)
TimersOut == \A s \in Sessions : OneOut(s) /\ MarkedOut(s) /\ OutMarked(s)

SInv == OneBusy /\ Waiting /\ BusyOwes /\ OthersSettled /\ TimersOut

\* Whether a thread is in the middle of a handler is seen from its code.
LEMMA BusyIs ==
    ASSUME NEW t
    PROVE  /\ Busy(t) <=> BusyCode(code[t])
           /\ Busy(t)' <=> BusyCode(code'[t])
  BY DEF Busy, BusyCode, At, Idle

\* Nothing owed is all settled.
LEMMA OwedNothing ==
    ASSUME NEW t, NEW r, NEW v, Owed(t, << >>, r, v)
    PROVE  Settled(r)
<1>1. << >> \notin {Pointing, Failed1, Failed2, Failed3, Reset1, Reset2, Reset3, Success1,
                    Success2, Success3, Expiring, Expired1, Expired2, Expired3, Expired4}
  BY DEF Pointing, Failed1, Failed2, Failed3, Reset1, Reset2, Reset3, Success1,
         Success2, Success3, Expiring, Expired1, Expired2, Expired3, Expired4
<1>2. << >> \notin Checking \cup Elapsed \cup Timed \cup Testing
  BY DEF Checking, Elapsed, Timed, Testing
<1>3. << >> \notin Starting \cup Started \cup Permanent \cup Aborting
  BY DEF Starting, Started, Permanent, Aborting
<1> QED
  BY <1>1, <1>2, <1>3 DEF Owed, HandlerOwes, TimerOwes

\* Code that is waited with, and what it goes on to.
LEMMA WaitingRests ==
    /\ Asleep # << >> /\ Head(Asleep) = "sleep" /\ Tail(Asleep) = Expiring
    /\ onPointerDown # << >> /\ Head(onPointerDown) = "waitUiReady"
    /\ Tail(onPointerDown) = Pointing
    /\ Expiring # << >> /\ Pointing # << >> /\ Expired4 # << >>
    /\ Head(Expiring) = "testAborted" /\ Head(Pointing) = "goodixOn"
    /\ Head(Expired4) = "unabortTimer"
  BY DEF Asleep, onPointerDown, Expiring, Pointing, Expired4

\* With a timer on the way to its test the session is marked.
LEMMA ExpiringMarked ==
    ASSUME TypeOK, SInv, NEW t \in Timers, code[t] = Expiring
    PROVE  session[self[t]].mIsLockoutTimerStarted
<1>1. t \in Threads /\ t # "worker" /\ t # "notify" /\ "worker" \in Threads /\ "notify" \in Threads
  BY TimersAssumption DEF Threads
<1>2. ~Idle(t) /\ self[t] \in Sessions
  BY <1>1, WaitingRests DEF Idle, TypeOK
<1>3. OutMarked(self[t])
  BY <1>2 DEF SInv, TimersOut
<1>4. Busy(t)
  BY BusyIs, WaitingRests DEF BusyCode
<1>5. ASSUME NEW u \in {"worker", "notify"}, At(u, "timerStarted") PROVE FALSE
  <2>1. Busy(u)
    BY <1>5, BusyIs DEF BusyCode, At
  <2> QED
    BY <1>1, <1>4, <2>1 DEF SInv, OneBusy
<1>6. ~Marking(self[t])
  BY <1>5 DEF Marking
<1>7. code[t] # Expired4
  BY WaitingRests
<1>8. Out(t, self[t])
  BY <1>2 DEF Out
<1> QED
  BY <1>3, <1>6, <1>7, <1>8 DEF OutMarked

\* What is known of a step of the thread that is in the middle of a handler.
LEMMA BusyStep ==
    ASSUME TypeOK, SInv, NEW t \in Own, StepEffect(t), Busy(t)
    PROVE  /\ Owed(t, code[t], session[self[t]], reg[t])
           /\ Owed(t, code'[t], session'[self[t]], reg'[t])
           /\ MarksSpawned(code[t], code'[t])
           /\ code'[t] = << >> \/ BusyCode(code'[t])
           /\ \A u \in Threads \ {t} : ~Busy(u)
<1>1. /\ t \in Threads /\ session \in [Sessions -> SessionFields] /\ self[t] \in Sessions
      /\ code[t] # << >>
      /\ After(code[t], session[self[t]], reg[t], code'[t], session'[self[t]], reg'[t])
  BY DEF Own, TypeOK, StepEffect
<1>2. session[self[t]] \in SessionFields
  BY <1>1
<1>3. Owed(t, code[t], session[self[t]], reg[t])
  BY DEF SInv, BusyOwes
<1>4. t \in Timers /\ code[t] = Expiring => session[self[t]].mIsLockoutTimerStarted
  BY ExpiringMarked
<1>5. /\ Owed(t, code'[t], session'[self[t]], reg'[t])
      /\ MarksSpawned(code[t], code'[t])
  BY <1>1, <1>2, <1>3, <1>4, OwedNext
<1>6. code'[t] = << >> \/ BusyCode(code'[t])
  BY <1>5, OwedHeads DEF BusyCode
<1>7. \A u \in Threads \ {t} : ~Busy(u)
  BY <1>1 DEF SInv, OneBusy
<1> QED
  BY <1>3, <1>5, <1>6, <1>7

\* Waking up and waiting no longer.
LEMMA WakingStep ==
    ASSUME TypeOK, SInv, NEW t \in Own, StepEffect(t), ~Busy(t), OneBusy'
    PROVE  /\ \/ t \in Timers /\ code[t] = Asleep /\ code'[t] = Expiring
              \/ t \notin Timers /\ code'[t] = Pointing
           /\ Head(code[t]) \in {"sleep", "waitUiReady"}
           /\ BusyCode(code'[t])
           /\ \A s \in Sessions : session'[s] = session[s] /\ Settled(session[s])
           /\ \A u \in Threads \ {t} : SameThread(u) /\ ~Busy(u)
<1>1. t \in Threads /\ "worker" \notin Timers
  BY TimersAssumption DEF Own
<1>2. WaitingRest(t, code[t]) /\ code[t] # << >>
  BY DEF SInv, Waiting, StepEffect
<1>3. Head(code[t]) \in {"sleep", "waitUiReady"}
  BY <1>2, WaitingRests DEF WaitingRest
<1>4. code'[t] = Tail(code[t])
  BY <1>3 DEF StepEffect
<1>5. \/ t \in Timers /\ code[t] = Asleep /\ code'[t] = Expiring
      \/ t \notin Timers /\ code'[t] = Pointing
  BY <1>1, <1>2, <1>4, WaitingRests DEF WaitingRest
<1>6. BusyCode(code'[t])
  BY <1>5, WaitingRests DEF BusyCode
<1>7. \A u \in Threads \ {t} : SameThread(u)
  BY <1>3 DEF StepEffect
<1>8. ASSUME NEW u \in Threads \ {t} PROVE ~Busy(u)
  <2>1. ~Busy(u)'
    BY <1>1, <1>6, BusyIs DEF OneBusy
  <2> QED
    BY <1>7, <2>1, BusyIs DEF SameThread
<1>9. \A s \in Sessions : Settled(session[s])
  BY <1>8 DEF SInv, OthersSettled, Own
<1>10. \A s \in Sessions : session'[s] = session[s]
  BY <1>3 DEF StepEffect, Stores, TrackerStores, LockoutCallbacks
<1> QED
  BY <1>3, <1>5, <1>6, <1>7, <1>8, <1>9, <1>10

\* Steps of the worker, the notify thread and the timers: what is owed.
LEMMA OwnStepOwes ==
    ASSUME TypeOK, SInv, NEW t \in Own, StepEffect(t), OneBusy'
    PROVE  Waiting' /\ BusyOwes' /\ OthersSettled'
<1>1. /\ t \in Threads /\ self[t] \in Sessions /\ self'[t] = self[t]
      /\ \A s \in Sessions \ {self[t]} : session'[s] = session[s]
  BY DEF Own, StepEffect
<1>2. ASSUME Busy(t) PROVE Waiting' /\ BusyOwes' /\ OthersSettled'
  <2>1. /\ Owed(t, code'[t], session'[self[t]], reg'[t])
        /\ code'[t] = << >> \/ BusyCode(code'[t])
        /\ \A u \in Threads \ {t} : ~Busy(u)
    BY <1>2, BusyStep
  <2>2. ASSUME NEW u \in Own \ {t}
        PROVE  WaitingRest(u, code'[u]) /\ ~Busy(u)'
    <3>1. WaitingRest(u, code[u]) /\ ~Busy(u)
      BY <2>1 DEF SInv, Waiting, Own
    <3>2. SameThread(u) \/ (u \in Timers /\ code'[u] = Asleep)
      BY DEF StepEffect, Own
    <3>3. CASE SameThread(u)
      BY <3>1, <3>3, BusyIs DEF SameThread
    <3>4. CASE u \in Timers /\ code'[u] = Asleep
      BY <3>4, BusyIs, WaitingRests DEF WaitingRest, BusyCode
    <3> QED
      BY <3>2, <3>3, <3>4
  <2>3. ~Busy(t)' => code'[t] = << >>
    BY <2>1, BusyIs
  <2>4. Waiting'
    BY <2>2, <2>3 DEF Waiting, WaitingRest
  <2>5. BusyOwes'
    BY <1>1, <2>1, <2>2 DEF BusyOwes
  <2>6. ASSUME NEW s \in Sessions, \A u \in Own : Busy(u)' => self'[u] # s
        PROVE  Settled(session'[s])
    <3>1. CASE s = self[t]
      <4>1. code'[t] = << >>
        BY <1>1, <2>3, <2>6, <3>1
      <4> QED
        BY <2>1, <3>1, <4>1, OwedNothing
    <3>2. CASE s # self[t]
      <4>1. \A u \in Own : Busy(u) => self[u] # s
        BY <2>1, <3>2 DEF Own
      <4>2. Settled(session[s])
        BY <4>1 DEF SInv, OthersSettled
      <4> QED
        BY <1>1, <3>2, <4>2
    <3> QED
      BY <3>1, <3>2
  <2>7. OthersSettled'
    BY <2>6 DEF OthersSettled
  <2> QED
    BY <2>4, <2>5, <2>7
<1>3. ASSUME ~Busy(t) PROVE Waiting' /\ BusyOwes' /\ OthersSettled'
  <2>1. /\ \/ t \in Timers /\ code[t] = Asleep /\ code'[t] = Expiring
           \/ t \notin Timers /\ code'[t] = Pointing
        /\ BusyCode(code'[t])
        /\ \A s \in Sessions : session'[s] = session[s] /\ Settled(session[s])
        /\ \A u \in Threads \ {t} : SameThread(u) /\ ~Busy(u)
    BY <1>3, WakingStep
  <2>2. ASSUME NEW u \in Own \ {t}
        PROVE  WaitingRest(u, code'[u]) /\ ~Busy(u)'
    <3>1. WaitingRest(u, code[u]) /\ ~Busy(u) /\ SameThread(u)
      BY <2>1 DEF SInv, Waiting, Own
    <3> QED
      BY <3>1, BusyIs DEF SameThread
  <2>3. Busy(t)'
    BY <2>1, BusyIs
  <2>4. Waiting'
    BY <2>2, <2>3 DEF Waiting
  <2>5. Settled(session'[self'[t]])
    BY <1>1, <2>1
  <2>6. Owed(t, code'[t], session'[self'[t]], reg'[t])
    BY <2>1, <2>5 DEF Owed, HandlerOwes, TimerOwes
  <2>7. BusyOwes'
    BY <2>2, <2>6 DEF BusyOwes
  <2>8. OthersSettled'
    BY <2>1 DEF OthersSettled
  <2> QED
    BY <2>4, <2>7, <2>8
<1> QED
  BY <1>2, <1>3

\* Sessions other than the thread's own keep their timers.
LEMMA OtherTimers ==
    ASSUME TypeOK, SInv, NEW t \in Own, StepEffect(t), NEW s \in Sessions, s # self[t]
    PROVE  (OneOut(s) /\ MarkedOut(s) /\ OutMarked(s))'
<1>1. /\ t \in Threads /\ self'[t] = self[t] /\ session'[s] = session[s]
      /\ Timers \subseteq Threads /\ {"worker", "notify"} \subseteq Threads
      /\ {"worker", "notify"} \cap Timers = {}
  BY TimersAssumption DEF Own, StepEffect, Threads
<1>2. ASSUME NEW u \in Threads
      PROVE  \/ SameThread(u)
             \/ self'[u] # s /\ (self[u] # s \/ code[u] = << >>)
    <2>1. CASE u = t
      BY <1>1, <2>1
    <2>2. CASE u # t
      BY <2>2 DEF StepEffect
    <2> QED
      BY <2>1, <2>2
<1>3. ASSUME NEW x \in Timers
      PROVE  /\ Out(x, s)' <=> Out(x, s)
             /\ Out(x, s)' => code'[x] = code[x]
  BY <1>1, <1>2 DEF SameThread, Out, Idle
<1>4. Marking(s)' <=> Marking(s)
  BY <1>1, <1>2 DEF SameThread, Marking, At
<1>5. OneOut(s) /\ MarkedOut(s) /\ OutMarked(s)
  BY DEF SInv, TimersOut
<1>6. OneOut(s)'
  BY <1>3, <1>5 DEF OneOut
<1>7. MarkedOut(s)'
  BY <1>1, <1>3, <1>4, <1>5 DEF MarkedOut
<1>8. OutMarked(s)'
  BY <1>1, <1>3, <1>4, <1>5 DEF OutMarked
<1> QED
  BY <1>6, <1>7, <1>8

\* A thread that is about to mark a timer is in the middle of a handler.
LEMMA MarkingBusy ==
    ASSUME SInv, NEW s, Marking(s)
    PROVE  \E u \in {"worker", "notify"} : self[u] = s /\ At(u, "timerStarted") /\ Busy(u)
  BY BusyIs DEF Marking, BusyCode, At

\* The timers of the thread's own session.
LEMMA OwnTimers ==
    ASSUME TypeOK, SInv, NEW t \in Own, StepEffect(t), OneBusy',
           NEW s \in Sessions, s = self[t], NEW h, h = Head(code[t])
    PROVE  (OneOut(s) /\ MarkedOut(s) /\ OutMarked(s))'
<1>1. /\ t \in Threads /\ self'[t] = s /\ code[t] # << >> /\ s \in Sessions
      /\ Timers \subseteq Threads /\ {"worker", "notify"} \subseteq Threads
      /\ {"worker", "notify"} \cap Timers = {} /\ t \in Timers \cup {"worker", "notify"}
      /\ session[s] \in SessionFields
  BY TimersAssumption DEF Own, StepEffect, Threads, TypeOK
<1>2. /\ After(code[t], session[s], reg[t], code'[t], session'[s], reg'[t])
      /\ h \in Stores \cup TrackerStores \/ session'[s] = session[s]
  BY DEF StepEffect
<1>3. OneOut(s) /\ MarkedOut(s) /\ OutMarked(s)
  BY <1>1 DEF SInv, TimersOut
<1>4. /\ h \notin {"timerStarted", "timerStopped"} =>
           session'[s].mIsLockoutTimerStarted = session[s].mIsLockoutTimerStarted
      /\ h = "timerStarted" => session'[s].mIsLockoutTimerStarted
      /\ h = "timerStopped" => code'[t] = Tail(code[t])
  <2>1. Head(code[t]) \in Stores \cup TrackerStores \/ session'[s] = session[s]
    BY <1>2
  <2>2. /\ Head(code[t]) \notin {"timerStarted", "timerStopped"} =>
             session'[s].mIsLockoutTimerStarted = session[s].mIsLockoutTimerStarted
        /\ Head(code[t]) = "timerStarted" => session'[s].mIsLockoutTimerStarted
        /\ Head(code[t]) = "timerStopped" => code'[t] = Tail(code[t])
    BY <1>1, <1>2, <2>1, MarkKept, ZenonT(60)
  <2> QED
    BY <2>2, Zenon
<1>5. ~Busy(t) => /\ h \in {"sleep", "waitUiReady"} /\ BusyCode(code'[t])
                  /\ code'[t] \in {Expiring, Pointing}
  BY WakingStep
<1>6. Busy(t) => /\ Owed(t, code[t], session[s], reg[t])
                 /\ MarksSpawned(code[t], code'[t])
                 /\ \A u \in Threads \ {t} : ~Busy(u)
  BY BusyStep
<1>7. h \notin {"sleep", "waitUiReady"} => Busy(t)
  BY <1>1, BusyIs DEF BusyCode
<1>8. Busy(t) => h \notin {"sleep", "waitUiReady"}
  BY BusyIs DEF BusyCode
<1>9. CASE h = "spawnTimer"
  <2>1. t \notin Timers /\ ~session[s].mIsLockoutTimerStarted
    BY <1>1, <1>6, <1>7, <1>9, OwedHeads
  <2>2. PICK x \in Timers \ {t} :
            /\ code[x] = << >> /\ code'[x] = Asleep /\ self'[x] = s
            /\ \A u \in Threads \ {t, x} : SameThread(u)
    BY <1>9 DEF StepEffect
  <2>3. ~Marking(s)
    <3>1. SUFFICES ASSUME Marking(s) PROVE FALSE
      OBVIOUS
    <3>2. PICK u \in {"worker", "notify"} : self[u] = s /\ At(u, "timerStarted") /\ Busy(u)
      BY <3>1, MarkingBusy
    <3>3. u # t
      BY <1>9, <3>2 DEF At
    <3> QED
      BY <1>1, <1>6, <1>7, <1>9, <3>2, <3>3
  <2>4. ASSUME NEW y \in Timers PROVE ~Out(y, s)
    <3>1. SUFFICES ASSUME Out(y, s) PROVE FALSE
      OBVIOUS
    <3>2. code[y] = Expired4
      BY <1>3, <2>1, <2>3, <3>1 DEF OutMarked
    <3>3. Busy(y)
      BY <3>2, BusyIs, WaitingRests DEF BusyCode
    <3> QED
      BY <1>1, <1>6, <1>7, <1>9, <2>1, <3>3
  <2>5. Out(x, s)'
    BY <2>2, WaitingRests DEF Out, Idle
  <2>6. ASSUME NEW y \in Timers, Out(y, s)' PROVE y = x
    <3>1. SUFFICES ASSUME y # x PROVE FALSE
      OBVIOUS
    <3>2. SameThread(y)
      BY <1>1, <2>1, <2>2, <3>1
    <3> QED
      BY <2>4, <2>6, <3>2 DEF SameThread, Out, Idle
  <2>7. Marking(s)'
    <3>1. code'[t] \in Started
      <4>1. HandlerOwes(code[t], session[s], reg[t])
        BY <1>1, <1>6, <1>7, <1>9, <2>1 DEF Owed
      <4>2. code[t] \in Starting
        <5>1. code[t] \notin Seq(Unrelated)
          BY <1>1, <1>9, UnrelatedRests DEF LockoutCalls
        <5>2. code[t] \notin {Pointing, Failed1, Failed2, Failed3, Reset1, Reset2, Reset3,
                    Success1, Success2, Success3}
          BY <1>9, OtherRests
        <5>3. code[t] \notin Checking \cup Elapsed \cup Timed \cup Testing \cup Started
                    \cup Permanent \cup Aborting
          BY <1>9, CheckRests
        <5> QED
          BY <4>1, <5>1, <5>2, <5>3 DEF HandlerOwes
      <4>3. Tail(code[t]) \in Started
        BY <1>9, <4>2, CheckRests
      <4>4. code'[t] = Tail(code[t])
        BY <1>2, <1>9 DEF After
      <4> QED
        BY <4>3, <4>4
    <3>2. code'[t] # << >> /\ Head(code'[t]) = "timerStarted"
      BY <3>1, CheckRests DEF Started
    <3> QED
      BY <1>1, <2>1, <3>2 DEF Marking, At
  <2>8. OneOut(s)'
    BY <2>6 DEF OneOut
  <2>9. MarkedOut(s)'
    BY <2>5 DEF MarkedOut
  <2>10. OutMarked(s)'
    BY <2>7 DEF OutMarked
  <2> QED
    BY <2>8, <2>9, <2>10
<1>10. ASSUME h # "spawnTimer" PROVE \A u \in Threads \ {t} : SameThread(u)
  BY <1>10 DEF StepEffect
<1>11. ASSUME h # "spawnTimer", NEW x \in Timers, Out(x, s)' PROVE Out(x, s)
  <2>1. CASE x = t
    BY <1>1, <2>1 DEF Out, Idle
  <2>2. CASE x # t
    BY <1>1, <1>10, <1>11, <2>2 DEF SameThread, Out, Idle
  <2> QED
    BY <2>1, <2>2
<1>12. ASSUME h # "spawnTimer", NEW x \in Timers, Out(x, s), x # t \/ code'[t] # << >>
       PROVE  Out(x, s)'
  <2>1. CASE x = t
    BY <1>1, <1>12, <2>1 DEF Out, Idle
  <2>2. CASE x # t
    BY <1>1, <1>10, <1>12, <2>2 DEF SameThread, Out, Idle
  <2> QED
    BY <2>1, <2>2
<1>13. h # "spawnTimer" => OneOut(s)'
  BY <1>3, <1>11 DEF OneOut
<1>14. CASE h = "timerStarted"
  <2>0. Busy(t) /\ Owed(t, code[t], session[s], reg[t])
    BY <1>6, <1>7, <1>14
  <2>1. t \notin Timers
    BY <1>1, <1>2, <1>14, <2>0, TimerHeads
  <2>2. Marking(s)
    BY <1>1, <1>14, <2>1 DEF Marking, At
  <2>3. PICK x \in Timers : Out(x, s)
    BY <1>3, <2>2 DEF MarkedOut
  <2>4. Out(x, s)'
    BY <1>12, <1>14, <2>1, <2>3
  <2>5. MarkedOut(s)'
    BY <2>4 DEF MarkedOut
  <2>6. OutMarked(s)'
    BY <1>4, <1>14 DEF OutMarked
  <2> QED
    BY <1>13, <1>14, <2>5, <2>6
<1>15. CASE h = "timerStopped"
  <2>0. Busy(t) /\ Owed(t, code[t], session[s], reg[t])
    BY <1>6, <1>7, <1>15
  <2>1. t \in Timers /\ code'[t] = Expired4
    BY <1>1, <1>4, <1>15, <2>0, OwedHeads
  <2>2. Out(t, s)
    BY <1>1 DEF Out, Idle
  <2>3. Out(t, s)'
    BY <1>12, <1>15, <2>1, <2>2, WaitingRests
  <2>4. MarkedOut(s)'
    BY <2>1, <2>3 DEF MarkedOut
  <2>5. \A x \in Timers : Out(x, s)' => x = t
    BY <1>3, <1>11, <1>15, <2>1, <2>2 DEF OneOut
  <2>6. OutMarked(s)'
    BY <2>1, <2>5 DEF OutMarked
  <2> QED
    BY <1>13, <1>15, <2>4, <2>6
<1>16. CASE h \notin {"spawnTimer", "timerStarted", "timerStopped"}
  <2>1. session'[s].mIsLockoutTimerStarted = session[s].mIsLockoutTimerStarted
    BY <1>4, <1>16
  <2>2. t \in Timers /\ code'[t] = << >> => ~session'[s].mIsLockoutTimerStarted /\ Busy(t)
    <3>1. SUFFICES ASSUME t \in Timers, code'[t] = << >>
                   PROVE  ~session'[s].mIsLockoutTimerStarted /\ Busy(t)
      OBVIOUS
    <3>2. Busy(t)
      BY <1>5, <3>1 DEF BusyCode
    <3> QED
      BY <1>1, <1>2, <1>6, <3>1, <3>2, TimerHeads
  <2>3. Marking(s)' => Marking(s) /\ ~Busy(t)
    <3>1. SUFFICES ASSUME Marking(s)' PROVE Marking(s) /\ ~Busy(t)
      OBVIOUS
    <3>2. PICK u \in {"worker", "notify"} : (self[u] = s)' /\ At(u, "timerStarted")'
      BY <3>1 DEF Marking
    <3>3. u # t
      <4>1. SUFFICES ASSUME u = t PROVE FALSE
        OBVIOUS
      <4>2. code'[t] # << >> /\ Head(code'[t]) = "timerStarted"
        BY <3>2, <4>1 DEF At
      <4>3. Busy(t)
        BY <1>5, <4>2, WaitingRests
      <4> QED
        BY <1>6, <1>16, <4>2, <4>3 DEF MarksSpawned
    <3>4. SameThread(u)
      BY <1>1, <1>10, <1>16, <3>3
    <3>5. self[u] = s /\ At(u, "timerStarted")
      BY <3>2, <3>4 DEF SameThread, At
    <3>6. Busy(u)
      BY <3>5, BusyIs DEF BusyCode, At
    <3> QED
      BY <1>1, <1>6, <3>3, <3>5, <3>6 DEF Marking
  <2>4. Marking(s) => Marking(s)'
    <3>1. SUFFICES ASSUME Marking(s) PROVE Marking(s)'
      OBVIOUS
    <3>2. PICK u \in {"worker", "notify"} : self[u] = s /\ At(u, "timerStarted") /\ Busy(u)
      BY <3>1, MarkingBusy
    <3>3. u # t
      BY <1>16, <3>2 DEF At
    <3>4. SameThread(u)
      BY <1>1, <1>10, <1>16, <3>3
    <3> QED
      BY <3>2, <3>4 DEF SameThread, At, Marking
  <2>5. MarkedOut(s)'
    <3>1. SUFFICES ASSUME session'[s].mIsLockoutTimerStarted \/ Marking(s)'
                   PROVE  \E x \in Timers : Out(x, s)'
      BY DEF MarkedOut
    <3>2. PICK x \in Timers : Out(x, s)
      BY <1>3, <2>1, <2>3, <3>1 DEF MarkedOut
    <3>3. x # t \/ code'[t] # << >>
      BY <2>2, <2>3, <3>1, <3>2
    <3> QED
      BY <1>12, <1>16, <3>2, <3>3
  <2>6. OutMarked(s)'
    <3>1. SUFFICES ASSUME NEW x \in Timers, Out(x, s)'
                   PROVE  \/ session'[s].mIsLockoutTimerStarted
                          \/ code'[x] = Expired4 \/ Marking(s)'
      BY DEF OutMarked
    <3>2. Out(x, s)
      BY <1>11, <1>16, <3>1
    <3>3. session[s].mIsLockoutTimerStarted \/ code[x] = Expired4 \/ Marking(s)
      BY <1>3, <3>2 DEF OutMarked
    <3>4. CASE code[x] = Expired4 /\ x # t
      BY <1>1, <1>10, <1>16, <3>4 DEF SameThread
    <3>5. CASE code[x] = Expired4 /\ x = t
      <4>1. h = "unabortTimer" /\ Tail(code[t]) = << >>
        BY <3>5, OtherRests
      <4>2. code'[t] = << >>
        BY <1>2, <4>1 DEF After, Stores
      <4> QED
        BY <3>1, <3>5, <4>2 DEF Out, Idle
    <3> QED
      BY <2>1, <2>4, <3>3, <3>4, <3>5
  <2> QED
    BY <1>13, <1>16, <2>5, <2>6
<1> QED
  BY <1>9, <1>14, <1>15, <1>16

\* Nothing of the worker, the notify thread and the timers changes.
LEMMA OwnKept ==
    ASSUME SInv, OneBusy', \A u \in Own : SameThread(u),
           \A s \in Sessions : SameLockout(session[s], session'[s]),
           \/ session' = session /\ reg' = reg
           \/ \A u \in Own : ~Busy(u)
    PROVE  SInv'
<1>0. Timers \subseteq Own /\ {"worker", "notify"} \subseteq Own
  BY TimersAssumption DEF Own, Threads
<1>1. \A u \in Own : Busy(u)' <=> Busy(u)
  BY BusyIs DEF SameThread
<1>2. Waiting'
  BY <1>1 DEF SInv, Waiting, SameThread
<1>3. BusyOwes'
  BY <1>1 DEF SInv, BusyOwes, SameThread
<1>4. OthersSettled'
  <2>1. ASSUME NEW s \in Sessions, \A u \in Own : Busy(u)' => self'[u] # s
        PROVE  Settled(session'[s])
    <3>1. Settled(session[s])
      BY <1>1, <2>1 DEF SInv, OthersSettled, SameThread
    <3> QED
      BY <3>1, SameSettled
  <2> QED
    BY <2>1 DEF OthersSettled
<1>5. TimersOut'
  <2>1. ASSUME NEW s \in Sessions PROVE (OneOut(s) /\ MarkedOut(s) /\ OutMarked(s))'
    <3>1. OneOut(s) /\ MarkedOut(s) /\ OutMarked(s)
      BY DEF SInv, TimersOut
    <3>2. \A x \in Timers : (Out(x, s)' <=> Out(x, s)) /\ code'[x] = code[x]
      BY <1>0 DEF SameThread, Out, Idle
    <3>3. Marking(s)' <=> Marking(s)
      BY <1>0 DEF SameThread, Marking, At
    <3>4. session'[s].mIsLockoutTimerStarted = session[s].mIsLockoutTimerStarted
      BY DEF SameLockout
    <3>5. OneOut(s)'
      BY <3>1, <3>2 DEF OneOut
    <3>6. MarkedOut(s)'
      BY <3>1, <3>2, <3>3, <3>4 DEF MarkedOut
    <3>7. OutMarked(s)'
      BY <3>1, <3>2, <3>3, <3>4 DEF OutMarked
    <3> QED
      BY <3>5, <3>6, <3>7
  <2> QED
    BY <2>1 DEF TimersOut
<1> QED
  BY <1>2, <1>3, <1>4, <1>5 DEF SInv

\* The binder thread only touches the gate and the closed flag.
LEMMA BinderStepSInv ==
    ASSUME TypeOK, BinderOrderly, SInv, Step("binder"), OneBusy'
    PROVE  SInv'
<1> DEFINE b == "binder"
           h == Head(code["binder"])
<1>0. b \in Threads /\ b \notin Own /\ Own \subseteq Threads \ {b}
  BY DEF Threads, Own
<1>1. StepEffect(b)
  BY <1>0, StepEffects
<1>2. code[b] # << >> /\ self[b] \in Sessions /\ session[self[b]] \in SessionFields
  BY <1>1 DEF StepEffect, TypeOK
<1>3. h \in Tasks \cup {"uiReady", "onSessionClosed", "hbmOn", "uiNotReady", "close", "markClosed"}
  <2>1. At("binder", h)
    BY <1>2 DEF At
  <2>2. code["binder"] \in BinderRests
    BY DEF BinderOrderly
  <2> HIDE DEF h
  <2> QED
    BY <2>1, <2>2, BinderHeads
<1>4. h \notin {"sleep", "waitUiReady", "spawnTimer"} \cup TrackerStores
  BY <1>3 DEF Tasks, TrackerStores
<1>5. Busy(b)
  BY <1>2, <1>4, BusyIs DEF BusyCode
<1>6. \A u \in Own : ~Busy(u)
  BY <1>0, <1>5 DEF SInv, OneBusy
<1>7. \A u \in Own : SameThread(u)
  BY <1>0, <1>1, <1>4 DEF StepEffect
<1>8. SameLockout(session[self[b]], session'[self[b]])
  <2>1. CASE h \in Stores
    <3>1. h \in {"uiReady", "uiNotReady", "markClosed"}
      BY <1>3, <2>1 DEF Stores, LockoutCallbacks, Tasks
    <3>2. session'[self[b]] = Stored(h, session[self[b]], reg[b])
      BY <1>1, <2>1 DEF StepEffect, After
    <3> HIDE DEF h
    <3> QED
      BY <1>2, <3>1, <3>2, GateStores
  <2>2. CASE h \notin Stores
    <3>1. session'[self[b]] = session[self[b]]
      BY <1>1, <1>4, <2>2 DEF StepEffect
    <3> QED
      BY <3>1 DEF SameLockout
  <2> QED
    BY <2>1, <2>2
<1>9. \A s \in Sessions : SameLockout(session[s], session'[s])
  <2>1. ASSUME NEW s \in Sessions, s # self[b] PROVE SameLockout(session[s], session'[s])
    <3>1. session'[s] = session[s]
      BY <1>1, <2>1 DEF StepEffect
    <3> QED
      BY <3>1 DEF SameLockout
  <2> QED
    BY <1>8, <2>1
<1> QED
  BY <1>6, <1>7, <1>9, OwnKept

\* Code that a settled session can be handed to.
Begins(c) ==
    /\ c # << >>
    /\ c \in Seq(Unrelated) \/ c \in {Reset1, Success1, Failed1}

\* Such code owes nothing yet, and is the middle of a handler.
LEMMA BeginsOwes ==
    ASSUME NEW t, t \notin Timers, NEW c, Begins(c), NEW r, Settled(r), NEW v
    PROVE  /\ Owed(t, c, r, v) /\ BusyCode(c) /\ Head(c) # "timerStarted"
<1>1. Owed(t, c, r, v)
  BY DEF Begins, Owed, HandlerOwes
<1>2. Head(c) \notin {"sleep", "waitUiReady"}
  BY <1>1, OwedHeads DEF Begins
<1>3. Head(c) # "timerStarted"
  <2>1. CASE c \in Seq(Unrelated)
    BY <2>1, UnrelatedRests DEF Begins, LockoutCalls
  <2>2. CASE c \in {Reset1, Success1, Failed1}
    BY <2>2, OtherRests
  <2> QED
    BY <2>1, <2>2 DEF Begins
<1> QED
  BY <1>1, <1>2, <1>3 DEF Begins, BusyCode

\* The worker or the notify thread turns to a handler.
LEMMA OwnStarts ==
    ASSUME TypeOK, SInv, OneBusy', NEW t \in {"worker", "notify"}, ~At(t, "timerStarted"),
           NEW c1, NEW s1 \in Sessions, code' = [code EXCEPT ![t] = c1],
           self' = [self EXCEPT ![t] = s1], session' = session, reg' = reg,
           \/ Begins(c1) /\ (Busy(t) => Settled(session[self[t]]))
           \/ code[t] = << >> /\ t = "worker" /\ c1 = onPointerDown
    PROVE  SInv'
<1>0. /\ t \in Own /\ t \in Threads /\ t \notin Timers /\ Timers \subseteq Threads
      /\ {"worker", "notify"} \subseteq Threads /\ Own \subseteq Threads
  BY TimersAssumption DEF Own, Threads
<1>1. /\ code'[t] = c1 /\ self'[t] = s1
      /\ \A u \in Threads \ {t} : SameThread(u)
  BY <1>0 DEF TypeOK, SameThread
<1>2. \A u \in Threads \ {t} : Busy(u)' <=> Busy(u)
  BY <1>1, BusyIs DEF SameThread
<1>3. ~At(t, "timerStarted")'
  <2>1. CASE c1 = onPointerDown
    BY <1>1, <2>1, WaitingRests DEF At
  <2>2. CASE Begins(c1)
    <3>1. CASE c1 \in Seq(Unrelated)
      BY <1>1, <3>1, UnrelatedRests DEF At, LockoutCalls
    <3>2. CASE c1 \in {Reset1, Success1, Failed1}
      BY <1>1, <3>2, OtherRests DEF At
    <3> QED
      BY <2>2, <3>1, <3>2 DEF Begins
  <2> QED
    BY <2>1, <2>2
<1>4. TimersOut'
  <2>1. ASSUME NEW s \in Sessions PROVE (OneOut(s) /\ MarkedOut(s) /\ OutMarked(s))'
    <3>1. OneOut(s) /\ MarkedOut(s) /\ OutMarked(s)
      BY DEF SInv, TimersOut
    <3>2. \A x \in Timers : (Out(x, s)' <=> Out(x, s)) /\ code'[x] = code[x]
      BY <1>0, <1>1 DEF SameThread, Out, Idle
    <3>3. \A u \in {"worker", "notify"} :
             (self[u] = s /\ At(u, "timerStarted"))' <=> (self[u] = s /\ At(u, "timerStarted"))
      BY <1>0, <1>1, <1>3 DEF SameThread, At
    <3>4. Marking(s)' <=> Marking(s)
      BY <3>3 DEF Marking
    <3>5. OneOut(s)'
      BY <3>1, <3>2 DEF OneOut
    <3>6. MarkedOut(s)'
      BY <3>1, <3>2, <3>4 DEF MarkedOut
    <3>7. OutMarked(s)'
      BY <3>1, <3>2, <3>4 DEF OutMarked
    <3> QED
      BY <3>5, <3>6, <3>7
  <2> QED
    BY <2>1 DEF TimersOut
<1>5. CASE Begins(c1) /\ (Busy(t) => Settled(session[self[t]]))
  <2>1. Busy(t)'
    <3>1. BusyCode(c1)
      <4>1. CASE c1 \in Seq(Unrelated)
        BY <1>5, <4>1, UnrelatedRests DEF Begins, BusyCode, LockoutCalls
      <4>2. CASE c1 \in {Reset1, Success1, Failed1}
        BY <1>5, <4>2, OtherRests DEF Begins, BusyCode
      <4> QED
        BY <1>5, <4>1, <4>2 DEF Begins
    <3> QED
      BY <1>1, <3>1, BusyIs
  <2>2. \A u \in Threads \ {t} : ~Busy(u) /\ ~Busy(u)'
    BY <1>0, <1>2, <2>1 DEF OneBusy
  <2>3. ASSUME NEW s \in Sessions PROVE Settled(session[s])
    <3>1. CASE Busy(t) /\ self[t] = s
      BY <1>5, <3>1
    <3>2. CASE ~(Busy(t) /\ self[t] = s)
      <4>1. \A u \in Own : Busy(u) => self[u] # s
        BY <1>0, <2>2, <3>2
      <4> QED
        BY <4>1 DEF SInv, OthersSettled
    <3> QED
      BY <3>1, <3>2
  <2>4. Waiting'
    <3>1. ASSUME NEW u \in Own, ~Busy(u)' PROVE WaitingRest(u, code'[u])
      <4>1. u # t /\ ~Busy(u)
        BY <1>0, <2>1, <2>2, <3>1
      <4> QED
        BY <1>0, <1>1, <4>1 DEF SInv, Waiting, SameThread
    <3> QED
      BY <3>1 DEF Waiting
  <2>5. Owed(t, c1, session[s1], reg[t])
    BY <1>0, <1>5, <2>3, BeginsOwes
  <2>6. BusyOwes'
    BY <1>0, <1>1, <2>2, <2>5 DEF BusyOwes
  <2>7. OthersSettled'
    BY <2>3 DEF OthersSettled
  <2> QED
    BY <1>4, <2>4, <2>6, <2>7 DEF SInv
<1>6. CASE code[t] = << >> /\ t = "worker" /\ c1 = onPointerDown
  <2>1. ~Busy(t) /\ ~Busy(t)'
    BY <1>1, <1>6, BusyIs, WaitingRests DEF BusyCode
  <2>2. \A u \in Own : Busy(u)' <=> Busy(u)
    BY <1>0, <1>2, <2>1
  <2>3. Waiting'
    <3>1. ASSUME NEW u \in Own, ~Busy(u)' PROVE WaitingRest(u, code'[u])
      <4>1. CASE u = t
        BY <1>1, <1>6, <4>1 DEF WaitingRest
      <4>2. CASE u # t
        BY <1>0, <1>1, <2>2, <3>1, <4>2 DEF SInv, Waiting, SameThread
      <4> QED
        BY <4>1, <4>2
    <3> QED
      BY <3>1 DEF Waiting
  <2>4. ASSUME NEW u \in Own, Busy(u)' PROVE Busy(u) /\ u # t /\ SameThread(u)
    BY <1>0, <1>1, <2>1, <2>2, <2>4
  <2>5. BusyOwes'
    BY <2>4 DEF SInv, BusyOwes, SameThread
  <2>6. ASSUME NEW s \in Sessions, \A u \in Own : Busy(u)' => self'[u] # s
        PROVE  Settled(session[s])
    <3>1. \A u \in Own : Busy(u) => self[u] # s
      BY <2>2, <2>4, <2>6 DEF SameThread
    <3> QED
      BY <3>1 DEF SInv, OthersSettled
  <2>7. OthersSettled'
    BY <2>6 DEF OthersSettled
  <2> QED
    BY <1>4, <2>3, <2>5, <2>7 DEF SInv
<1> QED
  BY <1>5, <1>6

\* The handlers begin so.
LEMMA TaskBegins ==
    ASSUME NEW task \in Tasks, task # "onPointerDown"
    PROVE  Begins(TaskCode[task])
<1> USE DEF TaskCode
<1>0. {"hbmOff", "goodixOff", "uiNotReady", "devCancel", "onChallengeRevoked", "devEnroll",
       "devAuthenticate", "hbmOn", "onChallengeGenerated", "onError", "devEnumerate", "devRemove",
       "onAuthenticatorIdInvalidated", "onAuthenticatorIdRetrieved"} \subseteq Unrelated
  BY DEF Unrelated, LockoutCalls, LockoutCallbacks, TrackerStores, Calls, Stores, Callbacks,
         DeviceQueries
<1>1. CASE task \in {"enroll", "authenticate"}
  <2>1. TaskCode[task] \in {<<"devEnroll", "hbmOn">>, <<"devAuthenticate", "hbmOn">>}
    BY <1>1 DEF enroll, authenticate
  <2>2. /\ <<"devEnroll", "hbmOn">> \in Seq(Unrelated)
        /\ <<"devAuthenticate", "hbmOn">> \in Seq(Unrelated)
    BY <1>0, ShortSeqs
  <2>3. TaskCode[task] # << >>
    BY <2>1
  <2> HIDE DEF TaskCode
  <2> QED
    BY <2>1, <2>2, <2>3 DEF Begins
<1>2. CASE task \in {"close", "cancel", "revokeChallenge"}
  <2>1. TaskCode[task] \in
          {<<"hbmOff", "goodixOff", "uiNotReady">>,
           <<"hbmOff", "goodixOff", "uiNotReady", "devCancel">>,
           <<"hbmOff", "goodixOff", "onChallengeRevoked">>}
    BY <1>2 DEF close, cancel, revokeChallenge
  <2>2. /\ <<"hbmOff", "goodixOff", "uiNotReady">> \in Seq(Unrelated)
        /\ <<"hbmOff", "goodixOff", "uiNotReady", "devCancel">> \in Seq(Unrelated)
        /\ <<"hbmOff", "goodixOff", "onChallengeRevoked">> \in Seq(Unrelated)
    BY <1>0, ShortSeqs
  <2>3. TaskCode[task] # << >>
    BY <2>1
  <2> HIDE DEF TaskCode
  <2> QED
    BY <2>1, <2>2, <2>3 DEF Begins
<1>3. CASE task \in {"generateChallenge", "detectInteraction", "enumerateEnrollments",
                    "removeEnrollments", "invalidateAuthenticatorId", "getAuthenticatorId",
                    "onPointerUp"}
  <2>1. TaskCode[task] \in
          {<<"onChallengeGenerated">>, <<"onError">>, <<"devEnumerate">>, <<"devRemove">>,
           <<"onAuthenticatorIdInvalidated">>, <<"onAuthenticatorIdRetrieved", "goodixOff">>,
           <<"goodixOff", "uiNotReady">>}
    BY <1>3 DEF generateChallenge, detectInteraction, enumerateEnrollments,
                removeEnrollments, invalidateAuthenticatorId, getAuthenticatorId, onPointerUp
  <2>2. /\ <<"onChallengeGenerated">> \in Seq(Unrelated) /\ <<"onError">> \in Seq(Unrelated)
        /\ <<"devEnumerate">> \in Seq(Unrelated) /\ <<"devRemove">> \in Seq(Unrelated)
        /\ <<"onAuthenticatorIdInvalidated">> \in Seq(Unrelated)
        /\ <<"onAuthenticatorIdRetrieved", "goodixOff">> \in Seq(Unrelated)
        /\ <<"goodixOff", "uiNotReady">> \in Seq(Unrelated)
    BY <1>0, ShortSeqs
  <2>3. TaskCode[task] # << >>
    BY <2>1
  <2> HIDE DEF TaskCode
  <2> QED
    BY <2>1, <2>2, <2>3 DEF Begins
<1>4. CASE task = "resetLockout"
  <2>1. TaskCode[task] = Reset1
    BY <1>4 DEF resetLockout, Reset1
  <2>2. Reset1 # << >>
    BY DEF Reset1
  <2> HIDE DEF TaskCode
  <2> QED
    BY <2>1, <2>2 DEF Begins
<1> QED
  BY <1>1, <1>2, <1>3, <1>4 DEF Tasks

\* So do a message and what Session::notify does with it.
LEMMA NotifyBegins ==
    ASSUME NEW m \in Messages
    PROVE  Begins(NotifyCode[m]) /\ Begins(<<m>>)
<1>1. {"onError", "uiNotReady", "onAcquired", "onEnrollmentProgress"} \subseteq Unrelated
  BY DEF Unrelated, LockoutCalls, LockoutCallbacks, TrackerStores, Calls, Stores, Callbacks
<1>2. /\ <<"onError", "uiNotReady">> \in Seq(Unrelated)
      /\ <<"onAcquired">> \in Seq(Unrelated)
      /\ <<"onEnrollmentProgress">> \in Seq(Unrelated)
  BY <1>1, ShortSeqs
<1>3. NotifyCode[m] \in
        {<<"onError", "uiNotReady">>, <<"onAcquired">>, <<"onEnrollmentProgress">>,
         Success1, Failed1}
  BY DEF NotifyCode, Messages, Success1, Failed1
<1>4. NotifyCode[m] # << >>
  BY <1>3 DEF Success1, Failed1
<1>5. m \in Unrelated
  BY DEF Messages, Unrelated, LockoutCalls, LockoutCallbacks, TrackerStores, Calls
<1>6. <<m>> \in Seq(Unrelated) /\ <<m>> # << >>
  BY <1>5
<1> QED
  BY <1>2, <1>3, <1>4, <1>6, Zenon DEF Begins

\* The worker takes a task.
LEMMA TakeTaskSInv ==
    ASSUME TypeOK, SInv, TakeTask, OneBusy'
    PROVE  SInv'
<1> DEFINE e == Head(queue)
<1>1. e \in [task : Tasks, s : Sessions]
  <2>1. queue \in Seq([task : Tasks, s : Sessions]) /\ queue # << >>
    BY DEF TypeOK, TakeTask
  <2> QED
    BY <2>1, HeadOfSeq
<1>2. e.task \in Tasks /\ e.s \in Sessions
  BY <1>1
<1>3. /\ code["worker"] = << >> /\ session' = session /\ reg' = reg
      /\ code' = [code EXCEPT !["worker"] = TaskCode[e.task]]
      /\ self' = [self EXCEPT !["worker"] = e.s]
  BY DEF TakeTask, Idle, Continue
<1>4. ~Busy("worker") /\ ~At("worker", "timerStarted")
  BY <1>3 DEF Busy, Idle, At
<1>5. Begins(TaskCode[e.task]) \/ TaskCode[e.task] = onPointerDown
  <2>1. CASE e.task = "onPointerDown"
    BY <2>1 DEF TaskCode
  <2>2. CASE e.task # "onPointerDown"
    BY <1>2, <2>2, TaskBegins
  <2> QED
    BY <2>1, <2>2
<1> HIDE DEF e
<1> QED
  BY <1>2, <1>3, <1>4, <1>5, OwnStarts

\* A message of the vendor library arrives, and is given to the session.
LEMMA NotifySInv ==
    ASSUME TypeOK, TypeOK', SInv, NEW m \in Messages, Notify(m) \/ Deliver(m), OneBusy'
    PROVE  SInv'
<1>0. /\ code \in [Threads -> Seq(Calls)] /\ self \in [Threads -> 0..MaxSessions]
      /\ "notify" \in Own /\ "notify" \in Threads
  BY TimersAssumption DEF TypeOK, Threads, Own
<1>1. CASE Notify(m)
  <2>1. code["notify"] = << >> /\ session' = session /\ reg' = reg
    BY <1>1 DEF Notify, Idle
  <2>2. ~Busy("notify") /\ ~At("notify", "timerStarted")
    BY <2>1 DEF Busy, Idle, At
  <2>3. CASE /\ code' = [code EXCEPT !["notify"] = <<m>>]
             /\ self' = [self EXCEPT !["notify"] = cur] /\ cur \in Sessions
    BY <2>1, <2>2, <2>3, NotifyBegins, OwnStarts
  <2>4. CASE code' = code /\ self' = self
    <3>1. \A u \in Own : SameThread(u)
      BY <2>4 DEF SameThread
    <3>2. \A s \in Sessions : SameLockout(session[s], session'[s])
      BY <2>1 DEF SameLockout
    <3> QED
      BY <2>1, <3>1, <3>2, OwnKept
  <2> QED
    BY <1>1, <2>3, <2>4 DEF Notify, Continue, IsOpen, TypeOK, Sessions
<1>2. CASE Deliver(m)
  <2>1. /\ code["notify"] # << >> /\ Head(code["notify"]) = m
        /\ session' = session /\ reg' = reg
        /\ code' = [code EXCEPT !["notify"] = NotifyCode[m]]
        /\ self' = [self EXCEPT !["notify"] = cur]
    BY <1>2 DEF Deliver, At, Continue
  <2>2. ~At("notify", "timerStarted")
    BY <2>1 DEF At, Messages
  <2>3. Busy("notify") => Settled(session[self["notify"]])
    <3>1. Busy("notify") => Owed("notify", code["notify"], session[self["notify"]], reg["notify"])
      BY <1>0 DEF SInv, BusyOwes
    <3> QED
      BY <2>1, <3>1, OwedHeads
  <2>4. cur \in Sessions
    <3>1. code'["notify"] # << >> /\ self'["notify"] = cur
      BY <1>0, <2>1, NotifyBegins DEF Begins
    <3>2. self'["notify"] \in Sessions
      BY <1>0, <3>1 DEF TypeOK, Idle
    <3> QED
      BY <3>1, <3>2
  <2> QED
    BY <2>1, <2>2, <2>3, <2>4, NotifyBegins, OwnStarts
<1> QED
  BY <1>1, <1>2

\* The rest changes nothing of these threads.
LEMMA QuietSInv ==
    ASSUME TypeOK, SInv, OneBusy',
           \/ CreateSession \/ Tick \/ UNCHANGED vars
           \/ \E op \in Ops, s \in Sessions : FrameworkCall(op, s)
    PROVE  SInv'
<1>1. /\ session' = session /\ reg' = reg
      /\ \A u \in Own : SameThread(u)
  <2>1. CASE CreateSession \/ Tick \/ UNCHANGED vars
    BY <2>1 DEF CreateSession, Tick, vars, threads, SameThread
  <2>2. ASSUME NEW op \in Ops, NEW s \in Sessions, FrameworkCall(op, s)
        PROVE  /\ session' = session /\ reg' = reg
               /\ \A u \in Own : SameThread(u)
    BY <2>2 DEF FrameworkCall, Continue, SameThread, Own, TypeOK
  <2> QED
    BY <2>1, <2>2
<1>2. \A s \in Sessions : SameLockout(session[s], session'[s])
  BY <1>1 DEF SameLockout
<1> QED
  BY <1>1, <1>2, OwnKept

\* No two threads are in a set of at most one.
LEMMA AtMostOne ==
    ASSUME NEW B \in SUBSET Threads, Cardinality(B) <= 1
    PROVE  \A t, u \in B : t = u
<1>1. IsFiniteSet(Threads)
  <2>1. IsFiniteSet({"binder"}) /\ IsFiniteSet({"worker"}) /\ IsFiniteSet({"notify"})
    BY FS_Singleton
  <2>2. IsFiniteSet(Timers \cup {"binder"})
    BY TimersFinite, FS_AddElement
  <2>3. IsFiniteSet((Timers \cup {"binder"}) \cup {"worker"})
    BY <2>2, FS_AddElement
  <2>4. IsFiniteSet(((Timers \cup {"binder"}) \cup {"worker"}) \cup {"notify"})
    BY <2>3, FS_AddElement
  <2>5. Threads = ((Timers \cup {"binder"}) \cup {"worker"}) \cup {"notify"}
    BY DEF Threads
  <2> QED
    BY <2>4, <2>5
<1>2. IsFiniteSet(B)
  BY <1>1, FS_Subset
<1>3. ASSUME NEW t \in B, NEW u \in B, t # u PROVE FALSE
  <2>1. IsFiniteSet({t}) /\ Cardinality({t}) = 1
    BY FS_Singleton
  <2>2. Cardinality({t} \cup {u}) = 2
    BY <1>3, <2>1, FS_AddElement
  <2>3. Cardinality({t} \cup {u}) <= Cardinality(B)
    BY <1>2, FS_Subset
  <2>4. Cardinality(B) \in Nat
    BY <1>2, FS_CardinalityType
  <2> QED
    BY <2>2, <2>3, <2>4
<1> QED
  BY <1>3

\* Nothing is under way at first.
LEMMA InitSInv == Init => SInv
<1> SUFFICES ASSUME Init PROVE SInv
  OBVIOUS
<1>1. \A t \in Threads : code[t] = << >>
  BY DEF Init
<1>2. \A t \in Threads : ~Busy(t)
  BY <1>1 DEF Busy, Idle
<1>3. ASSUME NEW s \in Sessions PROVE Settled(session[s]) /\ ~session[s].mIsLockoutTimerStarted
  <2>1. session[s] = NewSession
    BY DEF Init
  <2>2. /\ session[s].mFailedCount = 0 /\ session[s].mCurrentMode = "NONE"
        /\ session[s].told = "NONE" /\ ~session[s].mIsLockoutTimerStarted
    BY <2>1 DEF NewSession
  <2>3. ~Perm(session[s])
    BY <2>2, LimitsAssumption DEF Perm
  <2> QED
    BY <2>2, <2>3 DEF Settled, Agree, Informed, Held
<1>4. OneBusy /\ BusyOwes /\ OthersSettled
  BY <1>2, <1>3 DEF OneBusy, BusyOwes, OthersSettled, Own
<1>5. Waiting
  BY <1>1 DEF Waiting, WaitingRest, Own
<1>6. TimersOut
  <2>1. \A s \in Sessions : ~Marking(s) /\ \A x \in Timers : ~Out(x, s)
    BY <1>1 DEF Marking, At, Out, Idle, Threads
  <2> QED
    BY <1>3, <2>1 DEF TimersOut, OneOut, MarkedOut, OutMarked
<1> QED
  BY <1>4, <1>5, <1>6 DEF SInv

\* Every step that overlaps no other handler preserves it.
LEMMA NextSInv ==
    ASSUME TypeOK, TypeOK', BinderOrderly, SInv, [SerialNext]_vars
    PROVE  SInv'
<1>1. OneBusy'
  <2>1. CASE SerialNext
    <3>1. Cardinality({t \in Threads : Busy(t)'}) <= 1
      BY <2>1 DEF SerialNext
    <3>2. \A t, u \in {v \in Threads : Busy(v)'} : t = u
      BY <3>1, AtMostOne
    <3> QED
      BY <3>2 DEF OneBusy
  <2>2. CASE UNCHANGED vars
    BY <2>2 DEF vars, threads, SInv, OneBusy, Busy, Idle, At
  <2> QED
    BY <2>1, <2>2
<1>2. CASE \/ CreateSession \/ Tick \/ UNCHANGED vars
           \/ \E op \in Ops, s \in Sessions : FrameworkCall(op, s)
  BY <1>1, <1>2, QuietSInv
<1>3. CASE TakeTask
  BY <1>1, <1>3, TakeTaskSInv
<1>4. ASSUME NEW m \in Messages, Notify(m) \/ Deliver(m) PROVE SInv'
  BY <1>1, <1>4, NotifySInv
<1>5. CASE Step("binder")
  BY <1>1, <1>5, BinderStepSInv
<1>6. ASSUME NEW t \in Threads, t # "binder", Step(t) PROVE SInv'
  <2>1. t \in Own /\ StepEffect(t)
    BY <1>6, StepEffects DEF Own
  <2>2. Waiting' /\ BusyOwes' /\ OthersSettled'
    BY <1>1, <2>1, OwnStepOwes
  <2>3. ASSUME NEW s \in Sessions PROVE (OneOut(s) /\ MarkedOut(s) /\ OutMarked(s))'
    <3>1. CASE s = self[t]
      <4>1. PICK h : h = Head(code[t])
        OBVIOUS
      <4> QED
        BY <1>1, <2>1, <3>1, <4>1, OwnTimers
    <3>2. CASE s # self[t]
      BY <2>1, <3>2, OtherTimers
    <3> QED
      BY <3>1, <3>2
  <2>4. TimersOut'
    BY <2>3 DEF TimersOut
  <2> QED
    BY <1>1, <2>2, <2>4 DEF SInv
<1> QED
  BY <1>2, <1>3, <1>4, <1>5, <1>6 DEF SerialNext, Next

\* The serial executions are executions.
LEMMA SerialIsSpec == SerialSpec => Spec
<1>1. [SerialNext]_vars => [Next]_vars
  BY DEF SerialNext
<1> QED
  BY <1>1, PTL DEF SerialSpec, Spec

\* The inductive invariant of the executions in which no two handlers overlap.
THEOREM SerialInvariant == SerialSpec => []SInv
<1>1. IInv => TypeOK
  BY DEF IInv
<1>2. LInv => BinderOrderly
  BY DEF LInv
<1>3. TypeOK /\ TypeOK' /\ BinderOrderly /\ SInv /\ [SerialNext]_vars => SInv'
  BY NextSInv
<1>4. IInv /\ LInv /\ [Next]_vars => LInv'
  BY NextLInv
<1>5. Spec => [](IInv /\ LInv)
  BY <1>4, InitLInv, SpecIInv, PTL DEF Spec
<1> QED
  BY <1>1, <1>2, <1>3, <1>5, InitSInv, SerialIsSpec, PTL DEF SerialSpec

\* At rest every session is settled.
LEMMA RestSettled ==
    ASSUME SInv, AtRest, NEW s \in Sessions
    PROVE  Settled(session[s])
  BY DEF SInv, OthersSettled, AtRest, Own

\* Once LockoutTracker's count has reached LOCKOUT_PERMANENT_THRESHOLD the lockout
\* stays permanent until it is reset: the timer of an earlier timed lockout does
\* not lift it.
THEOREM PermanentStays == SerialSpec => []PermanentSticks
<1>1. SInv => PermanentSticks
  <2> SUFFICES ASSUME SInv, AtRest, NEW s \in Sessions,
                      session[s].mFailedCount >= LOCKOUT_PERMANENT_THRESHOLD
               PROVE  session[s].mCurrentMode = "PERMANENT"
    BY DEF PermanentSticks
  <2> QED
    BY RestSettled DEF Settled, Agree, Perm
<1> QED
  BY <1>1, SerialInvariant, PTL

\* What the callbacks of Session have last said of the lockout is what the tracker
\* has, when no handler is under way.
THEOREM FrameworkIsInformed == SerialSpec => []FrameworkInformed
<1>1. SInv => FrameworkInformed
  <2> SUFFICES ASSUME SInv, AtRest, NEW s \in Sessions
               PROVE  /\ session[s].mCurrentMode = "PERMANENT" <=> session[s].told = "PERMANENT"
                      /\ session[s].mCurrentMode = "TIMED" => session[s].told = "TIMED"
    BY DEF FrameworkInformed
  <2> QED
    BY RestSettled DEF Settled, Informed
<1> QED
  BY <1>1, SerialInvariant, PTL

\* mIsLockoutTimerStarted is true of a session exactly while one timer thread is out
\* for it, when no handler is under way.
THEOREM OneTimerOut == SerialSpec => []StartedIffOneTimer
<1>1. SInv => StartedIffOneTimer
  <2> SUFFICES ASSUME SInv, AtRest, NEW s \in Sessions
               PROVE  Cardinality({x \in Timers : ~Idle(x) /\ self[x] = s})
                        = IF session[s].mIsLockoutTimerStarted THEN 1 ELSE 0
    BY DEF StartedIffOneTimer
  <2> DEFINE O == {x \in Timers : ~Idle(x) /\ self[x] = s}
  <2>1. OneOut(s) /\ MarkedOut(s) /\ OutMarked(s)
    BY DEF SInv, TimersOut
  <2>2. ~Marking(s)
    <3>1. "worker" \in Threads /\ "notify" \in Threads
      BY DEF Threads
    <3> QED
      BY <3>1, MarkingBusy DEF AtRest
  <2>3. \A x \in Timers : Out(x, s) => code[x] # Expired4
    <3>1. ASSUME NEW x \in Timers, code[x] = Expired4 PROVE FALSE
      <4>1. Busy(x)
        BY <3>1, BusyIs, WaitingRests DEF BusyCode
      <4> QED
        BY <4>1 DEF AtRest, Threads
    <3> QED
      BY <3>1
  <2>4. CASE session[s].mIsLockoutTimerStarted
    <3>1. PICK x \in Timers : Out(x, s)
      BY <2>1, <2>4 DEF MarkedOut
    <3>2. O = {x}
      BY <2>1, <3>1 DEF OneOut, Out
    <3> QED
      BY <2>4, <3>2, FS_Singleton
  <2>5. CASE ~session[s].mIsLockoutTimerStarted
    <3>1. O = {}
      BY <2>1, <2>2, <2>3, <2>5 DEF OutMarked, Out
    <3> QED
      BY <2>5, <3>1, FS_EmptySet
  <2> QED
    BY <2>4, <2>5
<1> QED
  BY <1>1, SerialInvariant, PTL
=============================================================================
