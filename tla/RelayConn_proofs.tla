--------------------------- MODULE RelayConn_proofs ---------------------------
(***************************************************************************)
(* Proofs about RelayConn, for any pool, any sensors and any phones.       *)
(***************************************************************************)
EXTENDS RelayConn, TLAPS

\* An object has a remote device exactly while it has a link or an attempt,
\* and only the scan initiates.
Roles ==
    \A c \in Conns : /\ link[c] \in {"none", "adv"} <=> dst[c] = NULL
                     /\ link[c] = "init" => IsCentral(c)

\* What main() has not started is not there: nothing before the scan, no
\* advertising and no phone before the main loop.
BootOrder ==
    /\ pc \in {"boot", "scan"} => ~scanning /\ \A c \in Conns : link[c] = "none"
    /\ pc # "loop" => \A c \in Conns : link[c] # "adv" /\ dst[c] \notin Phones

\* An object that advertises, or whose remote device is a phone.
Peripheral(c) == link[c] = "adv" \/ dst[c] \in Phones

\* The controller has one peripheral link: one object at most serves that role.
OnePeripheral == \A c, e \in Conns : Peripheral(c) /\ Peripheral(e) => c = e

\* The object that the host is about to release heads the workqueue, so there
\* is one at most.
ClosingAtHead == \A c \in Conns : link[c] = "closing" => workq # <<>> /\ c = Head(workq)

(***************************************************************************)
(* The inductive invariant.  RefAccounting and CentralSlot are not         *)
(* inductive alone: a callback knows the role of a connection only by      *)
(* comparing it with central_conn, so the argument needs Roles, and a      *)
(* matching report overwrites central_conn, so it needs ScanExclusive,     *)
(* which in turn needs BootOrder for the scan that main() starts.  LED 3   *)
(* needs OnePeripheral, since the loss of any phone switches it off, and   *)
(* the advertising needs ClosingAtHead, which bounds the objects that the  *)
(* scan can hold when main() starts to advertise.                          *)
(***************************************************************************)
ConnIInv ==
    /\ ConnTypeOK
    /\ RefAccounting
    /\ CentralSlot
    /\ ScanExclusive
    /\ Roomy => AdvertisedUnlessPhone
    /\ Led2Truthful
    /\ Led3Truthful
    /\ Roles
    /\ BootOrder
    /\ OnePeripheral
    /\ ClosingAtHead

\* The power-on state satisfies the invariant.
LEMMA ConnInitInv == ConnInit => ConnIInv
<1> SUFFICES ASSUME ConnInit
             PROVE  ConnIInv
  OBVIOUS
<1>1. ConnTypeOK
  <2>1. ref \in [Conns -> 0 .. 2]
    BY DEF ConnInit
  <2>2. led2 \in BOOLEAN /\ led3 \in BOOLEAN
    BY DEF ConnInit
  <2>3. /\ link \in [Conns -> LinkStates]
        /\ dst \in [Conns -> Sensors \cup Phones \cup {NULL}]
        /\ workq \in Seq(Conns)
    BY DEF ConnInit, LinkStates
  <2>4. QED
    BY <2>1, <2>2, <2>3 DEF ConnInit, ConnTypeOK
<1>2. RefAccounting
  <2> SUFFICES ASSUME NEW c \in Conns
               PROVE  ref[c] = (IF link[c] = "none" THEN 0 ELSE 1)
                             + (IF c = central_conn THEN 1 ELSE 0)
    BY DEF RefAccounting
  <2>1. ref[c] = 0 /\ link[c] = "none" /\ c # central_conn
    BY ConnAssumption DEF ConnInit
  <2>2. QED
    BY <2>1
<1>3. QED
  BY <1>1, <1>2, ConnAssumption
  DEF ConnInit, ConnIInv, CentralSlot, ScanExclusive, AdvertisedUnlessPhone,
      Led2Truthful, Led3Truthful, Roles, BootOrder, OnePeripheral, Peripheral,
      ClosingAtHead, IsCentral, Advertising

(***************************************************************************)
(* What bt_le_adv_resume() leaves: the state of the event itself, with at  *)
(* most one more object, a free one, reserved for advertising; and in the  *)
(* main loop it leaves the relay advertising unless the pool is exhausted  *)
(* or a phone is connected.                                                *)
(***************************************************************************)
LEMMA ResumeEffect ==
  ASSUME NEW l, NEW d, NEW r, Resume(l, d, r)
  PROVE  /\ dst' = d
         /\ \/ /\ link' = l /\ ref' = r
               /\ pc = "loop" => \/ \E c \in Conns : l[c] = "adv"
                                 \/ \A c \in Conns : r[c] # 0
                                 \/ \E c \in Conns : d[c] \in Phones /\ l[c] = "up"
            \/ /\ pc = "loop"
               /\ \A c \in Conns : ~(d[c] \in Phones /\ l[c] = "up")
               /\ \E c \in Conns : /\ r[c] = 0
                                   /\ link' = [l EXCEPT ![c] = "adv"]
                                   /\ ref' = [r EXCEPT ![c] = 1]
  BY DEF Resume

\* A lost link's object is held by the host and by central_conn only.
LEMMA RefCount ==
  ASSUME ConnIInv, NEW c \in Conns
  PROVE  /\ link[c] = "none" => ref[c] = 0 /\ c # central_conn
         /\ link[c] = "adv" => ref[c] = 1 /\ c # central_conn
         /\ link[c] = "init" => ref[c] = 2 /\ c = central_conn
         /\ link[c] \in {"up", "down"} => ref[c] = (IF c = central_conn THEN 2 ELSE 1)
         /\ link[c] = "closing" => ref[c] = 1 /\ c # central_conn
         /\ ref[c] = 0 => link[c] = "none"
<1> USE DEF ConnIInv
<1>1. ref[c] = (IF link[c] = "none" THEN 0 ELSE 1) + (IF c = central_conn THEN 1 ELSE 0)
  BY DEF RefAccounting
<1>2. c = central_conn <=> IsCentral(c) /\ link[c] \in {"init", "up", "down"}
  BY DEF CentralSlot
<1>3. link[c] = "init" => IsCentral(c)
  BY DEF Roles
<1>4. QED
  BY <1>1, <1>2, <1>3

\* Every step keeps the types; the counts stay in 0..2 because of RefCount.
LEMMA ConnTypeStep == ConnIInv /\ [ConnNext]_connVars => ConnTypeOK'
<1> SUFFICES ASSUME ConnIInv, [ConnNext]_connVars
             PROVE  ConnTypeOK'
  OBVIOUS
<1>0. ConnTypeOK
  BY DEF ConnIInv
<1>1. ref' \in [Conns -> 0 .. 2]
  <2> USE <1>0 DEF ConnTypeOK
  <2>1. ASSUME NEW c \in Conns, ConnectFailed(c)
        PROVE  ref' \in [Conns -> 0 .. 2]
    <3>1. ref[c] = 2 /\ c = central_conn
      BY <2>1, RefCount DEF ConnectFailed
    <3>2. ref' = [ref EXCEPT ![c] = 0]
      BY <2>1, <3>1 DEF ConnectFailed
    <3>3. QED
      BY <3>2
  <2>2. ASSUME NEW c \in Conns, Disconnected(c)
        PROVE  ref' \in [Conns -> 0 .. 2]
    <3>1. c = central_conn => ref[c] = 2
      BY <2>2, RefCount DEF Disconnected
    <3>2. ref' = ref \/ ref' = [ref EXCEPT ![c] = 1]
      BY <2>2, <3>1 DEF Disconnected
    <3>3. QED
      BY <3>2
  <2>3. ASSUME NEW c \in Conns, Release(c)
        PROVE  ref' \in [Conns -> 0 .. 2]
    <3> DEFINE r == [ref EXCEPT ![c] = @ - 1]
    <3>1. ref[c] = 1
      BY <2>3, RefCount DEF Release
    <3>2. r \in [Conns -> 0 .. 2]
      BY <3>1
    <3>3. ref' = r \/ \E e \in Conns : ref' = [r EXCEPT ![e] = 1]
      BY <2>3, ResumeEffect DEF Release
    <3> HIDE DEF r
    <3>4. ASSUME NEW e \in Conns, ref' = [r EXCEPT ![e] = 1]
          PROVE  ref' \in [Conns -> 0 .. 2]
      BY <3>2, <3>4
    <3>5. QED
      BY <3>2, <3>3, <3>4
  <2>4. ASSUME NEW c \in Conns, NEW p \in Phones, ConnectedPhone(c, p)
        PROVE  ref' \in [Conns -> 0 .. 2]
    BY <2>4 DEF ConnectedPhone, Resume
  <2>5. CASE \/ MainEnable \/ MainScan \/ MainAdvertise
             \/ \E s \in Sensors : ScanMatch(s) \/ ConnectingError(s)
             \/ \E c \in Conns : ConnectedCentral(c) \/ LinkLost(c) \/ FatalAccess(c)
             \/ UNCHANGED connVars
    BY <2>5 DEF MainEnable, MainScan, MainAdvertise, Reserve, ScanMatch, ConnectingError,
                ConnectedCentral, LinkLost, FatalAccess, Reset, connVars
  <2>6. QED
    BY <2>1, <2>2, <2>3, <2>4, <2>5 DEF ConnNext
<1>2. dst' \in [Conns -> Sensors \cup Phones \cup {NULL}]
  <2> USE <1>0 DEF ConnTypeOK
  <2>1. ASSUME NEW c \in Conns, Release(c)
        PROVE  dst' \in [Conns -> Sensors \cup Phones \cup {NULL}]
    BY <2>1 DEF Release, Resume
  <2>2. ASSUME NEW c \in Conns, NEW p \in Phones, ConnectedPhone(c, p)
        PROVE  dst' \in [Conns -> Sensors \cup Phones \cup {NULL}]
    BY <2>2 DEF ConnectedPhone, Resume
  <2>3. CASE \/ MainEnable \/ MainScan \/ MainAdvertise
             \/ \E s \in Sensors : ScanMatch(s) \/ ConnectingError(s)
             \/ \E c \in Conns : \/ ConnectedCentral(c) \/ ConnectFailed(c)
                                 \/ LinkLost(c) \/ FatalAccess(c) \/ Disconnected(c)
             \/ UNCHANGED connVars
    BY <2>3 DEF MainEnable, MainScan, MainAdvertise, Reserve, ScanMatch, ConnectingError,
                ConnectedCentral, ConnectFailed, LinkLost, FatalAccess, Reset,
                Disconnected, connVars
  <2>4. QED
    BY <2>1, <2>2, <2>3 DEF ConnNext
<1>3. link' \in [Conns -> LinkStates]
  <2> USE <1>0 DEF ConnTypeOK, LinkStates
  <2>1. ASSUME NEW c \in Conns, Release(c)
        PROVE  link' \in [Conns -> LinkStates]
    BY <2>1 DEF Release, Resume
  <2>2. ASSUME NEW c \in Conns, NEW p \in Phones, ConnectedPhone(c, p)
        PROVE  link' \in [Conns -> LinkStates]
    BY <2>2 DEF ConnectedPhone, Resume
  <2>3. CASE \/ MainEnable \/ MainScan \/ MainAdvertise
             \/ \E s \in Sensors : ScanMatch(s) \/ ConnectingError(s)
             \/ \E c \in Conns : \/ ConnectedCentral(c) \/ ConnectFailed(c)
                                 \/ LinkLost(c) \/ FatalAccess(c) \/ Disconnected(c)
             \/ UNCHANGED connVars
    BY <2>3 DEF MainEnable, MainScan, MainAdvertise, Reserve, ScanMatch, ConnectingError,
                ConnectedCentral, ConnectFailed, LinkLost, FatalAccess, Reset,
                Disconnected, connVars
  <2>4. QED
    BY <2>1, <2>2, <2>3 DEF ConnNext
<1>4. workq' \in Seq(Conns)
  <2>1. workq \in Seq(Conns)
    BY <1>0 DEF ConnTypeOK
  <2>2. \/ workq' = workq \/ workq' = <<>>
        \/ workq # <<>> /\ workq' = Tail(workq)
        \/ \E c \in Conns : workq' = Append(workq, c)
    BY DEF ConnNext, MainEnable, MainScan, MainAdvertise, Reserve, ScanMatch, ConnectingError,
           ConnectedCentral, ConnectFailed, ConnectedPhone, LinkLost, FatalAccess,
           Reset, Disconnected, Release, connVars
  <2>3. CASE workq # <<>> /\ workq' = Tail(workq)
    BY <2>1, <2>3
  <2>4. ASSUME NEW c \in Conns, workq' = Append(workq, c)
        PROVE  workq' \in Seq(Conns)
    BY <2>1, <2>4
  <2>5. <<>> \in Seq(Conns)
    OBVIOUS
  <2>6. QED
    BY <2>1, <2>2, <2>3, <2>4, <2>5, Zenon
<1>5. /\ scanning' \in BOOLEAN /\ filterOn' \in BOOLEAN
      /\ led2' \in BOOLEAN /\ led3' \in BOOLEAN
  BY <1>0 DEF ConnTypeOK, ConnNext, MainEnable, MainScan, MainAdvertise, Reserve, ScanMatch,
         ConnectingError, ConnectedCentral, ConnectFailed, ConnectedPhone, LinkLost,
         FatalAccess, Reset, Disconnected, Release, ScanStart, connVars
<1>6. /\ pc' \in {"boot", "scan", "adv", "loop", "returned"}
      /\ central_conn' \in Conns \cup {NULL}
  BY <1>0 DEF ConnTypeOK, ConnNext, MainEnable, MainScan, MainAdvertise, Reserve, ScanMatch,
         ConnectingError, ConnectedCentral, ConnectFailed, ConnectedPhone, LinkLost,
         FatalAccess, Reset, Disconnected, Release, connVars
<1>7. QED
  BY <1>1, <1>2, <1>3, <1>4, <1>5, <1>6 DEF ConnTypeOK

(***************************************************************************)
(* The effect on the pool of an event of object c that may be followed by  *)
(* bt_le_adv_resume(): c gets state s, remote device t and count k, and e, *)
(* unless it is NULL, is a free object now reserved for advertising.       *)
(***************************************************************************)
Moved(c, s, t, k, e) ==
    /\ \A x \in Conns :
         /\ link'[x] = IF x = e THEN "adv" ELSE IF x = c THEN s ELSE link[x]
         /\ dst'[x]  = IF x = c THEN t ELSE dst[x]
         /\ ref'[x]  = IF x = e THEN 1 ELSE IF x = c THEN k ELSE ref[x]
    /\ e # NULL => pc = "loop" /\ (ref[e] = 0 \/ (e = c /\ k = 0))

\* The release of an object frees it.  Only the release of a phone's may
\* reserve one for advertising, and in the main loop it does.
LEMMA ReleaseMoves ==
  ASSUME ConnIInv, NEW c \in Conns, Release(c)
  PROVE  /\ \E e \in Conns \cup {NULL} :
              Moved(c, "none", NULL, 0, e) /\ (e = NULL \/ dst[c] \in Phones)
         /\ pc = "loop" /\ ~IsCentral(c) => \E x \in Conns : link'[x] = "adv"
<1> DEFINE l == [link EXCEPT ![c] = "none"]
           d == [dst EXCEPT ![c] = NULL]
           r == [ref EXCEPT ![c] = @ - 1]
<1> USE ConnAssumption DEF ConnIInv, ConnTypeOK
<1>1. link[c] = "closing" /\ ref[c] = 1
  BY RefCount DEF Release
<1>2. r[c] = 0
  BY <1>1
<1>3. CASE IsCentral(c)
  <2>1. link' = l /\ dst' = d /\ ref' = r
    BY <1>3 DEF Release
  <2>2. Moved(c, "none", NULL, 0, NULL)
    BY <1>1, <2>1 DEF Moved
  <2>3. QED
    BY <1>3, <2>2
<1>4. CASE ~IsCentral(c)
  <2>1. Resume(l, d, r)
    BY <1>2, <1>4 DEF Release
  <2>2. dst' = d
    BY <2>1 DEF Resume
  <2>3. dst[c] \in Phones
    BY <1>1, <1>4 DEF Roles, IsCentral
  <2>4. \A x \in Conns : ~(d[x] \in Phones /\ l[x] = "up")
    BY <1>1, <2>3 DEF OnePeripheral, Peripheral
  <2>5. CASE link' = l /\ ref' = r /\ (pc = "loop" => \E x \in Conns : l[x] = "adv")
    <3>1. Moved(c, "none", NULL, 0, NULL)
      BY <1>1, <2>2, <2>5 DEF Moved
    <3>2. QED
      BY <2>5, <3>1
  <2>6. ASSUME NEW e \in Conns, r[e] = 0, pc = "loop",
               link' = [l EXCEPT ![e] = "adv"], ref' = [r EXCEPT ![e] = 1]
        PROVE  Moved(c, "none", NULL, 0, e) /\ link'[e] = "adv"
    BY <1>1, <2>2, <2>6 DEF Moved
  <2>7. QED
    BY <1>2, <2>1, <2>3, <2>4, <2>5, <2>6, ResumeEffect
<1>5. QED
  BY <1>3, <1>4

\* A phone's connection keeps its object; the controller has no second link to
\* advertise for, so no other object is reserved.
LEMMA PhoneMoves ==
  ASSUME ConnIInv, NEW c \in Conns, NEW p \in Phones, ConnectedPhone(c, p)
  PROVE  Moved(c, "up", p, 1, NULL)
<1> DEFINE l == [link EXCEPT ![c] = "up"]
           d == [dst EXCEPT ![c] = p]
<1> USE ConnAssumption DEF ConnIInv, ConnTypeOK
<1>1. link[c] = "adv" /\ ref[c] = 1
  BY RefCount DEF ConnectedPhone
<1>2. Resume(l, d, ref)
  BY DEF ConnectedPhone
<1>3. d[c] \in Phones /\ l[c] = "up"
  OBVIOUS
<1>4. dst' = d /\ link' = l /\ ref' = ref
  BY <1>2, <1>3 DEF Resume
<1>5. QED
  BY <1>1, <1>4 DEF Moved

\* What ConnIInv says beyond the types.
Settled == /\ RefAccounting /\ CentralSlot /\ ScanExclusive
           /\ (Roomy => AdvertisedUnlessPhone) /\ Led2Truthful /\ Led3Truthful
           /\ Roles /\ BootOrder /\ OnePeripheral /\ ClosingAtHead

\* What the invariant says of one object, for the proofs that follow it.
LEMMA AtObject ==
  ASSUME ConnIInv, NEW x \in Conns
  PROVE  /\ ref[x] = (IF link[x] = "none" THEN 0 ELSE 1)
                   + (IF x = central_conn THEN 1 ELSE 0)
         /\ x = central_conn <=> dst[x] \in Sensors /\ link[x] \in {"init", "up", "down"}
         /\ link[x] \in {"none", "adv"} <=> dst[x] = NULL
         /\ link[x] = "init" => dst[x] \in Sensors
  BY DEF ConnIInv, RefAccounting, CentralSlot, Roles, IsCentral

(***************************************************************************)
(* A move that leaves the pointer, the scan and LED 2 alone preserves what *)
(* is said of each object and of the sensor's connection, whatever object  *)
(* is reserved for advertising, when c is not the sensor's connection      *)
(* before or after it.                                                     *)
(***************************************************************************)
LEMMA MoveKeeps ==
  ASSUME ConnIInv, NEW c \in Conns, NEW s, NEW t, NEW k, NEW e \in Conns \cup {NULL},
         Moved(c, s, t, k, e), ref[c] = 1, c # central_conn,
         \/ s = "none" /\ t = NULL /\ k = 0
         \/ s = "up" /\ t \in Phones /\ k = 1 /\ pc = "loop" /\ e # c,
         UNCHANGED <<pc, scanning, central_conn, led2>>
  PROVE  RefAccounting' /\ CentralSlot' /\ ScanExclusive' /\ Led2Truthful'
         /\ Roles' /\ BootOrder'
<1>1. e # NULL => e # central_conn /\ (e = c \/ (link[e] = "none" /\ dst[e] = NULL))
  <2>1. e # NULL => e \in Conns /\ (e = c \/ ref[e] = 0)
    BY DEF Moved
  <2>2. CASE e \in Conns /\ ref[e] = 0
    BY <2>2, RefCount, AtObject
  <2>3. QED
    BY <2>1, <2>2
<1>2. ASSUME NEW x \in Conns, x # e, x # c
      PROVE  link'[x] = link[x] /\ dst'[x] = dst[x] /\ ref'[x] = ref[x]
  BY <1>2 DEF Moved
<1>3. c # e => link'[c] = s /\ dst'[c] = t /\ ref'[c] = k
  BY DEF Moved
<1>4. e # NULL => /\ e \in Conns /\ link'[e] = "adv" /\ ref'[e] = 1 /\ dst'[e] = NULL
                  /\ pc = "loop"
  <2>1. e # NULL => e \in Conns /\ link'[e] = "adv" /\ ref'[e] = 1 /\ pc = "loop"
    BY DEF Moved
  <2>2. CASE e # NULL /\ e = c
    BY <2>2, t = NULL DEF Moved
  <2>3. CASE e # NULL /\ e # c
    BY <1>1, <2>1, <2>3 DEF Moved
  <2>4. QED
    BY <2>1, <2>2, <2>3
<1>5. NULL \notin Sensors /\ NULL \notin Phones /\ NULL \notin Conns /\ t \notin Sensors
  BY ConnAssumption
<1>6. RefAccounting'
  <2> SUFFICES ASSUME NEW x \in Conns
               PROVE  ref'[x] = (IF link'[x] = "none" THEN 0 ELSE 1)
                              + (IF x = central_conn THEN 1 ELSE 0)
    BY DEF RefAccounting
  <2>1. CASE x = e
    BY <1>1, <1>4, <1>5, <2>1
  <2>2. CASE x # e /\ x = c
    BY <1>3, <2>2
  <2>3. CASE x # e /\ x # c
    BY <1>2, <2>3, AtObject
  <2>4. QED
    BY <2>1, <2>2, <2>3
<1>7. ASSUME NEW x \in Conns
      PROVE  /\ x = central_conn
                  <=> dst'[x] \in Sensors /\ link'[x] \in {"init", "up", "down"}
             /\ link'[x] \in {"none", "adv"} <=> dst'[x] = NULL
             /\ link'[x] = "init" => dst'[x] \in Sensors
  <2>1. CASE x = e
    BY <1>1, <1>4, <1>5, <2>1
  <2>2. CASE x # e /\ x = c
    BY <1>3, <1>5, <2>2
  <2>3. CASE x # e /\ x # c
    BY <1>2, <2>3, AtObject
  <2>4. QED
    BY <2>1, <2>2, <2>3
<1>8. CentralSlot' /\ Roles'
  BY <1>7 DEF CentralSlot, Roles, IsCentral
<1>9. ScanExclusive'
  BY DEF ConnIInv, ScanExclusive
<1>10. Led2Truthful'
  <2>1. \A x \in Conns : dst'[x] \in Sensors /\ link'[x] \in {"up", "down"}
                     <=> dst[x] \in Sensors /\ link[x] \in {"up", "down"}
    <3> SUFFICES ASSUME NEW x \in Conns
                 PROVE  dst'[x] \in Sensors /\ link'[x] \in {"up", "down"}
                    <=> dst[x] \in Sensors /\ link[x] \in {"up", "down"}
      OBVIOUS
    <3>1. x = e \/ x = c => x # central_conn
      BY <1>1, <1>5
    <3>2. CASE x = e \/ x = c
      BY <3>1, <3>2, <1>7, AtObject
    <3>3. CASE x # e /\ x # c
      BY <1>2, <3>3
    <3>4. QED
      BY <3>2, <3>3
  <2>2. led2 <=> \E x \in Conns : dst[x] \in Sensors /\ link[x] \in {"up", "down"}
    BY DEF ConnIInv, Led2Truthful, IsCentral
  <2>3. QED
    BY <2>1, <2>2 DEF Led2Truthful, IsCentral
<1>11. BootOrder'
  <2>1. /\ pc \in {"boot", "scan"} => ~scanning /\ \A x \in Conns : link[x] = "none"
        /\ pc # "loop" => \A x \in Conns : link[x] # "adv" /\ dst[x] \notin Phones
    BY DEF ConnIInv, BootOrder
  <2>2. pc # "loop" => e = NULL /\ s = "none" /\ t = NULL
    BY <1>4
  <2>3. ASSUME pc # "loop", NEW x \in Conns
        PROVE  /\ link'[x] = link[x] \/ link'[x] = "none"
               /\ dst'[x] = dst[x] \/ dst'[x] = NULL
    BY <1>2, <1>3, <1>5, <2>2, <2>3
  <2>4. pc \in {"boot", "scan"} => ~scanning /\ \A x \in Conns : link'[x] = "none"
    BY <2>1, <2>3
  <2>5. pc # "loop" => \A x \in Conns : link'[x] # "adv" /\ dst'[x] \notin Phones
    BY <1>5, <2>1, <2>3
  <2>6. QED
    BY <2>4, <2>5 DEF BootOrder
<1>12. QED
  BY <1>6, <1>8, <1>9, <1>10, <1>11

\* Releasing an object preserves the invariant: when it was a phone's the relay
\* advertises again, and no LED depended on it any more.
LEMMA ReleaseInv ==
  ASSUME ConnIInv, NEW c \in Conns, Release(c)
  PROVE  Settled'
<1>1. PICK e \in Conns \cup {NULL} :
          Moved(c, "none", NULL, 0, e) /\ (e = NULL \/ dst[c] \in Phones)
  BY ReleaseMoves
<1>2. link[c] = "closing" /\ ref[c] = 1 /\ c # central_conn
  BY RefCount DEF Release
<1>3. UNCHANGED <<pc, scanning, filterOn, central_conn, led2, led3>>
  BY DEF Release
<1>4. RefAccounting' /\ CentralSlot' /\ ScanExclusive' /\ Led2Truthful' /\ Roles' /\ BootOrder'
  BY <1>1, <1>2, <1>3, MoveKeeps
<1>5. /\ \A x \in Conns : x # c => dst'[x] = dst[x]
      /\ dst'[c] = NULL
      /\ link'[c] \in {"none", "adv"}
      /\ link'[c] = "adv" => c = e
  BY <1>1 DEF Moved
<1>6. ASSUME NEW x \in Conns, x # c
      PROVE  /\ x # e => link'[x] = link[x]
             /\ x = e => link'[x] = "adv" /\ link[x] = "none" /\ dst[x] = NULL
  <2>1. x # e => link'[x] = link[x]
    BY <1>1, <1>6 DEF Moved
  <2>2. x = e => link'[x] = "adv" /\ ref[x] = 0
    BY <1>1, <1>6, ConnAssumption DEF Moved
  <2>3. QED
    BY <2>1, <2>2, RefCount, AtObject
<1>7. Roomy => AdvertisedUnlessPhone'
  <2> SUFFICES ASSUME Roomy, pc = "loop"
               PROVE  \E x \in Conns : link'[x] = "adv" \/ dst'[x] \in Phones
    BY <1>3 DEF AdvertisedUnlessPhone, Advertising
  <2>1. CASE ~IsCentral(c)
    BY <2>1, ReleaseMoves
  <2>2. CASE IsCentral(c)
    <3>1. PICK x \in Conns : link[x] = "adv" \/ dst[x] \in Phones
      BY DEF ConnIInv, AdvertisedUnlessPhone, Advertising
    <3>2. x # c
      BY <1>2, <2>2, <3>1, ConnAssumption DEF IsCentral
    <3>3. QED
      BY <1>5, <1>6, <3>1, <3>2
  <2>3. QED
    BY <2>1, <2>2
<1>8. Led3Truthful'
  <2>1. ASSUME NEW x \in Conns
        PROVE  dst'[x] \in Phones /\ link'[x] \in {"up", "down"}
           <=> dst[x] \in Phones /\ link[x] \in {"up", "down"}
    BY <1>2, <1>5, <1>6, <2>1, ConnAssumption
  <2>2. led3 <=> \E x \in Conns : dst[x] \in Phones /\ link[x] \in {"up", "down"}
    BY DEF ConnIInv, Led3Truthful
  <2>3. QED
    BY <1>3, <2>1, <2>2 DEF Led3Truthful
<1>9. OnePeripheral'
  <2> SUFFICES ASSUME NEW x \in Conns, NEW y \in Conns, Peripheral(x)', Peripheral(y)'
               PROVE  x = y
    BY DEF OnePeripheral
  <2>1. ASSUME NEW z \in Conns, Peripheral(z)', z # e
        PROVE  z # c /\ Peripheral(z)
    BY <1>5, <1>6, <2>1, ConnAssumption DEF Peripheral
  <2>2. e # NULL => Peripheral(c)
    BY <1>1 DEF Peripheral
  <2>3. NULL \notin Conns /\ OnePeripheral
    BY ConnAssumption DEF ConnIInv
  <2>4. QED
    BY <2>1, <2>2, <2>3 DEF OnePeripheral
<1>10. ClosingAtHead'
  <2> SUFFICES ASSUME NEW x \in Conns, link'[x] = "closing"
               PROVE  FALSE
    BY DEF ClosingAtHead
  <2>1. x # c /\ link[x] = "closing"
    BY <1>5, <1>6
  <2>2. c = Head(workq)
    BY DEF Release
  <2>3. QED
    BY <2>1, <2>2 DEF ConnIInv, ClosingAtHead
<1>11. QED
  BY <1>4, <1>7, <1>8, <1>9, <1>10 DEF Settled

\* A phone's connection preserves the invariant: the phone itself accounts for
\* the lit LED 3, and for the advertising that is not resumed.
LEMMA PhoneInv ==
  ASSUME ConnIInv, NEW c \in Conns, NEW p \in Phones, ConnectedPhone(c, p)
  PROVE  Settled'
<1>1. Moved(c, "up", p, 1, NULL)
  BY PhoneMoves
<1>2. link[c] = "adv" /\ ref[c] = 1 /\ c # central_conn
  BY RefCount DEF ConnectedPhone
<1>3. UNCHANGED <<pc, scanning, filterOn, central_conn, workq, led2>> /\ led3'
  BY DEF ConnectedPhone
<1>4. pc = "loop"
  BY <1>2 DEF ConnIInv, BootOrder
<1>5. NULL \notin Conns
  BY ConnAssumption
<1>6. RefAccounting' /\ CentralSlot' /\ ScanExclusive' /\ Led2Truthful' /\ Roles' /\ BootOrder'
  BY <1>1, <1>2, <1>3, <1>4, <1>5, MoveKeeps
<1>7. /\ dst'[c] = p /\ link'[c] = "up"
      /\ \A x \in Conns : x # c => dst'[x] = dst[x] /\ link'[x] = link[x]
  BY <1>1, <1>5 DEF Moved
<1>8. AdvertisedUnlessPhone' /\ Led3Truthful'
  BY <1>3, <1>7 DEF AdvertisedUnlessPhone, Led3Truthful
<1>9. OnePeripheral'
  BY <1>2, <1>7 DEF ConnIInv, OnePeripheral, Peripheral
<1>10. ClosingAtHead'
  BY <1>3, <1>7 DEF ConnIInv, ClosingAtHead
<1>11. QED
  BY <1>6, <1>8, <1>9, <1>10 DEF Settled

(***************************************************************************)
(* When main() starts to advertise the scan holds two objects at most: the *)
(* one of central_conn and the one the host is about to release.           *)
(***************************************************************************)
LEMMA FreeAtAdvertise ==
  ASSUME ConnIInv, pc = "adv", Roomy
  PROVE  \E c \in Conns : Free(c)
<1> SUFFICES ASSUME \A c \in Conns : ref[c] # 0
             PROVE  FALSE
  BY DEF Free
<1>1. ASSUME NEW c \in Conns
      PROVE  c = central_conn \/ c = Head(workq)
  <2>1. link[c] # "none"
    <3>1. ref[c] # 0
      OBVIOUS
    <3>2. QED
      BY <3>1, RefCount
  <2>2. link[c] # "adv" /\ dst[c] \notin Phones
    BY DEF ConnIInv, BootOrder
  <2>3. dst[c] \in Sensors /\ link[c] \in {"init", "up", "down", "closing"}
    BY <2>1, <2>2, AtObject DEF ConnIInv, ConnTypeOK, LinkStates
  <2>4. QED
    BY <2>3, AtObject DEF ConnIInv, ClosingAtHead
<1>2. QED
  BY <1>1 DEF Roomy

\* Every boot step, callback and deferred work item preserves the invariant.
LEMMA ConnNextInv == ConnIInv /\ [ConnNext]_connVars => ConnIInv'
<1> SUFFICES ASSUME ConnIInv, [ConnNext]_connVars
             PROVE  ConnIInv'
  OBVIOUS
<1>0. ConnTypeOK'
  BY ConnTypeStep
<1> SUFFICES Settled'
  BY <1>0 DEF ConnIInv, Settled
<1> USE ConnAssumption
    DEF Settled, ConnIInv, ConnTypeOK, LinkStates, RefAccounting, CentralSlot, ScanExclusive,
        AdvertisedUnlessPhone, Led2Truthful, Led3Truthful, Roles, BootOrder,
        OnePeripheral, Peripheral, ClosingAtHead, IsCentral, Advertising, Free
<1>1. CASE MainEnable
  BY <1>1 DEF MainEnable
<1>2. CASE MainScan
  BY <1>2 DEF MainScan
<1>3. CASE MainAdvertise
  <2>1. CASE link' = link /\ ref' = ref
    <3>1. pc' = "loop" /\ Roomy => FALSE
      BY <1>3, <2>1, FreeAtAdvertise DEF MainAdvertise, Reserve
    <3>2. QED
      BY <1>3, <2>1, <3>1 DEF MainAdvertise
  <2>2. ASSUME NEW c \in Conns, Free(c), pc' = "loop",
               link' = [link EXCEPT ![c] = "adv"], ref' = [ref EXCEPT ![c] = 1]
        PROVE  Settled'
    BY <1>3, <2>2 DEF MainAdvertise
  <2>3. QED
    BY <1>3, <2>1, <2>2 DEF MainAdvertise, Reserve
<1>4. ASSUME NEW s \in Sensors, ScanMatch(s)
      PROVE  Settled'
  <2>1. ClosingAtHead' /\ OnePeripheral'
    BY <1>4 DEF ScanMatch
  <2>2. RefAccounting' /\ CentralSlot' /\ ScanExclusive' /\ Roles' /\ BootOrder'
    BY <1>4 DEF ScanMatch
  <2>3. (Roomy => AdvertisedUnlessPhone') /\ Led2Truthful' /\ Led3Truthful'
    BY <1>4 DEF ScanMatch
  <2>4. QED
    BY <2>1, <2>2, <2>3
<1>5. ASSUME NEW s \in Sensors, ConnectingError(s)
      PROVE  Settled'
  BY <1>5 DEF ConnectingError
<1>6. ASSUME NEW c \in Conns, ConnectedCentral(c)
      PROVE  Settled'
  BY <1>6 DEF ConnectedCentral
<1>7. ASSUME NEW c \in Conns, ConnectFailed(c)
      PROVE  Settled'
  BY <1>7 DEF ConnectFailed, ScanStart
<1>8. ASSUME NEW c \in Conns, LinkLost(c)
      PROVE  Settled'
  <2>1. ClosingAtHead'
    <3> SUFFICES ASSUME NEW x \in Conns, link'[x] = "closing"
                 PROVE  workq' # <<>> /\ x = Head(workq')
      OBVIOUS
    <3>1. link[x] = "closing" /\ workq' = Append(workq, c)
      BY <1>8 DEF LinkLost
    <3>2. workq \in Seq(Conns) /\ workq # <<>> /\ x = Head(workq)
      BY <3>1
    <3>3. Append(workq, c) # <<>> /\ Head(Append(workq, c)) = Head(workq)
      BY <3>2
    <3>4. QED
      BY <3>1, <3>2, <3>3
  <2>2. RefAccounting' /\ CentralSlot' /\ ScanExclusive' /\ Roles' /\ BootOrder'
        /\ OnePeripheral'
    BY <1>8 DEF LinkLost
  <2>3. (Roomy => AdvertisedUnlessPhone') /\ Led2Truthful' /\ Led3Truthful'
    BY <1>8 DEF LinkLost
  <2>4. QED
    BY <2>1, <2>2, <2>3
<1>9. ASSUME NEW c \in Conns, FatalAccess(c)
      PROVE  Settled'
  BY <1>9 DEF FatalAccess, Reset
<1>10. ASSUME NEW c \in Conns, Disconnected(c)
       PROVE  Settled'
  BY <1>10 DEF Disconnected, ScanStart
<1>11. ASSUME NEW c \in Conns, Release(c)
       PROVE  Settled'
  BY <1>11, ReleaseInv
<1>12. ASSUME NEW c \in Conns, NEW p \in Phones, ConnectedPhone(c, p)
       PROVE  Settled'
  BY <1>12, PhoneInv
<1>13. CASE UNCHANGED connVars
  BY <1>13 DEF connVars
<1>14. QED
  BY <1>1, <1>2, <1>3, <1>4, <1>5, <1>6, <1>7, <1>8, <1>9, <1>10, <1>11, <1>12,
     <1>13 DEF ConnNext

\* The strengthened invariant holds in every reachable state of the relay's
\* connection management.
THEOREM ConnInvariant == ConnSpec => []ConnIInv
<1>1. QED
  BY ConnInitInv, ConnNextInv, PTL DEF ConnSpec

------------------------------------------------------------------------------
\* Every variable keeps its type: in particular no reference count leaves 0..2,
\* so bt_conn_unref() is never called on an object that is already free.
THEOREM ConnTypeCorrect == ConnSpec => []ConnTypeOK
<1>1. ConnIInv => ConnTypeOK
  BY DEF ConnIInv
<1>2. QED
  BY <1>1, ConnInvariant, PTL

(***************************************************************************)
(* No connection object is leaked or released twice: in every state each   *)
(* object's count is what the host and central_conn hold of it.            *)
(***************************************************************************)
THEOREM NoLeak == ConnSpec => []RefAccounting
<1>1. ConnIInv => RefAccounting
  BY DEF ConnIInv
<1>2. QED
  BY <1>1, ConnInvariant, PTL

\* central_conn is the one sensor connection from creation to disconnected().
THEOREM OneCentral == ConnSpec => []CentralSlot
<1>1. ConnIInv => CentralSlot
  BY DEF ConnIInv
<1>2. QED
  BY <1>1, ConnInvariant, PTL

\* A scan report never overwrites a live central_conn.
THEOREM ScanOnlyWithoutSensor == ConnSpec => []ScanExclusive
<1>1. ConnIInv => ScanExclusive
  BY DEF ConnIInv
<1>2. QED
  BY <1>1, ConnInvariant, PTL

\* With the main loop running and no phone's object in use, the relay advertises,
\* whenever the pool has three objects or more.
THEOREM Visible == Roomy => (ConnSpec => []AdvertisedUnlessPhone)
<1> SUFFICES ASSUME Roomy
             PROVE  ConnSpec => []AdvertisedUnlessPhone
  OBVIOUS
<1>1. ConnIInv => AdvertisedUnlessPhone
  BY DEF ConnIInv
<1>2. QED
  BY <1>1, ConnInvariant, PTL

\* LED 2 is lit exactly for the sensor's connection, LED 3 for a phone's.
THEOREM LedsAreTruthful == ConnSpec => []LedsTruthful
<1>1. ConnIInv => LedsTruthful
  BY DEF ConnIInv, LedsTruthful
<1>2. QED
  BY <1>1, ConnInvariant, PTL

(***************************************************************************)
(* The relay gives up its central role only through scan_connecting_error, *)
(* a reset, or a scan that cannot be started.                              *)
(***************************************************************************)
THEOREM GivesUpOnlyOnError == ConnSpec => GivesUpOnlyOnConnectingError
<1> DEFINE Kept == Seeking /\ ~Seeking' => \/ \E s \in Sensors : ConnectingError(s)
                                          \/ pc' = "boot"
                                          \/ "scan" \in MayFail
<1>1. ConnIInv /\ [ConnNext]_connVars => [Kept]_connVars
  <2> SUFFICES ASSUME ConnIInv, ConnNext, Seeking, ~Seeking', "scan" \notin MayFail
               PROVE  pc' = "boot" \/ \E s \in Sensors : ConnectingError(s)
    OBVIOUS
  <2> USE ConnAssumption DEF Seeking
  <2>1. CASE MainEnable \/ MainScan \/ MainAdvertise
    BY <2>1 DEF MainEnable, MainScan, MainAdvertise, Reserve, ConnIInv, BootOrder, CentralSlot, ConnTypeOK
  <2>2. ASSUME NEW s \in Sensors, ScanMatch(s)
        PROVE  FALSE
    BY <2>2 DEF ScanMatch
  <2>3. ASSUME NEW c \in Conns, ConnectFailed(c) \/ Disconnected(c)
        PROVE  FALSE
    BY <2>3 DEF ConnectFailed, Disconnected, ScanStart
  <2>4. ASSUME NEW c \in Conns,
               \/ ConnectedCentral(c) \/ LinkLost(c) \/ Release(c)
               \/ \E p \in Phones : ConnectedPhone(c, p)
        PROVE  FALSE
    BY <2>4 DEF ConnectedCentral, LinkLost, Release, ConnectedPhone
  <2>5. ASSUME NEW c \in Conns, FatalAccess(c)
        PROVE  pc' = "boot"
    BY <2>5 DEF FatalAccess, Reset
  <2>6. QED
    BY <2>1, <2>2, <2>3, <2>4, <2>5 DEF ConnNext
<1>2. QED
  BY <1>1, ConnInvariant, PTL DEF ConnSpec, GivesUpOnlyOnConnectingError

=============================================================================
