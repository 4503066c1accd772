------------------------- MODULE WifiManagerProofs --------------------------
(***************************************************************************)
(* For any networks, fallback lists and queue sizes: WifiManager keeps its *)
(* types, and what the manager tells follows the driver.  The argument is  *)
(* about the events on their way: the last of a kind says what the driver  *)
(* does now, and when there is none the status says it.                    *)
(***************************************************************************)
EXTENDS WifiManager, SequenceTheorems, TLAPS

-----------------------------------------------------------------------------
(* Sequences of events.  No event of the kind is on its way;               *)
Silent(s, kind) == \A i \in DOMAIN s : s[i] \notin kind

(* the last one on its way is good if and only if it is so now;            *)
LastTells(s, kind, good, now) ==
    \A i \in DOMAIN s :
        s[i] \in kind /\ (\A j \in DOMAIN s : j > i => s[j] \notin kind)
            => (s[i] \in good <=> now)

(* who is said to have come is sent away again.                            *)
GuestsSentAway(s) ==
    \A i \in DOMAIN s : s[i] = "AP_JOIN" => \E j \in DOMAIN s : j > i /\ s[j] = "AP_STOP"

LEMMA TailFacts ==
    ASSUME NEW s \in Seq(Event), s # <<>>
    PROVE  /\ Len(s) \in Nat /\ Len(s) > 0 /\ Tail(s) \in Seq(Event) /\ Head(s) \in Event
           /\ \A i \in 1..Len(s) - 1 : Tail(s)[i] = s[i + 1]
           /\ Head(s) = s[1] /\ 1 \in DOMAIN s
           /\ DOMAIN s = 1..Len(s) /\ DOMAIN Tail(s) = 1..Len(s) - 1
           /\ \A j \in DOMAIN s : j # 1 => j - 1 \in DOMAIN Tail(s) /\ Tail(s)[j - 1] = s[j]
<1>1. /\ Len(s) \in Nat /\ Len(s) > 0 /\ Tail(s) \in Seq(Event) /\ Head(s) \in Event
      /\ Len(Tail(s)) = Len(s) - 1
      /\ \A i \in 1..Len(s) - 1 : Tail(s)[i] = s[i + 1]
      /\ Head(s) = s[1]
  BY HeadTailProperties
<1>2. DOMAIN s = 1..Len(s) /\ DOMAIN Tail(s) = 1..Len(s) - 1 /\ 1 \in DOMAIN s
  BY <1>1
<1>3. \A j \in DOMAIN s : j # 1 => j - 1 \in DOMAIN Tail(s) /\ Tail(s)[j - 1] = s[j]
  BY <1>1, <1>2
<1>. QED
  BY <1>1, <1>2, <1>3

(* When the first event is taken, the last of a kind stays the last, unless *)
(* it was the only one.                                                     *)
LEMMA TailTells ==
    ASSUME NEW s \in Seq(Event), s # <<>>, NEW kind, NEW good, NEW now \in BOOLEAN,
           LastTells(s, kind, good, now)
    PROVE  LastTells(Tail(s), kind, good, now)
<1>1. SUFFICES ASSUME NEW i \in 1..Len(s) - 1, Tail(s)[i] \in kind,
                      \A j \in 1..Len(s) - 1 : j > i => Tail(s)[j] \notin kind
               PROVE  Tail(s)[i] \in good <=> now
  BY TailFacts DEF LastTells
<1>2. i + 1 \in DOMAIN s /\ s[i + 1] = Tail(s)[i]
  BY TailFacts
<1>3. \A j \in DOMAIN s : j > i + 1 => s[j] \notin kind
  <2>1. TAKE j \in DOMAIN s
  <2>2. HAVE j > i + 1
  <2>3. j - 1 \in 1..Len(s) - 1 /\ j - 1 > i /\ Tail(s)[j - 1] = s[j]
    BY <2>2, TailFacts
  <2>. QED
    BY <1>1, <2>3
<1>. QED
  BY <1>1, <1>2, <1>3 DEF LastTells

LEMMA TailSilent ==
    ASSUME NEW s \in Seq(Event), s # <<>>, NEW kind, Silent(Tail(s), kind),
           Head(s) \notin kind
    PROVE  Silent(s, kind)
BY TailFacts DEF Silent

LEMMA OnlyTells ==
    ASSUME NEW s \in Seq(Event), s # <<>>, NEW kind, NEW good, NEW now \in BOOLEAN,
           LastTells(s, kind, good, now), Silent(Tail(s), kind), Head(s) \in kind
    PROVE  Head(s) \in good <=> now
<1>1. \A j \in DOMAIN s : j # 1 => s[j] \notin kind
  BY TailFacts DEF Silent
<1>2. 1 \in DOMAIN s /\ Head(s) = s[1] /\ \A j \in DOMAIN s : j > 1 => j # 1
  BY TailFacts
<1>. QED
  BY <1>1, <1>2 DEF LastTells

LEMMA AppendFacts ==
    ASSUME NEW s \in Seq(Event), NEW e \in Event
    PROVE  /\ Len(s) \in Nat /\ Append(s, e) \in Seq(Event)
           /\ \A i \in 1..Len(s) : Append(s, e)[i] = s[i]
           /\ Append(s, e)[Len(s) + 1] = e
           /\ DOMAIN s = 1..Len(s) /\ DOMAIN Append(s, e) = 1..Len(s) + 1
           /\ \A i \in DOMAIN s : i \in DOMAIN Append(s, e) /\ Append(s, e)[i] = s[i]
<1>1. /\ Len(s) \in Nat /\ Append(s, e) \in Seq(Event) /\ Len(Append(s, e)) = Len(s) + 1
      /\ \A i \in 1..Len(s) : Append(s, e)[i] = s[i]
      /\ Append(s, e)[Len(s) + 1] = e
  BY AppendProperties
<1>2. DOMAIN s = 1..Len(s) /\ DOMAIN Append(s, e) = 1..Len(s) + 1
  BY <1>1
<1>. QED
  BY <1>1, <1>2

(* An event of another kind changes nothing; one of the kind is the last.  *)
LEMMA AppendOther ==
    ASSUME NEW s \in Seq(Event), NEW e \in Event, NEW kind, NEW good, NEW now \in BOOLEAN,
           e \notin kind, LastTells(s, kind, good, now)
    PROVE  LastTells(Append(s, e), kind, good, now)
<1>1. SUFFICES ASSUME NEW i \in 1..Len(s) + 1, Append(s, e)[i] \in kind,
                      \A j \in 1..Len(s) + 1 : j > i => Append(s, e)[j] \notin kind
               PROVE  Append(s, e)[i] \in good <=> now
  BY AppendFacts DEF LastTells
<1>2. i \in DOMAIN s /\ s[i] = Append(s, e)[i]
  BY <1>1, AppendFacts
<1>3. \A j \in DOMAIN s : j > i => s[j] \notin kind
  <2>1. TAKE j \in DOMAIN s
  <2>2. j \in 1..Len(s) + 1 /\ Append(s, e)[j] = s[j]
    BY AppendFacts
  <2>. QED
    BY <1>1, <2>2
<1>. QED
  BY <1>1, <1>2, <1>3 DEF LastTells

LEMMA AppendSame ==
    ASSUME NEW s \in Seq(Event), NEW e \in Event, NEW kind, NEW good, NEW now \in BOOLEAN,
           e \in kind, e \in good <=> now
    PROVE  LastTells(Append(s, e), kind, good, now)
<1>1. SUFFICES ASSUME NEW i \in 1..Len(s) + 1,
                      \A j \in 1..Len(s) + 1 : j > i => Append(s, e)[j] \notin kind
               PROVE  Append(s, e)[i] \in good <=> now
  BY AppendFacts DEF LastTells
<1>2. Len(s) + 1 \in 1..Len(s) + 1 /\ Append(s, e)[Len(s) + 1] \in kind
  BY AppendFacts
<1>3. ~(Len(s) + 1 > i)
  BY <1>1, <1>2
<1>4. i = Len(s) + 1
  BY <1>3, AppendFacts
<1>. QED
  BY <1>4, AppendFacts

LEMMA AppendSilent ==
    ASSUME NEW s \in Seq(Event), NEW e \in Event, NEW kind, Silent(Append(s, e), kind)
    PROVE  e \notin kind /\ Silent(s, kind)
<1>1. Len(s) + 1 \in DOMAIN Append(s, e)
  BY AppendFacts
<1>2. \A i \in DOMAIN s : i \in DOMAIN Append(s, e) /\ Append(s, e)[i] = s[i]
  BY AppendFacts
<1>. QED
  BY <1>1, <1>2, AppendFacts DEF Silent

LEMMA TailGuests ==
    ASSUME NEW s \in Seq(Event), s # <<>>, GuestsSentAway(s)
    PROVE  GuestsSentAway(Tail(s))
<1>1. SUFFICES ASSUME NEW i \in DOMAIN Tail(s), Tail(s)[i] = "AP_JOIN"
               PROVE  \E j \in DOMAIN Tail(s) : j > i /\ Tail(s)[j] = "AP_STOP"
  BY DEF GuestsSentAway
<1>2. i + 1 \in DOMAIN s /\ s[i + 1] = "AP_JOIN" /\ i \in Nat
  BY <1>1, TailFacts
<1>3. PICK j \in DOMAIN s : j > i + 1 /\ s[j] = "AP_STOP"
  BY <1>2 DEF GuestsSentAway
<1>4. j - 1 \in DOMAIN Tail(s) /\ j - 1 > i /\ Tail(s)[j - 1] = "AP_STOP"
  BY <1>2, <1>3, TailFacts
<1>. QED
  BY <1>4

LEMMA TailStop ==
    ASSUME NEW s \in Seq(Event), s # <<>>,
           \/ Head(s) = "AP_JOIN" /\ GuestsSentAway(s)
           \/ Head(s) # "AP_STOP" /\ \E i \in DOMAIN s : s[i] = "AP_STOP"
    PROVE  \E j \in DOMAIN Tail(s) : Tail(s)[j] = "AP_STOP"
<1>1. PICK j \in DOMAIN s : j # 1 /\ s[j] = "AP_STOP"
  <2>1. CASE Head(s) = "AP_JOIN" /\ GuestsSentAway(s)
    BY <2>1, TailFacts DEF GuestsSentAway
  <2>2. CASE Head(s) # "AP_STOP" /\ \E i \in DOMAIN s : s[i] = "AP_STOP"
    BY <2>2, TailFacts
  <2>. QED
    BY <2>1, <2>2
<1>2. j - 1 \in DOMAIN Tail(s) /\ Tail(s)[j - 1] = "AP_STOP"
  BY <1>1, TailFacts
<1>. QED
  BY <1>2

LEMMA AppendGuests ==
    ASSUME NEW s \in Seq(Event), NEW e \in Event, e # "AP_JOIN", GuestsSentAway(s)
    PROVE  GuestsSentAway(Append(s, e))
<1>1. \A i \in DOMAIN Append(s, e) : i \in DOMAIN s \/ i = Len(s) + 1
  BY AppendFacts
<1>2. \A i \in DOMAIN s : i \in DOMAIN Append(s, e) /\ Append(s, e)[i] = s[i]
  BY AppendFacts
<1>3. Append(s, e)[Len(s) + 1] = e
  BY AppendFacts
<1>. QED
  BY <1>1, <1>2, <1>3 DEF GuestsSentAway

LEMMA AppendStop ==
    ASSUME NEW s \in Seq(Event)
    PROVE  /\ GuestsSentAway(Append(s, "AP_STOP"))
           /\ \E i \in DOMAIN Append(s, "AP_STOP") : Append(s, "AP_STOP")[i] = "AP_STOP"
<1>. DEFINE a == Append(s, "AP_STOP")
<1>1. "AP_STOP" \in Event
  BY DEF Event
<1>2. /\ Len(s) + 1 \in DOMAIN a /\ a[Len(s) + 1] = "AP_STOP"
      /\ \A i \in DOMAIN a : a[i] = "AP_JOIN" => Len(s) + 1 > i
  BY <1>1, AppendFacts
<1>. QED
  BY <1>2 DEF GuestsSentAway

-----------------------------------------------------------------------------
LinkEvents == {"GOT_IP", "DISCONNECTED", "AUTH_FAILED"}
ApChanges == {"AP_START", "AP_STOP"}
LinkUp == link = "up"
ApUp == on /\ mode = "APSTA"

(* Where the caller is, what it has done to the driver and to the status.  *)
CallInv ==
    /\ call = "none" => (enabled <=> on) /\ (running <=> on)
    /\ call = "stop" => enabled /\ on /\ ~running
    /\ call = "mark" => enabled /\ ~on /\ ~running
    /\ call = "start" => ~enabled /\ ~on /\ ~running
    /\ call = "up" => ~enabled /\ on /\ ~running
    /\ ~on => link = "idle"

(* wifi_mgr_disable clears the bits before it stops the driver.            *)
LinkInv ==
    /\ LastTells(events, LinkEvents, {"GOT_IP"}, LinkUp)
    /\ Silent(events, LinkEvents) =>
          /\ connected <=> LinkUp
          /\ linkBit => LinkUp
          /\ LinkUp /\ call # "stop" => linkBit

ApInv ==
    /\ LastTells(events, ApChanges, {"AP_START"}, ApUp)
    /\ Silent(events, ApChanges) => (apStarted <=> ApUp)

GuestInv ==
    ~ApUp => /\ GuestsSentAway(events)
             /\ clients > 0 => \E i \in DOMAIN events : events[i] = "AP_STOP"

IInv == TypeOK /\ CallInv /\ LinkInv /\ ApInv /\ GuestInv

USE DEF status, bans, tasks, user, station, driver, world

LEMMA InitInv == Init => IInv
<1>. SUFFICES ASSUME Init PROVE IInv
  OBVIOUS
<1>1. config \in [mode : {"STA", "APSTA"}, auto : BOOLEAN, fallbacks : Seq(Networks),
                  home : Networks \cup {NoNetwork}, ble : BOOLEAN]
  BY WifiAssumption DEF Init, WifiAssumption
<1>2. mode \in {"STA", "APSTA"}
  BY <1>1 DEF Init
<1>3. 0 \in 0..Threshold - 1 /\ Len(<<>>) <= WorkCap
  BY WifiAssumption DEF WifiAssumption
<1>4. fails \in [Networks -> 0..Threshold - 1] /\ ban \in [Networks -> {"none", "banned", "over"}]
  BY <1>3 DEF Init
<1>5. at \in [Tasks -> {"gone", "idle", "delay", "want", "scan", "raise"}]
  BY DEF Init
<1>6. TypeOK
  <2>1. /\ work \in Seq({"scan", "restore"}) /\ Len(work) <= WorkCap
        /\ events \in Seq(Event) /\ cfg \in Networks
    BY <1>3, WifiAssumption DEF Init, WifiAssumption
  <2>2. /\ enabled \in BOOLEAN /\ running \in BOOLEAN /\ connected \in BOOLEAN
        /\ linkBit \in BOOLEAN /\ apStarted \in BOOLEAN /\ tried \in Networks \cup {NoNetwork}
    BY DEF Init
  <2>3. clients \in 0..1 /\ cursor \in Nat
    BY DEF Init
  <2>4. /\ call \in {"none", "stop", "mark", "start", "up"} /\ ble \in {"idle", "phone", "off"}
        /\ on \in BOOLEAN /\ link \in {"idle", "joining", "up"}
        /\ net \in Networks \cup {NoNetwork} /\ air \subseteq Networks /\ calm \in BOOLEAN
    BY DEF Init
  <2>. QED
    BY <1>1, <1>2, <1>4, <1>5, <2>1, <2>2, <2>3, <2>4 DEF TypeOK
<1>7. DOMAIN events = {}
  BY DEF Init
<1>8. Silent(events, LinkEvents) /\ Silent(events, ApChanges) /\ GuestsSentAway(events)
  BY <1>7 DEF Silent, GuestsSentAway
<1>9. /\ LastTells(events, LinkEvents, {"GOT_IP"}, LinkUp)
      /\ LastTells(events, ApChanges, {"AP_START"}, ApUp)
  BY <1>7 DEF LastTells
<1>. QED
  BY <1>6, <1>8, <1>9 DEF IInv, Init, CallInv, LinkInv, ApInv, GuestInv, LinkUp, ApUp

(* A step that posts and takes no event, and leaves the status, the caller *)
(* and what the driver is up to as they are.                               *)
LEMMA QuietInv ==
    ASSUME IInv, TypeOK',
           UNCHANGED <<status, call, on, mode, events>>,
           LinkUp' <=> LinkUp, ~on => link' = "idle"
    PROVE  IInv'
<1>1. CallInv'
  BY DEF IInv, CallInv
<1>2. LinkInv'
  BY DEF IInv, LinkInv, LastTells
<1>3. ApInv'
  BY DEF IInv, ApInv, ApUp
<1>4. GuestInv'
  BY DEF IInv, GuestInv, ApUp
<1>. QED
  BY <1>1, <1>2, <1>3, <1>4 DEF IInv

-----------------------------------------------------------------------------
(* Configurations and bans.                                                *)
LEMMA CandidatesTyped ==
    ASSUME TypeOK
    PROVE  /\ Len(Candidates) \in Nat \ {0}
           /\ DOMAIN Candidates = 1..Len(Candidates)
           /\ \A i \in DOMAIN Candidates : Candidates[i] \in Networks
<1>1. <<Primary>> \in Seq(Networks) /\ Len(<<Primary>>) = 1
  BY WifiAssumption DEF WifiAssumption
<1>2. config.fallbacks \in Seq(Networks)
  BY DEF TypeOK
<1>3. Candidates \in Seq(Networks) /\ Len(Candidates) = 1 + Len(config.fallbacks)
  BY <1>1, <1>2, ConcatProperties DEF Candidates
<1>4. Len(config.fallbacks) \in Nat
  BY <1>2
<1>. QED
  BY <1>3, <1>4

LEMMA TurnTyped ==
    ASSUME TypeOK, NEW k \in 0..Len(Candidates) - 1
    PROVE  /\ Candidates[Turn(k)] \in Networks
           /\ Turn(k) % Len(Candidates) \in Nat
<1>1. cursor + k \in Nat /\ Len(Candidates) \in Nat \ {0}
  BY CandidatesTyped DEF TypeOK
<1>2. (cursor + k) % Len(Candidates) \in 0..Len(Candidates) - 1
  BY <1>1
<1>3. Turn(k) \in 1..Len(Candidates)
  BY <1>1, <1>2 DEF Turn
<1>. QED
  BY <1>1, <1>3, CandidatesTyped

LEMMA ConnectTyped ==
    ASSUME TypeOK, CallInv, NEW n \in Networks, Connect(n)
    PROVE  /\ link' \in {"idle", "joining", "up"} /\ net' \in Networks \cup {NoNetwork}
           /\ LinkUp' <=> LinkUp
           /\ ~on => link' = "idle"
BY DEF TypeOK, CallInv, Connect, LinkUp

LEMMA ConfigureTyped ==
    ASSUME TypeOK, CallInv, NEW n \in Networks, ConfigureAndConnect(n)
    PROVE  /\ cfg' \in Networks
           /\ link' \in {"idle", "joining", "up"} /\ net' \in Networks \cup {NoNetwork}
           /\ LinkUp' <=> LinkUp
           /\ ~on => link' = "idle"
<1>1. CASE link = "joining"
  BY <1>1 DEF TypeOK, CallInv, ConfigureAndConnect, LinkUp
<1>2. CASE link # "joining"
  BY <1>2, ConnectTyped DEF ConfigureAndConnect
<1>. QED
  BY <1>1, <1>2

LEMMA LookedAtTyped ==
    ASSUME TypeOK, NEW n \in Networks
    PROVE  LookedAt(n) \in [Networks -> {"none", "banned", "over"}]
BY DEF TypeOK, LookedAt

LEMMA BansTyped ==
    ASSUME TypeOK, NEW n \in Networks \cup {NoNetwork}, AuthFailure(n) \/ Pardon(n)
    PROVE  /\ fails' \in [Networks -> 0..Threshold - 1]
           /\ ban' \in [Networks -> {"none", "banned", "over"}]
<1>1. Threshold \in Nat \ {0}
  BY WifiAssumption DEF WifiAssumption
<1>2. CASE n = NoNetwork
  BY <1>2 DEF TypeOK, AuthFailure, Pardon
<1>3. CASE n \in Networks /\ n # NoNetwork /\ AuthFailure(n)
  <2>1. fails[n] \in 0..Threshold - 1
    BY <1>3 DEF TypeOK
  <2>2. \/ UNCHANGED bans
        \/ /\ fails' = [fails EXCEPT ![n] = 0]
           /\ ban' = [ban EXCEPT ![n] = "banned"]
        \/ /\ ~(fails[n] + 1 >= Threshold)
           /\ fails' = [fails EXCEPT ![n] = fails[n] + 1] /\ ban' = ban
    BY <1>3 DEF AuthFailure
  <2>3. 0 \in 0..Threshold - 1 /\ (~(fails[n] + 1 >= Threshold) => fails[n] + 1 \in 0..Threshold - 1)
    BY <1>1, <2>1
  <2>. QED
    <3>1. fails' \in [Networks -> 0..Threshold - 1]
      BY <1>3, <2>2, <2>3 DEF TypeOK
    <3>2. ban' \in [Networks -> {"none", "banned", "over"}]
      BY <1>3, <2>2 DEF TypeOK
    <3>. QED
      BY <3>1, <3>2
<1>4. CASE n \in Networks /\ n # NoNetwork /\ Pardon(n)
  <2>1. 0 \in 0..Threshold - 1
    BY <1>1
  <2>2. fails' = [fails EXCEPT ![n] = 0] /\ ban' = [ban EXCEPT ![n] = "none"]
    BY <1>4 DEF Pardon
  <2>. QED
    BY <1>4, <2>1, <2>2 DEF TypeOK
<1>. QED
  BY <1>2, <1>3, <1>4

-----------------------------------------------------------------------------
(* wifi_mgr_scan_select_and_connect, in any task, chooses a network.       *)
LEMMA ScanStep ==
    ASSUME IInv, NEW t \in Tasks, ScanSelectAndConnect(t)
    PROVE  IInv'
<1>. USE DEF IInv
<1>1. CASE ScanStarts(t)
  <2>1. TypeOK'
    BY <1>1 DEF ScanStarts, TypeOK
  <2>. QED
    BY <1>1, <2>1, QuietInv DEF ScanStarts, LinkUp, CallInv
<1>2. CASE ScanRefused(t)
  <2>1. PICK k \in 0..Len(Candidates) - 1 :
            /\ tried' = Candidates[Turn(k)] /\ ban' = LookedAt(Candidates[Turn(k)])
            /\ ConfigureAndConnect(Candidates[Turn(k)])
            /\ cursor' = Turn(k) % Len(Candidates)
    BY <1>2 DEF ScanRefused
  <2>2. UNCHANGED <<status, fails, work, user, on, mode, events, world>> /\ Returns(t)
    BY <1>2 DEF ScanRefused
  <2>3. at' \in [Tasks -> {"gone", "idle", "delay", "want", "scan", "raise"}]
    BY <2>2 DEF TypeOK, Returns
  <2>4. TypeOK'
    BY <2>1, <2>2, <2>3, TurnTyped, ConfigureTyped, LookedAtTyped DEF TypeOK
  <2>. QED
    BY <2>1, <2>2, <2>4, QuietInv, TurnTyped, ConfigureTyped
<1>3. CASE ScanFinds(t)
  <2>1. PICK i \in DOMAIN Candidates :
            /\ ban' = LookedAt(Candidates[i])
            /\ tried' = IF link = "joining" THEN cfg ELSE Candidates[i]
            /\ ConfigureAndConnect(Candidates[i])
    BY <1>3 DEF ScanFinds
  <2>2. /\ UNCHANGED <<status, cursor, fails, work, user, on, mode, events, world>>
        /\ Returns(t)
    BY <1>3 DEF ScanFinds
  <2>3. at' \in [Tasks -> {"gone", "idle", "delay", "want", "scan", "raise"}]
    BY <2>2 DEF TypeOK, Returns
  <2>4. Candidates[i] \in Networks
    BY CandidatesTyped
  <2>5. TypeOK'
    BY <2>1, <2>2, <2>3, <2>4, ConfigureTyped, LookedAtTyped DEF TypeOK
  <2>. QED
    BY <2>1, <2>2, <2>4, <2>5, QuietInv, ConfigureTyped
<1>4. CASE ScanFindsNone(t)
  <2>1. /\ tried' \in {tried, cfg} /\ Connect(cfg) /\ Returns(t)
        /\ UNCHANGED <<status, cursor, bans, work, user, on, mode, cfg, events, world>>
    BY <1>4 DEF ScanFindsNone
  <2>2. at' \in [Tasks -> {"gone", "idle", "delay", "want", "scan", "raise"}]
    BY <2>1 DEF TypeOK, Returns
  <2>3. cfg \in Networks /\ tried' \in Networks \cup {NoNetwork}
    BY <2>1 DEF TypeOK
  <2>4. TypeOK'
    BY <2>1, <2>2, <2>3, ConnectTyped DEF TypeOK
  <2>. QED
    BY <2>1, <2>3, <2>4, QuietInv, ConnectTyped
<1>. QED
  BY <1>1, <1>2, <1>3, <1>4 DEF ScanSelectAndConnect

(* The steps of the deferred and the reconnect task, of the radio and of   *)
(* time that neither post nor take an event.                               *)
LEMMA QuietStep ==
    ASSUME IInv,
           \/ TakesWork \/ StillDisconnected
           \/ Exits \/ MustReconnect \/ NoLongerNeeded \/ Reselects \/ Reconnects
           \/ BanOver \/ CalmBegins
    PROVE  IInv'
<1>. USE DEF IInv
<1>1. CASE TakesWork
  <2>1. /\ work # <<>> /\ work' = Tail(work)
        /\ at' \in [Tasks -> {"gone", "idle", "delay", "want", "scan", "raise"}]
        /\ UNCHANGED <<status, tried, cursor, bans, user, driver, world>>
    BY <1>1 DEF TakesWork, TypeOK
  <2>2. work' \in Seq({"scan", "restore"}) /\ Len(work') = Len(work) - 1 /\ Len(work) \in Nat
    BY <2>1, HeadTailProperties DEF TypeOK
  <2>3. Len(work') <= WorkCap
    BY <2>2, WifiAssumption DEF TypeOK, WifiAssumption
  <2>4. TypeOK'
    BY <2>1, <2>2, <2>3 DEF TypeOK
  <2>. QED
    BY <2>1, <2>4, QuietInv DEF LinkUp, CallInv
<1>2. CASE Reconnects
  <2>1. /\ tried' = cfg /\ ban' = LookedAt(cfg)
        /\ UNCHANGED <<link, net>> \/ Connect(cfg)
        /\ Returns("reconnect")
        /\ UNCHANGED <<status, cursor, fails, work, user, on, mode, cfg, events, world>>
    BY <1>2 DEF Reconnects
  <2>2. at' \in [Tasks -> {"gone", "idle", "delay", "want", "scan", "raise"}]
    BY <2>1 DEF TypeOK, Returns
  <2>3. cfg \in Networks
    BY DEF TypeOK
  <2>4. /\ link' \in {"idle", "joining", "up"} /\ net' \in Networks \cup {NoNetwork}
        /\ LinkUp' <=> LinkUp
        /\ ~on => link' = "idle"
    BY <2>1, <2>3, ConnectTyped DEF TypeOK, CallInv, LinkUp
  <2>5. TypeOK'
    BY <2>1, <2>2, <2>3, <2>4, LookedAtTyped DEF TypeOK
  <2>. QED
    BY <2>1, <2>4, <2>5, QuietInv
<1>3. CASE StillDisconnected \/ Exits \/ MustReconnect \/ NoLongerNeeded \/ Reselects
  <2>1. /\ at' \in [Tasks -> {"gone", "idle", "delay", "want", "scan", "raise"}]
        /\ UNCHANGED <<status, tried, cursor, bans, work, user, driver, world>>
    BY <1>3 DEF StillDisconnected, Exits, MustReconnect, NoLongerNeeded, Reselects, Returns, TypeOK
  <2>2. TypeOK'
    BY <2>1 DEF TypeOK
  <2>. QED
    BY <2>1, <2>2, QuietInv DEF LinkUp, CallInv
<1>4. CASE BanOver
  <2>1. TypeOK'
    BY <1>4 DEF BanOver, TypeOK
  <2>. QED
    BY <1>4, <2>1, QuietInv DEF BanOver, LinkUp, CallInv
<1>5. CASE CalmBegins
  <2>1. TypeOK'
    BY <1>5 DEF CalmBegins, TypeOK
  <2>. QED
    BY <1>5, <2>1, QuietInv DEF CalmBegins, LinkUp, CallInv
<1>. QED
  BY <1>1, <1>2, <1>3, <1>4, <1>5

-----------------------------------------------------------------------------
(* The steps that post one event: of the link, or of the access point.     *)
LEMMA LinkEventStep ==
    ASSUME IInv, TypeOK', NEW e \in LinkEvents, events' = Append(events, e),
           UNCHANGED <<status, call, on, mode>>,
           LinkUp' <=> e = "GOT_IP", ~on => link' = "idle"
    PROVE  IInv'
<1>. USE DEF IInv
<1>1. e \in Event /\ e \notin ApChanges /\ e # "AP_JOIN" /\ e # "AP_STOP" /\ events \in Seq(Event)
  BY DEF LinkEvents, ApChanges, Event, TypeOK
<1>2. CallInv'
  BY DEF CallInv
<1>3. LinkInv'
  <2>1. LinkUp' \in BOOLEAN /\ (e \in {"GOT_IP"} <=> LinkUp')
    BY DEF LinkUp
  <2>2. LastTells(events', LinkEvents, {"GOT_IP"}, LinkUp')
    BY <1>1, <2>1, AppendSame
  <2>3. ~Silent(events', LinkEvents)
    BY <1>1, AppendSilent
  <2>. QED
    BY <2>2, <2>3 DEF LinkInv
<1>4. ApInv'
  <2>1. ApUp \in BOOLEAN /\ ApUp' = ApUp
    BY DEF ApUp
  <2>2. LastTells(events', ApChanges, {"AP_START"}, ApUp)
    BY <1>1, <2>1, AppendOther DEF ApInv
  <2>3. Silent(events', ApChanges) => Silent(events, ApChanges)
    BY <1>1, AppendSilent
  <2>. QED
    BY <2>1, <2>2, <2>3 DEF ApInv
<1>5. GuestInv'
  <2>1. GuestsSentAway(events) => GuestsSentAway(events')
    BY <1>1, AppendGuests
  <2>2. \A i \in DOMAIN events : i \in DOMAIN events' /\ events'[i] = events[i]
    BY <1>1, AppendFacts
  <2>. QED
    BY <2>1, <2>2 DEF GuestInv, ApUp
<1>. QED
  BY <1>2, <1>3, <1>4, <1>5

LEMMA RadioStep ==
    ASSUME IInv, Joins \/ JoinFails \/ LinkLost \/ GoesHome \/ DropsDeadSignal
    PROVE  IInv'
<1>. USE DEF IInv
<1>1. PICK e \in LinkEvents :
         /\ events' = Append(events, e)
         /\ link' = (IF e = "GOT_IP" THEN "up" ELSE "idle")
         /\ net' \in {net, NoNetwork}
         /\ link # "idle"
  BY DEF Joins, JoinFails, LinkLost, GoesHome, DropsDeadSignal, Disconnect, LinkEvents
<1>2. UNCHANGED <<status, tried, cursor, bans, tasks, user, on, mode, cfg, world>>
  BY DEF Joins, JoinFails, LinkLost, GoesHome, DropsDeadSignal
<1>3. e \in Event /\ events \in Seq(Event)
  BY DEF LinkEvents, Event, TypeOK
<1>4. events' \in Seq(Event)
  BY <1>1, <1>3, AppendProperties
<1>5. TypeOK'
  BY <1>1, <1>2, <1>4 DEF TypeOK
<1>. QED
  BY <1>1, <1>2, <1>5, LinkEventStep DEF LinkUp, CallInv

LEMMA GuestStep ==
    ASSUME IInv, GuestComes \/ GuestGoes
    PROVE  IInv'
<1>. USE DEF IInv
<1>1. PICK e \in {"AP_JOIN", "AP_LEAVE"} : events' = Append(events, e)
  BY DEF GuestComes, GuestGoes
<1>2. /\ UNCHANGED <<status, tried, cursor, bans, tasks, user, on, mode, station, world>>
      /\ on /\ mode = "APSTA"
  BY DEF GuestComes, GuestGoes
<1>3. e \in Event /\ e \notin LinkEvents /\ e \notin ApChanges /\ events \in Seq(Event)
  BY DEF LinkEvents, ApChanges, Event, TypeOK
<1>4. events' \in Seq(Event)
  BY <1>1, <1>3, AppendProperties
<1>5. TypeOK'
  BY <1>2, <1>4 DEF TypeOK
<1>6. CallInv'
  BY <1>2 DEF CallInv
<1>7. LinkInv'
  <2>1. LinkUp \in BOOLEAN /\ LinkUp' = LinkUp
    BY <1>2 DEF LinkUp
  <2>2. LastTells(events', LinkEvents, {"GOT_IP"}, LinkUp)
    BY <1>1, <1>3, <2>1, AppendOther DEF LinkInv
  <2>3. Silent(events', LinkEvents) => Silent(events, LinkEvents)
    BY <1>1, <1>3, AppendSilent
  <2>. QED
    BY <1>2, <2>1, <2>2, <2>3 DEF LinkInv
<1>8. ApInv'
  <2>1. ApUp \in BOOLEAN /\ ApUp' = ApUp
    BY <1>2 DEF ApUp
  <2>2. LastTells(events', ApChanges, {"AP_START"}, ApUp)
    BY <1>1, <1>3, <2>1, AppendOther DEF ApInv
  <2>3. Silent(events', ApChanges) => Silent(events, ApChanges)
    BY <1>1, <1>3, AppendSilent
  <2>. QED
    BY <1>2, <2>1, <2>2, <2>3 DEF ApInv
<1>9. GuestInv'
  BY <1>2 DEF GuestInv, ApUp
<1>. QED
  BY <1>5, <1>6, <1>7, <1>8, <1>9

(* esp_wifi_set_mode posts what it changes; q is what is left of the queue *)
(* when it is called, the rest of the invariant being about that.          *)
LEMMA SetModeStep ==
    ASSUME TypeOK, NEW q \in Seq(Event), NEW m \in {"STA", "APSTA"}, SetMode(m, q),
           on' = on,
           LastTells(q, LinkEvents, {"GOT_IP"}, LinkUp),
           LastTells(q, ApChanges, {"AP_START"}, ApUp),
           ~ApUp => GuestsSentAway(q)
    PROVE  /\ events' \in Seq(Event)
           /\ LastTells(events', LinkEvents, {"GOT_IP"}, LinkUp)
           /\ Silent(events', LinkEvents) => Silent(q, LinkEvents)
           /\ LastTells(events', ApChanges, {"AP_START"}, ApUp')
           /\ Silent(events', ApChanges) => Silent(q, ApChanges) /\ (ApUp' <=> ApUp)
           /\ ~ApUp' => GuestsSentAway(events')
           /\ ~ApUp' /\ ApUp => \E i \in DOMAIN events' : events'[i] = "AP_STOP"
           /\ \A i \in DOMAIN q : i \in DOMAIN events' /\ events'[i] = q[i]
<1>1. LinkUp \in BOOLEAN /\ ApUp \in BOOLEAN /\ ApUp' \in BOOLEAN
  BY DEF LinkUp, ApUp
<1>2. CASE ~on \/ mode = m
  <2>1. events' = q
    BY <1>2, ConcatEmptySeq DEF SetMode, ApEvents
  <2>2. ApUp' <=> ApUp
    BY <1>2 DEF SetMode, ApUp
  <2>. QED
    BY <1>1, <2>1, <2>2 DEF LastTells
<1>3. CASE on /\ mode # m /\ m = "APSTA"
  <2>1. "AP_START" \in Event /\ "AP_START" \notin LinkEvents /\ "AP_START" \in ApChanges
    BY DEF Event, LinkEvents, ApChanges
  <2>2. events' = Append(q, "AP_START")
    BY <1>3, <2>1, AppendIsConcat DEF SetMode, ApEvents
  <2>3. ApUp'
    BY <1>3 DEF SetMode, ApUp
  <2>4. /\ events' \in Seq(Event)
        /\ LastTells(events', LinkEvents, {"GOT_IP"}, LinkUp)
        /\ Silent(events', LinkEvents) => Silent(q, LinkEvents)
    <3>1. LastTells(events', LinkEvents, {"GOT_IP"}, LinkUp)
      BY <1>1, <2>1, <2>2, AppendOther
    <3>. QED
      BY <2>1, <2>2, <3>1, AppendFacts, AppendSilent
  <2>5. LastTells(events', ApChanges, {"AP_START"}, ApUp') /\ ~Silent(events', ApChanges)
    BY <1>1, <2>1, <2>2, <2>3, AppendSame, AppendSilent
  <2>6. \A i \in DOMAIN q : i \in DOMAIN events' /\ events'[i] = q[i]
    BY <2>1, <2>2, AppendFacts
  <2>. QED
    BY <2>3, <2>4, <2>5, <2>6
<1>4. CASE on /\ mode # m /\ m = "STA"
  <2>1. "AP_STOP" \in Event /\ "AP_STOP" \notin LinkEvents /\ "AP_STOP" \in ApChanges
    BY DEF Event, LinkEvents, ApChanges
  <2>2. events' = Append(q, "AP_STOP")
    BY <1>4, <2>1, AppendIsConcat DEF SetMode, ApEvents
  <2>3. ~ApUp'
    BY <1>4 DEF SetMode, ApUp
  <2>4. /\ events' \in Seq(Event)
        /\ LastTells(events', LinkEvents, {"GOT_IP"}, LinkUp)
        /\ Silent(events', LinkEvents) => Silent(q, LinkEvents)
    <3>1. LastTells(events', LinkEvents, {"GOT_IP"}, LinkUp)
      BY <1>1, <2>1, <2>2, AppendOther
    <3>. QED
      BY <2>1, <2>2, <3>1, AppendFacts, AppendSilent
  <2>5. LastTells(events', ApChanges, {"AP_START"}, ApUp') /\ ~Silent(events', ApChanges)
    BY <1>1, <2>1, <2>2, <2>3, AppendSame, AppendSilent
  <2>6. /\ GuestsSentAway(events')
        /\ \E i \in DOMAIN events' : events'[i] = "AP_STOP"
        /\ \A i \in DOMAIN q : i \in DOMAIN events' /\ events'[i] = q[i]
    BY <2>1, <2>2, AppendFacts, AppendStop
  <2>. QED
    BY <2>3, <2>4, <2>5, <2>6
<1>. QED
  BY <1>2, <1>3, <1>4 DEF TypeOK

LEMMA RaisesApStep == ASSUME IInv, RaisesAp PROVE IInv'
<1>. USE DEF IInv
<1>1. /\ SetMode("APSTA", events) /\ Returns("deferred") /\ mode' = "APSTA"
      /\ UNCHANGED <<status, tried, cursor, bans, work, user, on, station, world>>
  BY DEF RaisesAp, SetMode
<1>2. at' \in [Tasks -> {"gone", "idle", "delay", "want", "scan", "raise"}]
  BY <1>1 DEF TypeOK, Returns
<1>3. events \in Seq(Event)
  BY DEF TypeOK
<1>4. /\ events' \in Seq(Event)
      /\ LastTells(events', LinkEvents, {"GOT_IP"}, LinkUp)
      /\ Silent(events', LinkEvents) => Silent(events, LinkEvents)
      /\ LastTells(events', ApChanges, {"AP_START"}, ApUp')
      /\ Silent(events', ApChanges) => Silent(events, ApChanges) /\ (ApUp' <=> ApUp)
      /\ ~ApUp' => GuestsSentAway(events')
      /\ ~ApUp' /\ ApUp => \E i \in DOMAIN events' : events'[i] = "AP_STOP"
      /\ \A i \in DOMAIN events : i \in DOMAIN events' /\ events'[i] = events[i]
  BY <1>1, <1>3, SetModeStep DEF LinkInv, ApInv, GuestInv
<1>5. TypeOK'
  BY <1>1, <1>2, <1>4 DEF TypeOK
<1>6. CallInv'
  BY <1>1 DEF CallInv
<1>7. LinkInv'
  BY <1>1, <1>4 DEF LinkInv, LinkUp
<1>8. ApInv'
  BY <1>1, <1>4 DEF ApInv
<1>9. GuestInv'
  BY <1>1, <1>4 DEF GuestInv
<1>. QED
  BY <1>5, <1>6, <1>7, <1>8, <1>9

-----------------------------------------------------------------------------
(* The event loop takes the first event.                                   *)
LEMMA RestFacts ==
    ASSUME IInv, events # <<>>
    PROVE  /\ Rest \in Seq(Event) /\ Head(events) \in Event
           /\ LastTells(Rest, LinkEvents, {"GOT_IP"}, LinkUp)
           /\ LastTells(Rest, ApChanges, {"AP_START"}, ApUp)
           /\ ~ApUp => GuestsSentAway(Rest)
           /\ Silent(Rest, LinkEvents) =>
                 IF Head(events) \in LinkEvents THEN Head(events) = "GOT_IP" <=> LinkUp
                                                ELSE Silent(events, LinkEvents)
           /\ Silent(Rest, ApChanges) =>
                 IF Head(events) \in ApChanges THEN Head(events) = "AP_START" <=> ApUp
                                               ELSE Silent(events, ApChanges)
           /\ ~ApUp /\ clients > 0 /\ Head(events) # "AP_STOP"
                 => \E j \in DOMAIN Rest : Rest[j] = "AP_STOP"
           /\ ~ApUp /\ Head(events) = "AP_JOIN" => \E j \in DOMAIN Rest : Rest[j] = "AP_STOP"
<1>. USE DEF IInv, Rest
<1>1. events \in Seq(Event) /\ LinkUp \in BOOLEAN /\ ApUp \in BOOLEAN
  BY DEF TypeOK, LinkUp, ApUp
<1>2. Rest \in Seq(Event) /\ Head(events) \in Event
  BY <1>1, TailFacts
<1>3. LastTells(Rest, LinkEvents, {"GOT_IP"}, LinkUp)
  BY <1>1, TailTells DEF LinkInv
<1>4. LastTells(Rest, ApChanges, {"AP_START"}, ApUp)
  BY <1>1, TailTells DEF ApInv
<1>5. ~ApUp => GuestsSentAway(Rest)
  BY <1>1, TailGuests DEF GuestInv
<1>6. ASSUME Silent(Rest, LinkEvents)
      PROVE  IF Head(events) \in LinkEvents THEN Head(events) = "GOT_IP" <=> LinkUp
                                            ELSE Silent(events, LinkEvents)
  <2>1. CASE Head(events) \in LinkEvents
    <3>1. LastTells(events, LinkEvents, {"GOT_IP"}, LinkUp)
      BY DEF LinkInv
    <3>2. Head(events) \in {"GOT_IP"} <=> LinkUp
      BY <1>1, <1>6, <2>1, <3>1, OnlyTells
    <3>. QED
      BY <2>1, <3>2
  <2>2. CASE Head(events) \notin LinkEvents
    BY <1>1, <1>6, <2>2, TailSilent
  <2>. QED
    BY <2>1, <2>2
<1>7. ASSUME Silent(Rest, ApChanges)
      PROVE  IF Head(events) \in ApChanges THEN Head(events) = "AP_START" <=> ApUp
                                           ELSE Silent(events, ApChanges)
  <2>1. CASE Head(events) \in ApChanges
    <3>1. LastTells(events, ApChanges, {"AP_START"}, ApUp)
      BY DEF ApInv
    <3>2. Head(events) \in {"AP_START"} <=> ApUp
      BY <1>1, <1>7, <2>1, <3>1, OnlyTells
    <3>. QED
      BY <2>1, <3>2
  <2>2. CASE Head(events) \notin ApChanges
    BY <1>1, <1>7, <2>2, TailSilent
  <2>. QED
    BY <2>1, <2>2
<1>8. ~ApUp /\ clients > 0 /\ Head(events) # "AP_STOP"
          => \E j \in DOMAIN Rest : Rest[j] = "AP_STOP"
  BY <1>1, TailStop DEF GuestInv
<1>9. ~ApUp /\ Head(events) = "AP_JOIN" => \E j \in DOMAIN Rest : Rest[j] = "AP_STOP"
  BY <1>1, TailStop DEF GuestInv
<1>. QED
  BY <1>2, <1>3, <1>4, <1>5, <1>6, <1>7, <1>8, <1>9

LEMMA QueuedTyped ==
    ASSUME TypeOK, NEW w \in {"scan", "restore"}, Queued(w) \/ UNCHANGED work
    PROVE  work' \in Seq({"scan", "restore"}) /\ Len(work') <= WorkCap
<1>1. work \in Seq({"scan", "restore"}) /\ Len(work) \in Nat /\ WorkCap \in Nat
  BY WifiAssumption DEF TypeOK, WifiAssumption
<1>2. CASE Len(work) < WorkCap /\ work' = Append(work, w)
  <2>1. work' \in Seq({"scan", "restore"}) /\ Len(work') = Len(work) + 1
    BY <1>1, <1>2, AppendProperties
  <2>. QED
    BY <1>1, <1>2, <2>1
<1>3. CASE work' = work
  BY <1>3 DEF TypeOK
<1>. QED
  BY <1>2, <1>3 DEF Queued

LEMMA StaStartStep == ASSUME IInv, StaStart PROVE IInv'
<1>. USE DEF IInv
<1>1. /\ events # <<>> /\ Head(events) = "STA_START" /\ events' = Rest
      /\ UNCHANGED <<status, cursor, bans, user, on, mode, cfg, world>>
  BY DEF StaStart, Handles
<1>2. /\ tried' \in Networks \cup {NoNetwork}
      /\ Queued("scan") \/ UNCHANGED work
      /\ at' \in [Tasks -> {"gone", "idle", "delay", "want", "scan", "raise"}]
  BY DEF StaStart, TypeOK
<1>3. /\ link' \in {"idle", "joining", "up"} /\ net' \in Networks \cup {NoNetwork}
      /\ LinkUp' <=> LinkUp
      /\ ~on => link' = "idle"
  <2>1. cfg \in Networks /\ (UNCHANGED <<link, net>> \/ Connect(cfg))
    BY DEF StaStart, TypeOK
  <2>. QED
    BY <2>1, ConnectTyped DEF TypeOK, CallInv, LinkUp
<1>4. work' \in Seq({"scan", "restore"}) /\ Len(work') <= WorkCap
  BY <1>2, QueuedTyped
<1>5. TypeOK'
  BY <1>1, <1>2, <1>3, <1>4, RestFacts DEF TypeOK
<1>6. "STA_START" \notin LinkEvents /\ "STA_START" \notin ApChanges
  BY DEF LinkEvents, ApChanges
<1>7. CallInv'
  BY <1>1, <1>3 DEF CallInv
<1>8. LinkInv'
  <2>1. LastTells(events', LinkEvents, {"GOT_IP"}, LinkUp)
    BY <1>1, RestFacts
  <2>2. Silent(events', LinkEvents) => Silent(events, LinkEvents)
    BY <1>1, <1>6, RestFacts
  <2>. QED
    BY <1>1, <1>3, <2>1, <2>2 DEF LinkInv, LastTells
<1>9. ApInv' /\ GuestInv'
  <2>1. /\ LastTells(events', ApChanges, {"AP_START"}, ApUp)
        /\ Silent(events', ApChanges) => Silent(events, ApChanges)
        /\ ~ApUp => GuestsSentAway(events')
        /\ ~ApUp /\ clients > 0 => \E j \in DOMAIN events' : events'[j] = "AP_STOP"
    BY <1>1, <1>6, RestFacts
  <2>2. ApUp' = ApUp
    BY <1>1 DEF ApUp
  <2>. QED
    BY <1>1, <2>1, <2>2 DEF ApInv, GuestInv
<1>. QED
  BY <1>5, <1>7, <1>8, <1>9

LEMMA StaDisconnectedStep == ASSUME IInv, StaDisconnected PROVE IInv'
<1>. USE DEF IInv
<1>1. /\ events # <<>> /\ Head(events) \in {"DISCONNECTED", "AUTH_FAILED"} /\ events' = Rest
      /\ connected' = FALSE /\ linkBit' = FALSE
      /\ UNCHANGED <<enabled, running, apStarted, clients, tried, cursor, at, user, on, mode,
                     station, world>>
  BY DEF StaDisconnected, Handles
<1>2. AuthFailure(tried) \/ UNCHANGED bans
  BY DEF StaDisconnected
<1>3. Queued("restore") \/ UNCHANGED work
  BY DEF StaDisconnected
<1>4. /\ fails' \in [Networks -> 0..Threshold - 1]
      /\ ban' \in [Networks -> {"none", "banned", "over"}]
  <2>1. tried \in Networks \cup {NoNetwork}
    BY DEF TypeOK
  <2>. QED
    BY <1>2, <2>1, BansTyped DEF TypeOK
<1>5. work' \in Seq({"scan", "restore"}) /\ Len(work') <= WorkCap
  BY <1>3, QueuedTyped
<1>6. connected' \in BOOLEAN /\ linkBit' \in BOOLEAN
  BY <1>1
<1>7. TypeOK'
  BY <1>1, <1>4, <1>5, <1>6, RestFacts DEF TypeOK
<1>8. Head(events) \in LinkEvents /\ Head(events) # "GOT_IP" /\ Head(events) \notin ApChanges
  BY <1>1 DEF LinkEvents, ApChanges
<1>9. CallInv'
  BY <1>1 DEF CallInv
<1>10. LinkInv'
  <2>1. LastTells(events', LinkEvents, {"GOT_IP"}, LinkUp) /\ LinkUp' = LinkUp
    BY <1>1, RestFacts DEF LinkUp
  <2>2. Silent(events', LinkEvents) => ~LinkUp
    BY <1>1, <1>8, RestFacts
  <2>. QED
    BY <1>1, <2>1, <2>2 DEF LinkInv
<1>11. ApInv' /\ GuestInv'
  <2>1. /\ LastTells(events', ApChanges, {"AP_START"}, ApUp)
        /\ Silent(events', ApChanges) => Silent(events, ApChanges)
        /\ ~ApUp => GuestsSentAway(events')
        /\ ~ApUp /\ clients > 0 => \E j \in DOMAIN events' : events'[j] = "AP_STOP"
    BY <1>1, <1>8, RestFacts
  <2>2. ApUp' = ApUp
    BY <1>1 DEF ApUp
  <2>. QED
    BY <1>1, <2>1, <2>2 DEF ApInv, GuestInv
<1>. QED
  BY <1>7, <1>9, <1>10, <1>11

LEMMA GotIpStep == ASSUME IInv, GotIp PROVE IInv'
<1>. USE DEF IInv
<1>1. /\ events # <<>> /\ Head(events) = "GOT_IP"
      /\ connected' = TRUE /\ linkBit' = TRUE
      /\ Pardon(tried)
      /\ SetMode("STA", Rest) \/ (events' = Rest /\ mode' = mode)
      /\ UNCHANGED <<enabled, running, apStarted, clients, tried, cursor, tasks, user, on,
                     station, world>>
  BY DEF GotIp, Handles
<1>2. /\ Rest \in Seq(Event)
      /\ LastTells(Rest, LinkEvents, {"GOT_IP"}, LinkUp)
      /\ LastTells(Rest, ApChanges, {"AP_START"}, ApUp)
      /\ ~ApUp => GuestsSentAway(Rest)
      /\ ~ApUp /\ clients > 0 => \E j \in DOMAIN Rest : Rest[j] = "AP_STOP"
  BY <1>1, RestFacts
<1>3. /\ Silent(Rest, LinkEvents) => LinkUp
      /\ Silent(Rest, ApChanges) => Silent(events, ApChanges)
  BY <1>1, RestFacts DEF LinkEvents, ApChanges
<1>4. /\ events' \in Seq(Event) /\ mode' \in {"STA", "APSTA"}
      /\ LastTells(events', LinkEvents, {"GOT_IP"}, LinkUp)
      /\ Silent(events', LinkEvents) => Silent(Rest, LinkEvents)
      /\ LastTells(events', ApChanges, {"AP_START"}, ApUp')
      /\ Silent(events', ApChanges) => Silent(Rest, ApChanges) /\ (ApUp' <=> ApUp)
      /\ ~ApUp' => GuestsSentAway(events')
      /\ ~ApUp' /\ ApUp => \E i \in DOMAIN events' : events'[i] = "AP_STOP"
      /\ \A i \in DOMAIN Rest : i \in DOMAIN events' /\ events'[i] = Rest[i]
  <2>1. CASE SetMode("STA", Rest)
    BY <1>1, <1>2, <2>1, SetModeStep DEF SetMode
  <2>2. CASE events' = Rest /\ mode' = mode
    <3>1. ApUp' = ApUp
      BY <1>1, <2>2 DEF ApUp
    <3>. QED
      BY <1>2, <2>2, <3>1 DEF TypeOK
  <2>. QED
    BY <1>1, <2>1, <2>2
<1>5. /\ fails' \in [Networks -> 0..Threshold - 1]
      /\ ban' \in [Networks -> {"none", "banned", "over"}]
  BY <1>1, BansTyped DEF TypeOK
<1>6. connected' \in BOOLEAN /\ linkBit' \in BOOLEAN
  BY <1>1
<1>7. TypeOK'
  BY <1>1, <1>4, <1>5, <1>6 DEF TypeOK
<1>8. CallInv'
  BY <1>1 DEF CallInv
<1>9. LinkInv'
  <2>1. LinkUp' = LinkUp
    BY <1>1 DEF LinkUp
  <2>. QED
    BY <1>1, <1>3, <1>4, <2>1 DEF LinkInv
<1>10. ApInv' /\ GuestInv'
  BY <1>1, <1>2, <1>3, <1>4 DEF ApInv, GuestInv
<1>. QED
  BY <1>7, <1>8, <1>9, <1>10

LEMMA ApEventStep == ASSUME IInv, ApEvent PROVE IInv'
<1>. USE DEF IInv
<1>1. /\ events # <<>> /\ events' = Rest
      /\ Head(events) \in {"AP_START", "AP_STOP", "AP_JOIN", "AP_LEAVE"}
      /\ Head(events) = "AP_START" => apStarted' = TRUE
      /\ Head(events) = "AP_STOP" => apStarted' = FALSE
      /\ Head(events) \notin ApChanges => apStarted' = apStarted
      /\ UNCHANGED <<enabled, running, connected, linkBit, tried, cursor, bans, tasks, user, on,
                     mode, station, world>>
  BY DEF ApEvent, Handles, ApChanges
<1>2. /\ clients' \in {0, 1, clients}
      /\ Head(events) \in {"AP_STOP", "AP_LEAVE"} => clients' = 0
      /\ Head(events) = "AP_START" => clients' = clients
  BY DEF ApEvent, Handles
<1>3. apStarted' \in BOOLEAN
  BY <1>1 DEF TypeOK, ApChanges
<1>4. TypeOK'
  BY <1>1, <1>2, <1>3, RestFacts DEF TypeOK
<1>5. Head(events) \notin LinkEvents
  BY <1>1 DEF LinkEvents
<1>6. CallInv'
  BY <1>1 DEF CallInv
<1>7. LinkInv'
  <2>1. LastTells(events', LinkEvents, {"GOT_IP"}, LinkUp) /\ LinkUp' = LinkUp
    BY <1>1, RestFacts DEF LinkUp
  <2>2. Silent(events', LinkEvents) => Silent(events, LinkEvents)
    BY <1>1, <1>5, RestFacts
  <2>. QED
    BY <1>1, <2>1, <2>2 DEF LinkInv
<1>8. ApInv'
  <2>1. LastTells(events', ApChanges, {"AP_START"}, ApUp) /\ ApUp' = ApUp
    BY <1>1, RestFacts DEF ApUp
  <2>2. ASSUME Silent(events', ApChanges) PROVE apStarted' <=> ApUp
    <3>1. CASE Head(events) \in ApChanges
      <4>1. Head(events) = "AP_START" <=> ApUp
        BY <1>1, <2>2, <3>1, RestFacts
      <4>. QED
        BY <1>1, <3>1, <4>1 DEF ApChanges
    <3>2. CASE Head(events) \notin ApChanges
      <4>1. Silent(events, ApChanges)
        BY <1>1, <2>2, <3>2, RestFacts
      <4>. QED
        BY <1>1, <3>2, <4>1 DEF ApInv
    <3>. QED
      BY <3>1, <3>2
  <2>. QED
    BY <2>1, <2>2 DEF ApInv
<1>9. GuestInv'
  <2>1. ApUp' = ApUp
    BY <1>1 DEF ApUp
  <2>2. ASSUME ~ApUp, clients' > 0 PROVE \E j \in DOMAIN events' : events'[j] = "AP_STOP"
    <3>1. Head(events) = "AP_JOIN" \/ (clients > 0 /\ Head(events) # "AP_STOP")
      BY <1>1, <1>2, <2>2
    <3>. QED
      BY <1>1, <2>2, <3>1, RestFacts
  <2>3. ~ApUp => GuestsSentAway(events')
    BY <1>1, RestFacts
  <2>. QED
    BY <2>1, <2>2, <2>3 DEF GuestInv
<1>. QED
  BY <1>4, <1>6, <1>7, <1>8, <1>9

-----------------------------------------------------------------------------
(* The callers of the API.                                                 *)
LEMMA StopsDriverStep == ASSUME IInv, StopsDriver PROVE IInv'
<1>. USE DEF IInv
<1>. DEFINE first == IF link = "idle" THEN events ELSE Append(events, "DISCONNECTED")
<1>1. /\ call = "stop" /\ call' = "mark" /\ on' = FALSE /\ link' = "idle" /\ net' = NoNetwork
      /\ at' = [at EXCEPT !["reconnect"] = "gone"]
      /\ UNCHANGED <<status, tried, cursor, bans, work, ble, config, mode, cfg, world>>
  BY DEF StopsDriver
<1>2. /\ {"DISCONNECTED", "AP_STOP"} \subseteq Event /\ events \in Seq(Event)
      /\ "DISCONNECTED" \in LinkEvents /\ "DISCONNECTED" \notin ApChanges
      /\ "AP_STOP" \notin LinkEvents /\ "AP_STOP" \in ApChanges
  BY DEF Event, LinkEvents, ApChanges, TypeOK
<1>3. first \in Seq(Event)
  BY <1>2, AppendFacts
<1>4. events' = IF mode = "STA" THEN first ELSE Append(first, "AP_STOP")
  <2>1. first = events \o (IF link = "idle" THEN <<>> ELSE <<"DISCONNECTED">>)
    BY <1>2, AppendIsConcat, ConcatEmptySeq
  <2>2. events' = first \o (IF mode = "STA" THEN <<>> ELSE <<"AP_STOP">>)
    BY <2>1 DEF StopsDriver
  <2>. QED
    BY <1>2, <1>3, <2>2, AppendIsConcat, ConcatEmptySeq
<1>5. /\ LastTells(first, LinkEvents, {"GOT_IP"}, FALSE)
      /\ Silent(first, LinkEvents) => Silent(events, LinkEvents) /\ ~LinkUp
      /\ ~ApUp => LastTells(first, ApChanges, {"AP_START"}, FALSE) /\ GuestsSentAway(first)
      /\ Silent(first, ApChanges) => Silent(events, ApChanges)
      /\ \A i \in DOMAIN events : i \in DOMAIN first /\ first[i] = events[i]
  <2>1. CASE link = "idle"
    <3>1. first = events /\ LinkUp = FALSE
      BY <2>1 DEF LinkUp
    <3>2. ~ApUp => LastTells(events, ApChanges, {"AP_START"}, FALSE)
      BY DEF ApInv, LastTells
    <3>. QED
      BY <3>1, <3>2 DEF LinkInv, GuestInv
  <2>2. CASE link # "idle"
    <3>1. first = Append(events, "DISCONNECTED")
      BY <2>2
    <3>2. LastTells(first, LinkEvents, {"GOT_IP"}, FALSE)
      BY <1>2, <3>1, AppendSame
    <3>3. ~ApUp => LastTells(events, ApChanges, {"AP_START"}, FALSE)
      BY DEF ApInv, LastTells
    <3>4. ~ApUp => LastTells(first, ApChanges, {"AP_START"}, FALSE)
      BY <1>2, <3>1, <3>3, AppendOther
    <3>5. ~ApUp => GuestsSentAway(first)
      BY <1>2, <3>1, AppendGuests DEF GuestInv
    <3>6. ~Silent(first, LinkEvents) /\ (Silent(first, ApChanges) => Silent(events, ApChanges))
      BY <1>2, <3>1, AppendSilent
    <3>7. \A i \in DOMAIN events : i \in DOMAIN first /\ first[i] = events[i]
      BY <1>2, <3>1, AppendFacts
    <3>. QED
      BY <3>2, <3>4, <3>5, <3>6, <3>7
  <2>. QED
    BY <2>1, <2>2
<1>. HIDE DEF first
<1>6. events' \in Seq(Event)
  BY <1>2, <1>3, <1>4, AppendFacts
<1>7. at' \in [Tasks -> {"gone", "idle", "delay", "want", "scan", "raise"}]
  BY <1>1 DEF TypeOK
<1>8. on' \in BOOLEAN
  BY <1>1
<1>9. TypeOK'
  BY <1>1, <1>6, <1>7, <1>8 DEF TypeOK
<1>10. CallInv'
  BY <1>1 DEF CallInv
<1>11. LinkInv'
  <2>1. LastTells(events', LinkEvents, {"GOT_IP"}, FALSE)
    BY <1>2, <1>3, <1>4, <1>5, AppendOther
  <2>2. Silent(events', LinkEvents) => Silent(first, LinkEvents)
    BY <1>2, <1>3, <1>4, AppendSilent
  <2>3. LinkUp' = FALSE
    BY <1>1 DEF LinkUp
  <2>4. LastTells(events', LinkEvents, {"GOT_IP"}, LinkUp')
    BY <2>1, <2>3 DEF LastTells
  <2>. QED
    BY <1>1, <1>5, <2>2, <2>3, <2>4 DEF LinkInv
<1>12. ApUp' = FALSE
  BY <1>1 DEF ApUp
<1>13. CASE mode = "STA"
  <2>1. ~ApUp /\ events' = first
    BY <1>4, <1>13 DEF ApUp
  <2>2. ApInv'
    BY <1>1, <1>5, <1>12, <2>1 DEF ApInv
  <2>3. GuestInv'
    BY <1>1, <1>5, <1>12, <2>1 DEF GuestInv
  <2>. QED
    BY <1>9, <1>10, <1>11, <2>2, <2>3
<1>14. CASE mode # "STA"
  <2>1. events' = Append(first, "AP_STOP")
    BY <1>4, <1>14
  <2>2. LastTells(events', ApChanges, {"AP_START"}, FALSE) /\ ~Silent(events', ApChanges)
    BY <1>2, <1>3, <2>1, AppendSame, AppendSilent
  <2>3. ApInv'
    BY <1>12, <2>2 DEF ApInv
  <2>4. GuestInv'
    BY <1>3, <1>12, <2>1, AppendStop DEF GuestInv
  <2>. QED
    BY <1>9, <1>10, <1>11, <2>3, <2>4
<1>. QED
  BY <1>13, <1>14

LEMMA MarksDisabledStep == ASSUME IInv, MarksDisabled PROVE IInv'
<1>. USE DEF IInv
<1>1. /\ call = "mark" /\ call' \in {"start", "none"}
      /\ enabled' = FALSE /\ connected' = FALSE /\ apStarted' = FALSE /\ clients' = 0
      /\ UNCHANGED <<running, linkBit, tried, cursor, bans, tasks, ble, config, driver, world>>
  BY DEF MarksDisabled
<1>2. enabled' \in BOOLEAN /\ connected' \in BOOLEAN /\ apStarted' \in BOOLEAN
  BY <1>1
<1>3. TypeOK'
  BY <1>1, <1>2 DEF TypeOK
<1>4. LinkUp' = LinkUp /\ ApUp' = ApUp /\ ~LinkUp /\ ~ApUp /\ ~on
  BY <1>1 DEF LinkUp, ApUp, CallInv
<1>5. CallInv'
  BY <1>1, <1>4 DEF CallInv
<1>6. LinkInv'
  BY <1>1, <1>4 DEF LinkInv
<1>7. ApInv'
  BY <1>1, <1>4 DEF ApInv
<1>8. GuestInv'
  BY <1>1, <1>4 DEF GuestInv
<1>. QED
  BY <1>3, <1>5, <1>6, <1>7, <1>8

LEMMA StartsDriverStep == ASSUME IInv, StartsDriver PROVE IInv'
<1>. USE DEF IInv
<1>. DEFINE first == Append(events, "STA_START")
<1>1. /\ call = "start" /\ call' = "up" /\ on' = TRUE /\ mode' = config.mode /\ cfg' = Primary
      /\ UNCHANGED <<status, tried, cursor, bans, tasks, ble, config, link, net, world>>
  BY DEF StartsDriver
<1>2. /\ {"STA_START", "AP_START"} \subseteq Event /\ events \in Seq(Event)
      /\ "STA_START" \notin LinkEvents /\ "STA_START" \notin ApChanges
      /\ "AP_START" \notin LinkEvents /\ "AP_START" \in ApChanges
  BY DEF Event, LinkEvents, ApChanges, TypeOK
<1>3. first \in Seq(Event)
  BY <1>2, AppendFacts
<1>4. events' = IF config.mode = "APSTA" THEN Append(first, "AP_START") ELSE first
  <2>1. first = events \o <<"STA_START">>
    BY <1>2, AppendIsConcat
  <2>2. events' = first \o (IF config.mode = "APSTA" THEN <<"AP_START">> ELSE <<>>)
    BY <2>1 DEF StartsDriver
  <2>. QED
    BY <1>2, <1>3, <2>2, AppendIsConcat, ConcatEmptySeq
<1>5. ~on /\ ~LinkUp /\ ~ApUp /\ LinkUp' = LinkUp
  BY <1>1 DEF CallInv, LinkUp, ApUp
<1>6. /\ LastTells(first, LinkEvents, {"GOT_IP"}, FALSE)
      /\ LastTells(first, ApChanges, {"AP_START"}, FALSE)
  <2>1. /\ LastTells(events, LinkEvents, {"GOT_IP"}, FALSE)
        /\ LastTells(events, ApChanges, {"AP_START"}, FALSE)
    BY <1>5 DEF LinkInv, ApInv, LastTells
  <2>. QED
    BY <1>2, <2>1, AppendOther
<1>7. /\ Silent(first, LinkEvents) => Silent(events, LinkEvents)
      /\ Silent(first, ApChanges) => Silent(events, ApChanges)
  BY <1>2, AppendSilent
<1>8. GuestsSentAway(first) /\ \A i \in DOMAIN events : i \in DOMAIN first /\ first[i] = events[i]
  <2>1. GuestsSentAway(events)
    BY <1>5 DEF GuestInv
  <2>2. GuestsSentAway(first)
    BY <1>2, <2>1, AppendGuests
  <2>. QED
    BY <1>2, <2>2, AppendFacts
<1>. HIDE DEF first
<1>9. events' \in Seq(Event)
  BY <1>2, <1>3, <1>4, AppendFacts
<1>10. /\ on' \in BOOLEAN /\ mode' \in {"STA", "APSTA"} /\ cfg' \in Networks
       /\ call' \in {"none", "stop", "mark", "start", "up"}
  BY <1>1, WifiAssumption DEF TypeOK, WifiAssumption
<1>11. TypeOK'
  BY <1>1, <1>9, <1>10 DEF TypeOK
<1>12. CallInv'
  BY <1>1 DEF CallInv
<1>13. LinkInv'
  <2>1. LastTells(events', LinkEvents, {"GOT_IP"}, FALSE)
    BY <1>2, <1>3, <1>4, <1>6, AppendOther
  <2>2. Silent(events', LinkEvents) => Silent(events, LinkEvents)
    BY <1>2, <1>3, <1>4, <1>7, AppendSilent
  <2>3. LastTells(events', LinkEvents, {"GOT_IP"}, LinkUp')
    BY <1>5, <2>1 DEF LastTells
  <2>. QED
    BY <1>1, <1>5, <2>2, <2>3 DEF LinkInv
<1>14. CASE config.mode = "APSTA"
  <2>1. events' = Append(first, "AP_START") /\ ApUp' = TRUE
    BY <1>1, <1>4, <1>14 DEF ApUp
  <2>2. LastTells(events', ApChanges, {"AP_START"}, TRUE) /\ ~Silent(events', ApChanges)
    BY <1>2, <1>3, <2>1, AppendSame, AppendSilent
  <2>3. ApInv' /\ GuestInv'
    BY <2>1, <2>2 DEF ApInv, GuestInv
  <2>. QED
    BY <1>11, <1>12, <1>13, <2>3
<1>15. CASE config.mode # "APSTA"
  <2>1. events' = first /\ ApUp' = FALSE
    BY <1>1, <1>4, <1>15 DEF ApUp
  <2>2. ApInv'
    BY <1>1, <1>5, <1>6, <1>7, <2>1 DEF ApInv
  <2>3. GuestInv'
    BY <1>1, <1>5, <1>8, <2>1 DEF GuestInv
  <2>. QED
    BY <1>11, <1>12, <1>13, <2>2, <2>3
<1>. QED
  BY <1>14, <1>15

LEMMA MarksEnabledStep == ASSUME IInv, MarksEnabled PROVE IInv'
<1>. USE DEF IInv
<1>1. /\ call = "up" /\ call' = "none" /\ enabled' = TRUE /\ running' = TRUE
      /\ at' = [at EXCEPT !["reconnect"] = IF @ = "gone" THEN "idle" ELSE @]
      /\ UNCHANGED <<connected, linkBit, apStarted, clients, tried, cursor, bans, work, ble,
                     config, driver, world>>
  BY DEF MarksEnabled
<1>2. at' \in [Tasks -> {"gone", "idle", "delay", "want", "scan", "raise"}]
  BY <1>1 DEF TypeOK
<1>3. enabled' \in BOOLEAN /\ running' \in BOOLEAN
  BY <1>1
<1>4. TypeOK'
  BY <1>1, <1>2, <1>3 DEF TypeOK
<1>5. CallInv'
  BY <1>1 DEF CallInv
<1>6. LinkInv' /\ ApInv' /\ GuestInv'
  BY <1>1 DEF LinkInv, ApInv, GuestInv, LinkUp, ApUp
<1>. QED
  BY <1>4, <1>5, <1>6

(* A call begins: of wifi_mgr_disable it clears the bits, or nothing.      *)
LEMMA CallBegins ==
    ASSUME IInv, PhoneConnects \/ PhoneLeaves \/ ButtonHeld
    PROVE  IInv'
<1>. USE DEF IInv
<1>1. /\ call = "none"
      /\ UNCHANGED <<enabled, connected, apStarted, clients, tried, cursor, bans, tasks, driver,
                     world>>
      /\ ble' \in {"idle", "phone", "off"}
      /\ config' \in {config, [config EXCEPT !.auto = FALSE, !.mode = "APSTA"]}
  BY DEF PhoneConnects, PhoneLeaves, ButtonHeld
<1>2. \/ enabled /\ running' = FALSE /\ linkBit' = FALSE /\ call' = "stop"
      \/ UNCHANGED <<running, linkBit>> /\ call' = "none"
      \/ UNCHANGED <<running, linkBit>> /\ call' = "start" /\ ~enabled
  BY <1>1 DEF PhoneConnects, PhoneLeaves, ButtonHeld, Disables
<1>3. config' \in [mode : {"STA", "APSTA"}, auto : BOOLEAN, fallbacks : Seq(Networks),
                   home : Networks \cup {NoNetwork}, ble : BOOLEAN]
  BY <1>1 DEF TypeOK
<1>4. running' \in BOOLEAN /\ linkBit' \in BOOLEAN
  BY <1>2 DEF TypeOK
<1>5. call' \in {"none", "stop", "mark", "start", "up"}
  BY <1>2
<1>6. TypeOK'
  BY <1>1, <1>3, <1>4, <1>5 DEF TypeOK
<1>7. CallInv'
  BY <1>1, <1>2 DEF CallInv
<1>8. LinkInv'
  BY <1>1, <1>2 DEF LinkInv, LinkUp
<1>9. ApInv' /\ GuestInv'
  BY <1>1 DEF ApInv, GuestInv, ApUp
<1>. QED
  BY <1>6, <1>7, <1>8, <1>9

-----------------------------------------------------------------------------
LEMMA NextInv == IInv /\ [Next]_vars => IInv'
<1>. SUFFICES ASSUME IInv, [Next]_vars PROVE IInv'
  OBVIOUS
<1>1. {"handler", "deferred", "reconnect"} = Tasks
  BY DEF Tasks
<1>2. CASE Handler
  BY <1>1, <1>2, StaStartStep, StaDisconnectedStep, GotIpStep, ApEventStep, ScanStep DEF Handler
<1>3. CASE Deferred
  BY <1>1, <1>3, QuietStep, RaisesApStep, ScanStep DEF Deferred
<1>4. CASE Reconnect
  BY <1>1, <1>4, QuietStep, RadioStep, ScanStep DEF Reconnect
<1>5. CASE Call
  BY <1>5, StopsDriverStep, MarksDisabledStep, StartsDriverStep, MarksEnabledStep DEF Call
<1>6. CASE PhoneConnects \/ PhoneLeaves \/ ButtonHeld
  BY <1>6, CallBegins
<1>7. CASE Joins \/ JoinFails \/ BanOver \/ Environment
  BY <1>7, RadioStep, QuietStep, GuestStep DEF Environment
<1>8. CASE UNCHANGED vars
  <2>1. TypeOK'
    BY <1>8 DEF vars, IInv, TypeOK
  <2>. QED
    BY <1>8, <2>1, QuietInv DEF vars, IInv, CallInv, LinkUp
<1>. QED
  BY <1>2, <1>3, <1>4, <1>5, <1>6, <1>7, <1>8 DEF Next

LEMMA Invariance == Spec => []IInv
<1>. QED
  BY InitInv, NextInv, PTL DEF Spec

(* Every variable stays in its range: what the tasks choose is a configured *)
(* network, and the queue of deferred work never overflows.                 *)
THEOREM TypeCorrect == Spec => []TypeOK
<1>1. IInv => TypeOK
  BY DEF IInv
<1>. QED
  BY <1>1, Invariance, PTL

(* When no call is under way and every event is handled, the status is that *)
(* of the driver, whatever the event loop handled while the driver was      *)
(* stopped or started (wifi_mgr_disable, wifi_mgr_enable, the handler).     *)
THEOREM StatusCorrect == Spec => []StatusFollowsDriver
<1>1. ASSUME IInv, Settled PROVE StatusFollowsDriver
  <2>1. DOMAIN events = {} /\ call = "none"
    BY <1>1 DEF Settled
  <2>2. Silent(events, LinkEvents) /\ Silent(events, ApChanges)
    BY <2>1 DEF Silent
  <2>3. (enabled <=> on) /\ (running <=> on)
    BY <1>1, <2>1 DEF IInv, CallInv
  <2>4. (connected <=> LinkUp) /\ (linkBit <=> LinkUp)
    BY <1>1, <2>1, <2>2 DEF IInv, LinkInv
  <2>5. (apStarted <=> ApUp) /\ (~ApUp => ~(clients > 0))
    BY <1>1, <2>1, <2>2 DEF IInv, ApInv, GuestInv
  <2>6. ~apStarted => clients = 0
    BY <1>1, <2>5 DEF IInv, TypeOK
  <2>7. /\ enabled = on /\ running = on /\ connected = (link = "up") /\ linkBit = (link = "up")
        /\ apStarted = (on /\ mode = "APSTA")
    BY <1>1, <2>3, <2>4, <2>5 DEF IInv, TypeOK, LinkUp, ApUp
  <2>. QED
    BY <2>6, <2>7 DEF StatusFollowsDriver
<1>2. IInv => StatusFollowsDriver
  BY <1>1 DEF StatusFollowsDriver
<1>. QED
  BY <1>2, Invariance, PTL
=============================================================================
