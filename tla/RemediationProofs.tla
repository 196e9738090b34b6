------------------------- MODULE RemediationProofs -------------------------
(***************************************************************************)
(* Proofs about Remediation, for any requests, restarts and faults: the    *)
(* chain of the audit trail, what the log says of a change, and the bound  *)
(* of the rate limiter.                                                    *)
(***************************************************************************)
EXTENDS Remediation, FiniteSetTheorems, SequenceTheorems, TLAPS

-----------------------------------------------------------------------------
(* Sets and divisions.                                                     *)

AtMostOne(S) == \A x, y \in S : x = y

LEMMA AtMostOneIs ==
  ASSUME NEW S, IsFiniteSet(S)
  PROVE  Cardinality(S) <= 1 <=> AtMostOne(S)
<1>0. Cardinality(S) \in Nat BY FS_CardinalityType
<1>1. CASE S = {}
  <2>1. Cardinality(S) = 0 BY <1>1, FS_EmptySet
  <2> QED BY <1>1, <2>1 DEF AtMostOne
<1>2. CASE S # {}
  <2>1. PICK x : x \in S BY <1>2
  <2> DEFINE R == S \ {x}
  <2>2. /\ IsFiniteSet(R) /\ Cardinality(R) = Cardinality(S) - 1
    BY <2>1, FS_RemoveElement
  <2>3. /\ Cardinality(R) \in Nat /\ (Cardinality(R) = 0 <=> R = {})
    BY <2>2, FS_CardinalityType, FS_EmptySet
  <2>4. Cardinality(S) <= 1 <=> R = {} BY <1>0, <2>2, <2>3
  <2>5. R = {} <=> S = {x} BY <2>1
  <2>6. AtMostOne(S) <=> S = {x} BY <2>1 DEF AtMostOne
  <2> QED BY <2>4, <2>5, <2>6
<1> QED BY <1>1, <1>2

\* Two times less than a window apart are in one bucket or in two neighbours.
LEMMA NeighbouringBuckets ==
  ASSUME NEW t \in Nat, NEW u \in Nat, u <= t, u > t - Window
  PROVE  /\ t \div Window \in Nat /\ u \div Window \in Nat
         /\ u \div Window \in {t \div Window, t \div Window - 1}
<1>0. Window \in Nat \ {0} BY LimitsAssumption
<1> DEFINE p == t \div Window
           q == u \div Window
<1>1. p \in Int /\ Window * p <= t /\ t < Window * p + Window BY <1>0
<1>2. q \in Int /\ Window * q <= u /\ u < Window * q + Window BY <1>0
<1>3. p >= 0 /\ q >= 0 BY <1>0, <1>1, <1>2
<1>4. q <= p BY <1>0, <1>1, <1>2
<1>5. q >= p - 1 BY <1>0, <1>1, <1>2
<1> QED BY <1>1, <1>2, <1>3, <1>4, <1>5

-----------------------------------------------------------------------------
(* The audit trail.                                                        *)

Events == [request : 0 .. MaxRequests,
           status : {"dry_run", "succeeded", "rolled_back", "escalated", "other"}]
Hashes == Seq(Events)
Entries == [event : Events, prev : Hashes, hash : Hashes]
Trails == [buffer : Seq(Entries), lastHash : Hashes, log : Seq(Entries)]

\* The latest n events of a sequence, element by element.
LEMMA LatestAre ==
  ASSUME NEW S, NEW s \in Seq(S), NEW n \in Nat \ {0}
  PROVE  LET kept == Latest(n, s)
         IN  /\ kept \in Seq(S)
             /\ Len(kept) = IF Len(s) <= n THEN Len(s) ELSE n
             /\ \A k \in 1 .. Len(kept) : kept[k] = s[Len(s) - Len(kept) + k]
<1>1. CASE Len(s) <= n BY <1>1 DEF Latest
<1>2. CASE Len(s) > n
  <2> DEFINE m == Len(s) - n + 1
  <2>1. m \in 1 .. Len(s) + 1 /\ Len(s) \in m - 1 .. Len(s) BY <1>2
  <2>2. Latest(n, s) = SubSeq(s, m, Len(s)) BY <1>2 DEF Latest
  <2> QED BY <2>1, <2>2, <1>2, SubSeqProperties
<1> QED BY <1>1, <1>2

Entry(t, event) == [event |-> event, prev |-> t.lastHash, hash |-> ChainHash(event, t.lastHash)]

LEMMA RecordedAre ==
  ASSUME NEW t \in Trails, NEW event \in Events, NEW appended \in BOOLEAN
  PROVE  LET entry == Entry(t, event)
             after == RecordEvent(t, event, appended)
         IN  /\ entry \in Entries /\ entry.event = event
             /\ entry.prev = t.lastHash /\ entry.hash = Append(t.lastHash, event)
             /\ after \in Trails
             /\ after.buffer = Latest(MaxBuffer, Append(t.buffer, entry))
             /\ after.lastHash = entry.hash
             /\ after.log = IF appended THEN Append(t.log, entry) ELSE t.log
<1> DEFINE entry == Entry(t, event)
           log == IF appended THEN Append(t.log, entry) ELSE t.log
<1>1. entry \in Entries /\ entry.event = event
      /\ entry.prev = t.lastHash /\ entry.hash = Append(t.lastHash, event)
  BY DEF Entry, Entries, Hashes, Trails, ChainHash
<1>2. Append(t.buffer, entry) \in Seq(Entries) /\ log \in Seq(Entries)
  BY <1>1 DEF Trails
<1>3. Latest(MaxBuffer, Append(t.buffer, entry)) \in Seq(Entries)
  BY <1>2, MaxBufferAssumption, LatestAre
<1>4. RecordEvent(t, event, appended)
        = [buffer |-> Latest(MaxBuffer, Append(t.buffer, entry)),
           lastHash |-> entry.hash, log |-> log]
  BY DEF RecordEvent, Entry
<1>5. entry.hash \in Hashes BY <1>1 DEF Entries
<1> QED BY <1>1, <1>2, <1>3, <1>4, <1>5 DEF Trails

\* Every entry carries the hash of itself after what it follows.
Hashed(events) == \A k \in DOMAIN events :
                    events[k].hash = Append(events[k].prev, events[k].event)

\* What the buffer holds: the latest entries of this process, linked, each one
\* as far into the chain as it is.
BufferInv(t) ==
  LET n == Len(t.lastHash)
      m == Len(t.buffer)
  IN  /\ m = IF n <= MaxBuffer THEN n ELSE MaxBuffer
      /\ Hashed(t.buffer)
      /\ \A k \in 1 .. m : Len(t.buffer[k].prev) = n - m + k - 1
      /\ \A k \in 2 .. m : t.buffer[k].prev = t.buffer[k - 1].hash
      /\ m > 0 => t.buffer[m].hash = t.lastHash

LEMMA BufferKept ==
  ASSUME NEW t \in Trails, NEW event \in Events, NEW appended \in BOOLEAN, BufferInv(t)
  PROVE  BufferInv(RecordEvent(t, event, appended))
<1> DEFINE entry == Entry(t, event)
           after == RecordEvent(t, event, appended)
           n == Len(t.lastHash)
           m == Len(t.buffer)
           longer == Append(t.buffer, entry)
           p == Len(after.buffer)
<1>1. /\ entry \in Entries /\ entry.event = event
      /\ entry.prev = t.lastHash /\ entry.hash = Append(t.lastHash, event)
      /\ after \in Trails
      /\ after.buffer = Latest(MaxBuffer, longer) /\ after.lastHash = entry.hash
  BY RecordedAre
<1>2. n \in Nat /\ m \in Nat /\ t.lastHash \in Seq(Events) /\ t.buffer \in Seq(Entries)
  BY DEF Trails, Hashes
<1>3. Len(after.lastHash) = n + 1 BY <1>1, <1>2
<1>4. /\ longer \in Seq(Entries) /\ Len(longer) = m + 1 /\ longer[m + 1] = entry
      /\ \A k \in 1 .. m : longer[k] = t.buffer[k]
  BY <1>1, <1>2
<1> HIDE DEF entry, longer, after
<1>5. /\ p = IF m + 1 <= MaxBuffer THEN m + 1 ELSE MaxBuffer
      /\ \A k \in 1 .. p : after.buffer[k] = longer[m + 1 - p + k]
  <2> DEFINE kept == Latest(MaxBuffer, longer)
  <2>1. /\ Len(kept) = IF Len(longer) <= MaxBuffer THEN Len(longer) ELSE MaxBuffer
        /\ \A k \in 1 .. Len(kept) : kept[k] = longer[Len(longer) - Len(kept) + k]
    BY <1>4, MaxBufferAssumption, LatestAre
  <2>2. after.buffer = kept /\ Len(longer) = m + 1 BY <1>1, <1>4
  <2> HIDE DEF kept
  <2> QED BY <2>1, <2>2
<1>6. m = IF n <= MaxBuffer THEN n ELSE MaxBuffer BY DEF BufferInv
<1> HIDE DEF n, m, p
<1>7. /\ p \in Nat \ {0} /\ p <= m + 1
      /\ p = IF n + 1 <= MaxBuffer THEN n + 1 ELSE MaxBuffer
  BY <1>2, <1>5, <1>6, MaxBufferAssumption
<1>8. \A k \in 1 .. m + 1 :
        /\ longer[k].hash = Append(longer[k].prev, longer[k].event)
        /\ Len(longer[k].prev) = n - m + k - 1
  <2> TAKE k \in 1 .. m + 1
  <2>1. CASE k = m + 1
    <3>1. longer[k] = entry /\ Len(entry.prev) = n BY <2>1, <1>1, <1>4 DEF n
    <3>2. n = n - m + k - 1 BY <2>1, <1>2
    <3> QED BY <3>1, <3>2, <1>1
  <2>2. CASE k \in 1 .. m
    <3>1. longer[k] = t.buffer[k] /\ k \in DOMAIN t.buffer BY <2>2, <1>2, <1>4 DEF m
    <3> QED BY <2>2, <3>1 DEF BufferInv, Hashed, n, m
  <2> QED BY <2>1, <2>2, <1>2
<1>9. \A k \in 2 .. m + 1 : longer[k].prev = longer[k - 1].hash
  <2> TAKE k \in 2 .. m + 1
  <2>1. CASE k = m + 1
    <3>1. m > 0 /\ k - 1 = m /\ m \in 1 .. m BY <2>1, <1>2
    <3>2. t.buffer[m].hash = t.lastHash BY <3>1 DEF BufferInv, n, m
    <3> QED BY <2>1, <3>1, <3>2, <1>1, <1>4
  <2>2. CASE k \in 2 .. m
    <3>1. longer[k] = t.buffer[k] /\ longer[k - 1] = t.buffer[k - 1]
      BY <2>2, <1>2, <1>4
    <3> QED BY <2>2, <3>1 DEF BufferInv, n, m
  <2> QED BY <2>1, <2>2, <1>2
<1> DEFINE shift == m + 1 - p
<1>10. /\ shift \in Nat
       /\ \A k \in 1 .. p : shift + k \in 1 .. m + 1
       /\ \A k \in 2 .. p : shift + k \in 2 .. m + 1
  <2>1. p \in Nat /\ p <= m + 1 /\ m \in Nat BY <1>2, <1>7
  <2> QED BY <2>1
<1> HIDE DEF shift
<1>11. /\ Hashed(after.buffer)
       /\ \A k \in 1 .. p : Len(after.buffer[k].prev) = (n + 1) - p + k - 1
  <2>1. DOMAIN after.buffer = 1 .. p BY <1>1 DEF Trails, p
  <2>2. \A k \in 1 .. p :
          /\ after.buffer[k].hash = Append(after.buffer[k].prev, after.buffer[k].event)
          /\ Len(after.buffer[k].prev) = (n + 1) - p + k - 1
    <3> TAKE k \in 1 .. p
    <3>1. after.buffer[k] = longer[shift + k] BY <1>5 DEF shift
    <3>2. shift + k \in 1 .. m + 1 BY <1>10
    <3>a. n \in Int /\ m \in Int /\ p \in Int BY <1>2, <1>7
    <3>3. n - m + (shift + k) - 1 = (n + 1) - p + k - 1 BY <3>a DEF shift
    <3> QED BY <3>1, <3>2, <3>3, <1>8
  <2> QED BY <2>1, <2>2 DEF Hashed
<1>12. \A k \in 2 .. p : after.buffer[k].prev = after.buffer[k - 1].hash
  <2> TAKE k \in 2 .. p
  <2>1. k \in 1 .. p /\ k - 1 \in 1 .. p BY <1>7
  <2>2. after.buffer[k] = longer[shift + k] /\ after.buffer[k - 1] = longer[shift + k - 1]
    BY <2>1, <1>2, <1>5, <1>7 DEF shift
  <2>3. shift + k \in 2 .. m + 1 BY <1>10
  <2>4. PICK j \in 2 .. m + 1 : j = shift + k BY <2>3
  <2>5. longer[j].prev = longer[j - 1].hash BY <1>9
  <2>6. shift + k - 1 = j - 1 BY <1>10, <2>4
  <2>7. after.buffer[k] = longer[j] /\ after.buffer[k - 1] = longer[j - 1]
    BY <2>2, <2>4, <2>6
  <2> QED BY <2>5, <2>7
<1>13. after.buffer[p].hash = after.lastHash
  <2>1. p \in 1 .. p /\ m + 1 - p + p = m + 1 BY <1>2, <1>7
  <2>2. after.buffer[p] = longer[m + 1] BY <2>1, <1>5
  <2> QED BY <2>2, <1>1, <1>4
<1> QED BY <1>3, <1>7, <1>11, <1>12, <1>13 DEF BufferInv, after, n, p

\* A buffer verifies as long as it holds the first entry of its chain.
LEMMA BufferVerifies ==
  ASSUME NEW t \in Trails, BufferInv(t)
  PROVE  Len(t.lastHash) <= MaxBuffer => VerifyChain(t.buffer)
<1> DEFINE n == Len(t.lastHash)
           m == Len(t.buffer)
<1>1. n \in Nat /\ m \in Nat /\ DOMAIN t.buffer = 1 .. m BY DEF Trails, Hashes
<1>2. m = IF n <= MaxBuffer THEN n ELSE MaxBuffer BY DEF BufferInv
<1>3. CASE n <= MaxBuffer
  <2>1. n = m BY <1>2, <1>3
  <2>2. \A k \in 1 .. m : t.buffer[k].prev = IF k = 1 THEN NoHash ELSE t.buffer[k - 1].hash
    <3> TAKE k \in 1 .. m
    <3>1. CASE k = 1
      <4>0. t.buffer \in Seq(Entries) /\ k \in 1 .. Len(t.buffer) BY DEF Trails
      <4>a. t.buffer[k] \in Entries BY <4>0, ElementOfSeq
      <4>1. t.buffer[k].prev \in Seq(Events) BY <4>a DEF Entries, Hashes
      <4>2. Len(t.buffer[k].prev) = n - m + k - 1 BY <1>1 DEF BufferInv
      <4>3. Len(t.buffer[k].prev) = 0 BY <1>1, <2>1, <3>1, <4>2
      <4>4. t.buffer[k].prev = <<>> BY <4>1, <4>3, EmptySeq
      <4> QED BY <3>1, <4>4 DEF NoHash
    <3>2. CASE k \in 2 .. m
      <4>1. t.buffer[k].prev = t.buffer[k - 1].hash BY <3>2 DEF BufferInv
      <4> QED BY <4>1, <3>2, <1>1
    <3> QED BY <3>1, <3>2, <1>1
  <2>3. \A k \in 1 .. m : t.buffer[k].hash = Append(t.buffer[k].prev, t.buffer[k].event)
    BY <1>1 DEF BufferInv, Hashed
  <2>4. \A k \in DOMAIN t.buffer :
          LET prev == IF k = 1 THEN NoHash ELSE t.buffer[k - 1].hash
          IN  t.buffer[k].prev = prev /\ t.buffer[k].hash = ChainHash(t.buffer[k].event, prev)
    BY <1>1, <2>2, <2>3 DEF ChainHash
  <2> QED BY <1>3, <2>4 DEF VerifyChain
<1> QED BY <1>3

LEMMA AppendedIs ==
  ASSUME NEW S, NEW s \in Seq(S), NEW e \in S
  PROVE  LET n == Len(s)
             longer == Append(s, e)
         IN  /\ DOMAIN longer = 1 .. n + 1 /\ Len(longer) = n + 1
             /\ longer[n + 1] = e /\ \A k \in 1 .. n : longer[k] = s[k]
             /\ DOMAIN s = 1 .. n /\ longer # <<>>
OBVIOUS

\* A log that verifies is the beginning of what its process recorded: its last
\* hash folds in as many events as it has entries.
Begins(t) ==
  VerifyChain(t.log) =>
    /\ Len(t.log) <= Len(t.lastHash)
    /\ \A k \in 1 .. Len(t.log) : t.log[k].event = t.lastHash[k]
    /\ t.log # <<>> => Len(t.log[Len(t.log)].hash) = Len(t.log)

\* What the log holds after some processes wrote to it, of which `current` is
\* the one that runs and `missed` are the requests whose entries it lacks.
LogInv(t, writers, current, missed, configured) ==
  /\ writers = {} <=> t.log = <<>>
  /\ ~configured => writers = {}
  /\ missed = {} =>
       /\ AtMostOne(writers) => VerifyChain(t.log)
       /\ current \in writers => t.log[Len(t.log)].hash = t.lastHash
       /\ configured /\ current \notin writers => t.lastHash = NoHash
  /\ writers \subseteq {current} => Begins(t)

LEMMA BeginningKept ==
  ASSUME NEW t \in Trails, NEW event \in Events, NEW appended \in BOOLEAN, Begins(t)
  PROVE  Begins(RecordEvent(t, event, appended))
<1> DEFINE entry == Entry(t, event)
           after == RecordEvent(t, event, appended)
           n == Len(t.log)
<1>1. /\ entry \in Entries /\ entry.event = event
      /\ entry.prev = t.lastHash /\ entry.hash = Append(t.lastHash, event)
      /\ after.lastHash = entry.hash
      /\ after.log = IF appended THEN Append(t.log, entry) ELSE t.log
  BY RecordedAre
<1>2. /\ t.log \in Seq(Entries) /\ t.lastHash \in Seq(Events) /\ n \in Nat
      /\ DOMAIN t.log = 1 .. n
  BY DEF Trails, Hashes
<1> HIDE DEF entry, after
<1>3. /\ Len(after.lastHash) = Len(t.lastHash) + 1
      /\ after.lastHash[Len(t.lastHash) + 1] = event
      /\ \A k \in 1 .. Len(t.lastHash) : after.lastHash[k] = t.lastHash[k]
  BY <1>1, <1>2
<1>4. CASE ~appended
  <2>1. after.log = t.log BY <1>1, <1>4
  <2> QED BY <2>1, <1>2, <1>3 DEF Begins, after
<1>5. CASE appended
  <2> SUFFICES ASSUME VerifyChain(after.log)
               PROVE  /\ Len(after.log) <= Len(after.lastHash)
                      /\ \A k \in 1 .. Len(after.log) : after.log[k].event = after.lastHash[k]
                      /\ after.log # <<>> => Len(after.log[Len(after.log)].hash) = Len(after.log)
    BY DEF Begins, after
  <2>1. /\ DOMAIN after.log = 1 .. n + 1 /\ Len(after.log) = n + 1
        /\ after.log[n + 1] = entry /\ \A k \in 1 .. n : after.log[k] = t.log[k]
    BY <1>1, <1>2, <1>5, AppendedIs
  <2>2. VerifyChain(t.log)
    <3> SUFFICES ASSUME NEW k \in 1 .. n
                 PROVE  LET prev == IF k = 1 THEN NoHash ELSE t.log[k - 1].hash
                        IN  /\ t.log[k].prev = prev
                            /\ t.log[k].hash = ChainHash(t.log[k].event, prev)
      BY <1>2 DEF VerifyChain
    <3>a. n \in Nat /\ k \in 1 .. n + 1 /\ (k # 1 => k - 1 \in 1 .. n) BY <1>2
    <3>1. k \in 1 .. n + 1 /\ after.log[k] = t.log[k]
          /\ (k # 1 => after.log[k - 1] = t.log[k - 1])
      BY <3>a, <2>1
    <3> QED BY <3>1, <2>1 DEF VerifyChain
  <2>3. /\ n <= Len(t.lastHash) /\ \A k \in 1 .. n : t.log[k].event = t.lastHash[k]
        /\ t.log # <<>> => Len(t.log[n].hash) = n
    BY <2>2 DEF Begins
  <2>4. entry.prev = IF n + 1 = 1 THEN NoHash ELSE after.log[(n + 1) - 1].hash
    BY <1>2, <2>1 DEF VerifyChain
  <2>5. Len(t.lastHash) = n
    <3>1. CASE n = 0 BY <3>1, <2>4, <1>1 DEF NoHash
    <3>2. CASE n > 0
      <4>1. after.log[(n + 1) - 1] = t.log[n] /\ t.log # <<>> /\ n + 1 # 1
        BY <3>2, <1>2, <2>1
      <4> QED BY <4>1, <2>3, <2>4, <1>1
    <3> QED BY <3>1, <3>2, <1>2
  <2>6. \A k \in 1 .. n + 1 : after.log[k].event = after.lastHash[k]
    <3> TAKE k \in 1 .. n + 1
    <3>1. CASE k = n + 1 BY <3>1, <2>1, <2>5, <1>1, <1>3
    <3>2. CASE k \in 1 .. n BY <3>2, <2>1, <2>3, <2>5, <1>3
    <3> QED BY <3>1, <3>2, <1>2
  <2> QED BY <2>1, <2>5, <2>6, <1>1, <1>2, <1>3
<1> QED BY <1>4, <1>5

LEMMA LogKept ==
  ASSUME NEW t \in Trails, NEW event \in Events, NEW writers, NEW current, NEW missed,
         NEW configured \in BOOLEAN, NEW appended \in BOOLEAN, appended => configured,
         LogInv(t, writers, current, missed, configured),
         NEW wrote, wrote = IF appended THEN writers \cup {current} ELSE writers,
         NEW misses, misses = IF configured /\ ~appended THEN missed \cup {event.request}
                                                         ELSE missed
  PROVE  LogInv(RecordEvent(t, event, appended), wrote, current, misses, configured)
<1> DEFINE entry == Entry(t, event)
           after == RecordEvent(t, event, appended)
           all == writers \cup {current}
           n == Len(t.log)
<1>1. /\ entry \in Entries /\ entry.event = event
      /\ entry.prev = t.lastHash /\ entry.hash = Append(t.lastHash, event)
      /\ after.lastHash = entry.hash
      /\ after.log = IF appended THEN Append(t.log, entry) ELSE t.log
  BY RecordedAre
<1>2. t.log \in Seq(Entries) /\ t.lastHash \in Seq(Events) /\ n \in Nat
  BY DEF Trails, Hashes
<1>3. writers \subseteq {current} => Begins(after)
  BY BeginningKept DEF LogInv
<1> HIDE DEF entry, after
<1>4. CASE ~appended
  <2>1. after.log = t.log BY <1>1, <1>4
  <2>2. CASE configured
    <3>1. missed \cup {event.request} # {} OBVIOUS
    <3> QED BY <2>1, <2>2, <3>1, <1>3, <1>4 DEF LogInv, after
  <2>3. CASE ~configured
    <3>1. writers = {} /\ t.log = <<>> BY <2>3 DEF LogInv
    <3>2. VerifyChain(after.log) BY <2>1, <3>1 DEF VerifyChain
    <3> QED BY <2>1, <2>3, <3>1, <3>2, <1>3, <1>4 DEF LogInv, after
  <2> QED BY <2>2, <2>3
<1>5. CASE appended
  <2>1. /\ DOMAIN after.log = 1 .. n + 1 /\ Len(after.log) = n + 1
        /\ after.log[n + 1] = entry /\ \A k \in 1 .. n : after.log[k] = t.log[k]
        /\ DOMAIN t.log = 1 .. n /\ after.log # <<>>
    BY <1>1, <1>2, <1>5, AppendedIs
  <2>2. ASSUME missed = {}, AtMostOne(all) PROVE VerifyChain(after.log)
    <3>1. AtMostOne(writers) /\ (writers = {} \/ current \in writers)
      BY <2>2 DEF AtMostOne
    <3>2. VerifyChain(t.log) BY <2>2, <3>1 DEF LogInv
    <3>3. entry.prev = IF n + 1 = 1 THEN NoHash ELSE t.log[n].hash
      <4>1. CASE writers = {}
        <5>1. t.log = <<>> /\ t.lastHash = NoHash BY <4>1, <2>2, <1>5 DEF LogInv
        <5> QED BY <5>1, <1>1
      <4>2. CASE current \in writers
        <5>1. t.log # <<>> /\ t.log[n].hash = t.lastHash BY <4>2, <2>2 DEF LogInv
        <5>2. n + 1 # 1 BY <5>1, <1>2
        <5> QED BY <5>1, <5>2, <1>1
      <4> QED BY <4>1, <4>2, <3>1
    <3>4. \A k \in 1 .. n + 1 :
            LET prev == IF k = 1 THEN NoHash ELSE after.log[k - 1].hash
            IN  /\ after.log[k].prev = prev
                /\ after.log[k].hash = ChainHash(after.log[k].event, prev)
      <4> TAKE k \in 1 .. n + 1
      <4>1. CASE k = n + 1
        <5>1. n + 1 # 1 => after.log[(n + 1) - 1] = t.log[n] BY <1>2, <2>1
        <5> QED BY <4>1, <5>1, <3>3, <1>1, <2>1 DEF ChainHash
      <4>2. CASE k \in 1 .. n
        <5>1. after.log[k] = t.log[k] /\ (k # 1 => after.log[k - 1] = t.log[k - 1])
          BY <4>2, <1>2, <2>1
        <5> QED BY <5>1, <4>2, <3>2, <2>1 DEF VerifyChain
      <4> QED BY <4>1, <4>2, <1>2
    <3> QED BY <3>4, <2>1 DEF VerifyChain
  <2>3. after.log[Len(after.log)].hash = after.lastHash BY <1>1, <2>1
  <2>4. all # {} /\ current \in all /\ (all \subseteq {current} => writers \subseteq {current})
    OBVIOUS
  <2> HIDE DEF all
  <2>5. LogInv(after, all, current, missed, configured)
    BY <2>1, <2>2, <2>3, <2>4, <1>3, <1>5 DEF LogInv
  <2> QED BY <2>5, <1>5 DEF after, all
<1> QED BY <1>4, <1>5

\* A process that starts has written nothing yet.
LEMMA ReopenedAre ==
  ASSUME NEW t \in Trails, NEW writers, NEW current, NEW next, NEW missed, NEW configured,
         LogInv(t, writers, current, missed, configured), next \notin writers
  PROVE  /\ Reopened(t) \in Trails /\ Reopened(t).log = t.log
         /\ BufferInv(Reopened(t))
         /\ LogInv(Reopened(t), writers, next, missed, configured)
<1> DEFINE after == Reopened(t)
<1>1. after = [buffer |-> <<>>, lastHash |-> <<>>, log |-> t.log]
  BY DEF Reopened, EmptyTrail, NoHash
<1>2. after \in Trails BY <1>1 DEF Trails, Hashes
<1>3. /\ after.buffer = <<>> /\ after.lastHash = NoHash /\ after.log = t.log
  BY <1>1 DEF NoHash
<1>4. BufferInv(after)
  <2>1. Len(after.lastHash) = 0 /\ Len(after.buffer) = 0 BY <1>3 DEF NoHash
  <2> QED BY <1>3, <2>1, MaxBufferAssumption DEF BufferInv, Hashed
<1>5. LogInv(after, writers, next, missed, configured)
  <2>1. writers \subseteq {next} => t.log = <<>>
    <3>1. writers \subseteq {next} => writers = {} OBVIOUS
    <3> QED BY <3>1 DEF LogInv
  <2>2. writers \subseteq {next} => Begins(after)
    BY <1>3, <2>1 DEF Begins, NoHash
  <2> QED BY <1>3, <2>2 DEF LogInv
<1> QED BY <1>2, <1>3, <1>4, <1>5

-----------------------------------------------------------------------------
(* Types, and the trail.                                                   *)

States == {"new", "refused", "watching", "done", "failed", "lost"}

TypeInv ==
  /\ settings \in Settings /\ now \in Nat /\ restarts \in Nat /\ faults \in Nat
  /\ pc \in [Requests -> States]
  /\ plan \in [Requests -> Actions \cup {"none"}]
  /\ restarted \in [Requests -> Nat]
  /\ trail \in Trails /\ processes \subseteq 0 .. restarts

TrailInv == BufferInv(trail) /\ LogInv(trail, processes, restarts, unlogged, settings.log)

\* A step leaves the trail alone or records an event of the process that runs.
Notes(event) ==
  \E appended \in BOOLEAN :
    /\ appended => settings.log
    /\ trail' = RecordEvent(trail, event, appended)
    /\ processes' = IF appended THEN processes \cup {restarts} ELSE processes
    /\ unlogged' = IF settings.log /\ ~appended THEN unlogged \cup {event.request} ELSE unlogged
NotesNothing == UNCHANGED <<trail, processes, unlogged>>

LEMMA EventsAre ==
  ASSUME NEW r \in Requests \cup {0},
         NEW status \in {"dry_run", "succeeded", "rolled_back", "escalated", "other"}
  PROVE  /\ [request |-> r, status |-> status] \in Events
         /\ Recorded(r, status) => Notes([request |-> r, status |-> status])
<1>1. MaxRequests \in Nat BY BoundsAssumption
<1>2. [request |-> r, status |-> status].request = r OBVIOUS
<1> QED BY <1>1, <1>2 DEF Events, Requests, Recorded, Notes

Restarts(action) == IF action = "restart_deployment" THEN 1 ELSE 0

\* A step of a request on its way: it is now at `place`, planned `action`,
\* restarted the deployment `times` times more.
Moves(r, place, action, times) ==
  /\ pc' = [pc EXCEPT ![r] = place]
  /\ plan' = [plan EXCEPT ![r] = action]
  /\ restarted' = [restarted EXCEPT ![r] = @ + times]
  /\ UNCHANGED <<settings, restarts>>

\* How a request is answered at once, or goes on to watch.
Asked(r) ==
  /\ pc[r] = "new"
  /\ \/ Moves(r, "refused", plan[r], 0) /\ NotesNothing
     \/ /\ settings.autonomy
        /\ \E action \in Reversible :
             \/ /\ Moves(r, "done", action, 0)
                /\ Notes([request |-> r, status |-> "dry_run"])
             \/ ~settings.dryrun /\ Moves(r, "watching", action, Restarts(action))
                /\ NotesNothing
             \/ Moves(r, "failed", action, 0) /\ NotesNothing
             \/ ~settings.dryrun /\ Moves(r, "failed", action, 1) /\ NotesNothing

\* What an action does to the deployment.
LEMMA ExecuteDoes ==
  ASSUME TypeInv, NEW r \in Requests, NEW action, NEW ending \in Endings(action),
         Execute(r, action, ending)
  PROVE  /\ ending \in {"returned", "refused", "timed_out"}
         /\ ending = "returned" => restarted' = [restarted EXCEPT ![r] = @ + Restarts(action)]
         /\ ending = "refused" => restarted' = [restarted EXCEPT ![r] = @ + 0]
         /\ ending = "timed_out" => restarted' = [restarted EXCEPT ![r] = @ + 1]
         /\ ending # "returned" => action = "restart_deployment"
<1>1. restarted \in [Requests -> Nat] BY DEF TypeInv
<1>2. ending \in {"returned", "refused", "timed_out"}
      /\ (ending # "returned" => action = "restart_deployment")
  BY DEF Endings
<1> QED BY <1>1, <1>2 DEF Execute, Restarts

LEMMA AskDoes ==
  ASSUME TypeInv, NEW r \in Requests, Ask(r)
  PROVE  Asked(r) /\ now' = now /\ faults' \in Nat
<1>1. /\ pc \in [Requests -> States] /\ plan \in [Requests -> Actions \cup {"none"}]
      /\ restarted \in [Requests -> Nat] /\ faults \in Nat
      /\ pc[r] = "new" /\ UNCHANGED <<settings, now, restarts>>
  BY DEF Ask, TypeInv
<1>2. PICK c \in Clients, action \in Actions, confidence \in {"high", "low"},
           admitted \in BOOLEAN :
        /\ Admits(c, admitted)
        /\ IF admitted /\ IsEligible(action, confidence)
           THEN Remediate(r, action)
           ELSE /\ pc' = [pc EXCEPT ![r] = "refused"]
                /\ UNCHANGED <<plan, until, restarted, record>>
  BY DEF Ask
<1>3. faults' \in Nat BY <1>1, <1>2 DEF Admits
<1> SUFFICES Asked(r) BY <1>1, <1>3
<1>4. restarted[r] \in Nat /\ restarted = [restarted EXCEPT ![r] = @ + 0]
      /\ plan = [plan EXCEPT ![r] = plan[r]]
  BY <1>1
<1>5. CASE ~(admitted /\ IsEligible(action, confidence))
  BY <1>5, <1>1, <1>2, <1>4 DEF Asked, Moves, NotesNothing, record
<1>6. CASE admitted /\ IsEligible(action, confidence)
  <2>1. settings.autonomy /\ action \in Reversible BY <1>6 DEF IsEligible
  <2>2. Remediate(r, action) BY <1>2, <1>6
  <2>3. plan' = [plan EXCEPT ![r] = action] BY <2>2 DEF Remediate
  <2>4. CASE Unread(r)
    <3>1. Moves(r, "failed", action, 0) /\ NotesNothing
      BY <2>3, <2>4, <1>1, <1>4 DEF Unread, Moves, NotesNothing, record
    <3> QED BY <3>1, <2>1, <1>1 DEF Asked
  <2>5. CASE settings.dryrun /\ ~Unread(r)
    <3>1. Recorded(r, "dry_run") /\ pc' = [pc EXCEPT ![r] = "done"]
          /\ UNCHANGED <<until, restarted>>
      BY <2>2, <2>5 DEF Remediate
    <3>2. Moves(r, "done", action, 0) BY <3>1, <2>3, <1>1, <1>4 DEF Moves
    <3>3. Notes([request |-> r, status |-> "dry_run"]) BY <3>1, EventsAre
    <3> QED BY <3>2, <3>3, <2>1, <1>1 DEF Asked
  <2>6. CASE ~settings.dryrun /\ ~Unread(r)
    <3>1. PICK ending \in Endings(action) :
            /\ Execute(r, action, ending)
            /\ pc' = [pc EXCEPT ![r] = IF ending = "returned" THEN "watching" ELSE "failed"]
            /\ UNCHANGED record
      BY <2>2, <2>6 DEF Remediate
    <3>2. NotesNothing BY <3>1 DEF NotesNothing, record
    <3>3. /\ ending \in {"returned", "refused", "timed_out"}
          /\ ending = "returned" => Moves(r, "watching", action, Restarts(action))
          /\ ending = "refused" => Moves(r, "failed", action, 0)
          /\ ending = "timed_out" => Moves(r, "failed", action, 1)
      BY <3>1, <2>3, <1>1, ExecuteDoes DEF Moves
    <3> QED BY <3>2, <3>3, <2>1, <2>6, <1>1 DEF Asked
  <2> QED BY <2>4, <2>5, <2>6
<1> QED BY <1>5, <1>6

\* How a watch ends: the signal cannot be read, the compensation raises, or what
\* became of it is noted.
Judged(r) ==
  /\ pc[r] = "watching"
  /\ \/ Moves(r, "failed", plan[r], 0) /\ NotesNothing
     \/ Moves(r, "failed", plan[r], 1) /\ NotesNothing
        /\ plan[r] = "rollback_deployment"
     \/ \E status \in {"succeeded", "escalated"} :
          /\ Moves(r, "done", plan[r], 0)
          /\ Notes([request |-> r, status |-> status])
     \/ /\ Moves(r, "done", plan[r], 1) /\ plan[r] = "rollback_deployment"
        /\ Notes([request |-> r, status |-> "rolled_back"])

LEMMA JudgeDoes ==
  ASSUME TypeInv, NEW r \in Requests, Judge(r)
  PROVE  Judged(r) /\ UNCHANGED <<limiter, now, faults>>
<1>1. /\ pc \in [Requests -> States] /\ plan \in [Requests -> Actions \cup {"none"}]
      /\ restarted \in [Requests -> Nat] /\ plan = [plan EXCEPT ![r] = plan[r]]
      /\ pc[r] = "watching" /\ UNCHANGED <<plan, limiter, settings, now, restarts, faults>>
      /\ restarted = [restarted EXCEPT ![r] = @ + 0]
  BY DEF Judge, TypeInv
<1>2. CASE Unread(r)
  BY <1>1, <1>2 DEF Unread, Judged, Moves, NotesNothing, record
<1>3. ASSUME NEW after \in Readings, Settle(r, EvaluateRecovery(after)) PROVE Judged(r)
  <2> DEFINE outcome == EvaluateRecovery(after)
             revert == IF outcome = "recovered" THEN "none" ELSE RevertAction(plan[r])
  <2>1. PICK ending \in Endings(revert) :
          /\ Execute(r, revert, ending)
          /\ \/ ending = "returned" /\ Conclude(r, outcome, revert)
             \/ ending # "returned" /\ pc' = [pc EXCEPT ![r] = "failed"]
                                    /\ UNCHANGED record
    BY <1>3 DEF Settle
  <2>2. /\ revert = "none" \/ (revert = "restart_deployment" /\ outcome # "recovered"
                               /\ plan[r] = "rollback_deployment")
    BY DEF RevertAction
  <2> HIDE DEF outcome, revert
  <2>3. /\ ending \in {"returned", "refused", "timed_out"}
        /\ ending = "returned" => restarted' = [restarted EXCEPT ![r] = @ + Restarts(revert)]
        /\ ending = "refused" => restarted' = [restarted EXCEPT ![r] = @ + 0]
        /\ ending = "timed_out" => restarted' = [restarted EXCEPT ![r] = @ + 1]
        /\ ending # "returned" => revert = "restart_deployment"
    BY <2>1, ExecuteDoes
  <2>4. CASE ending # "returned"
    <3>1. pc' = [pc EXCEPT ![r] = "failed"] /\ NotesNothing
      BY <2>1, <2>4 DEF NotesNothing, record
    <3>2. plan[r] = "rollback_deployment" BY <2>2, <2>3, <2>4
    <3> QED BY <3>1, <3>2, <2>3, <2>4, <1>1 DEF Judged, Moves
  <2>5. CASE ending = "returned" /\ revert = "none"
    <3>1. Restarts(revert) = 0 BY <2>5 DEF Restarts
    <3>2. Moves(r, "done", plan[r], 0) BY <3>1, <2>1, <2>3, <2>5, <1>1 DEF Moves, Conclude
    <3>3. PICK status \in {"succeeded", "escalated"} : Recorded(r, status)
      BY <2>1, <2>5 DEF Conclude
    <3>4. Notes([request |-> r, status |-> status]) BY <3>3, EventsAre
    <3> QED BY <3>2, <3>4, <1>1 DEF Judged
  <2>6. CASE ending = "returned" /\ revert = "restart_deployment"
    <3>1. Restarts(revert) = 1 BY <2>6 DEF Restarts
    <3>2. Moves(r, "done", plan[r], 1) BY <3>1, <2>1, <2>3, <2>6, <1>1 DEF Moves, Conclude
    <3>3. plan[r] = "rollback_deployment" /\ outcome # "recovered" BY <2>2, <2>6
    <3>4. Recorded(r, "rolled_back") BY <2>1, <2>6, <3>3 DEF Conclude
    <3>5. Notes([request |-> r, status |-> "rolled_back"]) BY <3>4, EventsAre
    <3> QED BY <3>2, <3>3, <3>5, <1>1 DEF Judged
  <2> QED BY <2>2, <2>4, <2>5, <2>6
<1>4. Unread(r) \/ \E after \in Readings : Settle(r, EvaluateRecovery(after)) BY DEF Judge
<1> QED BY <1>1, <1>2, <1>3, <1>4

LEMMA SettingsAre == TypeInv => settings.log \in BOOLEAN
BY BoundsAssumption DEF TypeInv

LEMMA StepNotes ==
  ASSUME TypeInv, [Next]_vars
  PROVE  \/ /\ UNCHANGED <<restarts, settings>>
            /\ NotesNothing \/ \E event \in Events : Notes(event)
         \/ Restart
<1>1. ASSUME NEW r \in Requests, Ask(r)
      PROVE  /\ UNCHANGED <<restarts, settings>>
             /\ NotesNothing \/ \E event \in Events : Notes(event)
  <2>1. Asked(r) BY <1>1, AskDoes
  <2>2. UNCHANGED <<restarts, settings>> BY <2>1 DEF Asked, Moves
  <2>3. [request |-> r, status |-> "dry_run"] \in Events BY EventsAre
  <2> QED BY <2>1, <2>2, <2>3 DEF Asked
<1>2. ASSUME NEW r \in Requests, Judge(r)
      PROVE  /\ UNCHANGED <<restarts, settings>>
             /\ NotesNothing \/ \E event \in Events : Notes(event)
  <2>1. Judged(r) BY <1>2, JudgeDoes
  <2>2. UNCHANGED <<restarts, settings>> BY <2>1 DEF Judged, Moves
  <2>3. \A status \in {"succeeded", "rolled_back", "escalated"} :
          [request |-> r, status |-> status] \in Events
    BY EventsAre
  <2> QED BY <2>1, <2>2, <2>3 DEF Judged
<1>3. CASE OtherEvent
  <2>1. UNCHANGED <<restarts, settings>> /\ Notes([request |-> 0, status |-> "other"])
    BY <1>3, EventsAre DEF OtherEvent
  <2>2. [request |-> 0, status |-> "other"] \in Events BY EventsAre
  <2> QED BY <2>1, <2>2
<1>4. CASE Tick BY <1>4 DEF Tick, NotesNothing, record
<1>5. CASE UNCHANGED vars BY <1>5 DEF vars, NotesNothing, record
<1> QED BY <1>1, <1>2, <1>3, <1>4, <1>5 DEF Next

LEMMA TrailStaysTyped ==
  ASSUME TypeInv, [Next]_vars
  PROVE  restarts' \in Nat /\ trail' \in Trails /\ processes' \subseteq 0 .. restarts'
<1>1. restarts \in Nat /\ trail \in Trails /\ processes \subseteq 0 .. restarts
  BY DEF TypeInv
<1>2. CASE NotesNothing /\ UNCHANGED restarts BY <1>1, <1>2 DEF NotesNothing
<1>3. ASSUME restarts' = restarts, NEW event \in Events, Notes(event)
      PROVE  restarts' \in Nat /\ trail' \in Trails /\ processes' \subseteq 0 .. restarts'
  <2>1. trail' \in Trails BY <1>1, <1>3, RecordedAre DEF Notes
  <2> QED BY <1>1, <1>3, <2>1 DEF Notes
<1>4. CASE Restart
  <2>1. restarts' = restarts + 1 /\ trail' = Reopened(trail) /\ processes' = processes
    BY <1>4 DEF Restart
  <2>2. trail' \in Trails
    <3>1. Reopened(trail) = [buffer |-> <<>>, lastHash |-> <<>>, log |-> trail.log]
      BY DEF Reopened, EmptyTrail, NoHash
    <3>2. trail.log \in Seq(Entries) BY <1>1 DEF Trails
    <3> QED BY <2>1, <3>1, <3>2 DEF Trails, Hashes
  <2> QED BY <1>1, <2>1, <2>2
<1> QED BY <1>2, <1>3, <1>4, StepNotes

LEMMA TypeKept == TypeInv /\ [Next]_vars => TypeInv'
<1> SUFFICES ASSUME TypeInv, [Next]_vars PROVE TypeInv' OBVIOUS
<1>0. /\ restarts' \in Nat /\ trail' \in Trails /\ processes' \subseteq 0 .. restarts'
  BY TrailStaysTyped
<1> DEFINE Rest == /\ settings \in Settings /\ now \in Nat /\ faults \in Nat
                   /\ pc \in [Requests -> States]
                   /\ plan \in [Requests -> Actions \cup {"none"}]
                   /\ restarted \in [Requests -> Nat]
<1> SUFFICES Rest' BY <1>0 DEF TypeInv
<1>1. Rest BY DEF TypeInv
<1>2. ASSUME NEW r \in Requests, NEW place \in States,
             NEW action \in Actions \cup {"none"}, NEW times \in Nat,
             Moves(r, place, action, times), now' = now, faults' \in Nat
      PROVE  Rest'
  BY <1>1, <1>2 DEF Moves
<1>3. ASSUME NEW r \in Requests, Ask(r) PROVE Rest'
  <2>1. Asked(r) /\ now' = now /\ faults' \in Nat BY <1>3, AskDoes
  <2>2. /\ plan[r] \in Actions \cup {"none"}
        /\ \A action \in Reversible : action \in Actions \cup {"none"} /\ Restarts(action) \in Nat
    BY <1>1 DEF Actions, Restarts
  <2>3. {"refused", "done", "watching", "failed"} \subseteq States BY DEF States
  <2>4. CASE Moves(r, "refused", plan[r], 0) BY <2>1, <2>2, <2>3, <2>4, <1>2
  <2>5. ASSUME NEW action \in Reversible,
               \/ Moves(r, "done", action, 0)
               \/ Moves(r, "watching", action, Restarts(action))
               \/ Moves(r, "failed", action, 0)
               \/ Moves(r, "failed", action, 1)
        PROVE  Rest'
    BY <2>1, <2>2, <2>3, <2>5, <1>2
  <2> QED BY <2>1, <2>4, <2>5 DEF Asked
<1>4. ASSUME NEW r \in Requests, Judge(r) PROVE Rest'
  <2>1. Judged(r) /\ now' = now /\ faults' = faults BY <1>4, JudgeDoes
  <2>2. plan[r] \in Actions \cup {"none"} BY <1>1
  <2>3. {"done", "failed"} \subseteq States BY DEF States
  <2> QED BY <2>1, <2>2, <2>3, <1>1, <1>2 DEF Judged
<1>5. CASE OtherEvent BY <1>1, <1>5 DEF OtherEvent, request, limiter
<1>6. CASE Tick BY <1>1, <1>6 DEF Tick, request, limiter
<1>7. CASE Restart BY <1>1, <1>7 DEF Restart, States
<1>8. CASE UNCHANGED vars BY <1>1, <1>8 DEF vars, request, limiter
<1> QED BY <1>3, <1>4, <1>5, <1>6, <1>7, <1>8 DEF Next

LEMMA InitTyped == Init => TypeInv /\ TrailInv
<1> SUFFICES ASSUME Init PROVE TypeInv /\ TrailInv OBVIOUS
<1>1. trail = [buffer |-> <<>>, lastHash |-> <<>>, log |-> <<>>]
  BY DEF Init, EmptyTrail, NoHash
<1>2. trail \in Trails BY <1>1 DEF Trails, Hashes
<1>3. TypeInv BY <1>2 DEF Init, TypeInv, States
<1>4. BufferInv(trail) BY <1>1, MaxBufferAssumption DEF BufferInv, Hashed
<1>5. LogInv(trail, processes, restarts, unlogged, settings.log)
  BY <1>1 DEF Init, LogInv, NoHash, AtMostOne, Begins, VerifyChain
<1> QED BY <1>3, <1>4, <1>5 DEF TrailInv

LEMMA TrailKept ==
  ASSUME TypeInv, TrailInv, [Next]_vars
  PROVE  TrailInv'
<1>1. restarts \in Nat /\ trail \in Trails /\ processes \subseteq 0 .. restarts
  BY DEF TypeInv
<1>2. BufferInv(trail) /\ LogInv(trail, processes, restarts, unlogged, settings.log)
  BY DEF TrailInv
<1>3. CASE NotesNothing /\ UNCHANGED <<restarts, settings>>
  BY <1>2, <1>3 DEF NotesNothing, TrailInv
<1>4. ASSUME UNCHANGED <<restarts, settings>>, NEW event \in Events, Notes(event)
      PROVE  TrailInv'
  <2>1. settings.log \in BOOLEAN BY SettingsAre
  <2>2. PICK appended \in BOOLEAN :
          /\ appended => settings.log
          /\ trail' = RecordEvent(trail, event, appended)
          /\ processes' = IF appended THEN processes \cup {restarts} ELSE processes
          /\ unlogged' = IF settings.log /\ ~appended THEN unlogged \cup {event.request}
                                                      ELSE unlogged
    BY <1>4 DEF Notes
  <2>3. BufferInv(RecordEvent(trail, event, appended)) BY <1>1, <1>2, BufferKept
  <2>4. LogInv(RecordEvent(trail, event, appended), processes', restarts, unlogged',
               settings.log)
    <3> DEFINE configured == settings.log
    <3>1. /\ trail \in Trails /\ configured \in BOOLEAN /\ (appended => configured)
          /\ LogInv(trail, processes, restarts, unlogged, configured)
      BY <1>1, <1>2, <2>1, <2>2
    <3> HIDE DEF configured
    <3>2. /\ processes' = IF appended THEN processes \cup {restarts} ELSE processes
          /\ unlogged' = IF configured /\ ~appended THEN unlogged \cup {event.request}
                                                      ELSE unlogged
      BY <2>2 DEF configured
    <3>3. LogInv(RecordEvent(trail, event, appended), processes', restarts, unlogged', configured)
      BY <3>1, <3>2, LogKept
    <3> QED BY <3>3 DEF configured
  <2> QED BY <1>4, <2>2, <2>3, <2>4 DEF TrailInv
<1>5. CASE Restart
  <2>1. restarts' = restarts + 1 /\ trail' = Reopened(trail)
        /\ UNCHANGED <<processes, unlogged, settings>>
    BY <1>5 DEF Restart
  <2>2. restarts + 1 \notin processes BY <1>1
  <2>3. /\ BufferInv(Reopened(trail))
        /\ LogInv(Reopened(trail), processes, restarts + 1, unlogged, settings.log)
    BY <1>1, <1>2, <2>2, ReopenedAre
  <2> QED BY <2>1, <2>3 DEF TrailInv
<1> QED BY <1>3, <1>4, <1>5, StepNotes

LEMMA TypedTrail == Spec => [](TypeInv /\ TrailInv)
<1>1. TypeInv /\ TrailInv /\ [Next]_vars => (TypeInv /\ TrailInv)'
  BY TypeKept, TrailKept
<1> QED BY <1>1, InitTyped, PTL DEF Spec

\* The buffer of a process verifies while it holds all the process recorded, the
\* log while one process wrote it and no append failed, and a log of the present
\* process that verifies lacks nothing but an end: for any size of the buffer, any
\* events, appends that fail and restarts (audit.py:26-83).
THEOREM ChainsVerify == Spec => []ChainHolds
<1>1. TypeInv /\ TrailInv => ChainHolds
  <2> SUFFICES ASSUME TypeInv, TrailInv PROVE ChainHolds OBVIOUS
  <2>1. trail \in Trails /\ restarts \in Nat /\ processes \subseteq 0 .. restarts
    BY DEF TypeInv
  <2>2. BufferInv(trail) /\ LogInv(trail, processes, restarts, unlogged, settings.log)
    BY DEF TrailInv
  <2>3. IsFiniteSet(processes)
    <3>1. 0 \in Int /\ restarts \in Int BY <2>1
    <3>2. IsFiniteSet(0 .. restarts) BY <3>1, FS_Interval
    <3> QED BY <2>1, <3>2, FS_Subset
  <2>4. Cardinality(processes) <= 1 <=> AtMostOne(processes) BY <2>3, AtMostOneIs
  <2>5. Len(trail.lastHash) <= MaxBuffer => VerifyChain(trail.buffer)
    BY <2>1, <2>2, BufferVerifies
  <2>6. Cardinality(processes) <= 1 /\ unlogged = {} => VerifyChain(trail.log)
    BY <2>2, <2>4 DEF LogInv
  <2>7. processes \subseteq {restarts} /\ VerifyChain(trail.log) => LogIsBeginning
    <3> SUFFICES ASSUME processes \subseteq {restarts}, VerifyChain(trail.log),
                        NEW k \in DOMAIN trail.log
                 PROVE  k <= Len(trail.lastHash) /\ trail.log[k].event = trail.lastHash[k]
      BY DEF LogIsBeginning
    <3>1. /\ Len(trail.log) <= Len(trail.lastHash)
          /\ \A n \in 1 .. Len(trail.log) : trail.log[n].event = trail.lastHash[n]
      BY <2>2 DEF LogInv, Begins
    <3>2. k \in 1 .. Len(trail.log) /\ Len(trail.log) \in Nat /\ Len(trail.lastHash) \in Nat
      BY <2>1 DEF Trails, Hashes
    <3> QED BY <3>1, <3>2
  <2> QED BY <2>5, <2>6, <2>7 DEF ChainHolds
<1> QED BY <1>1, TypedTrail, PTL

-----------------------------------------------------------------------------
(* What the log says of a change.                                          *)

\* The statuses a log gives a request.
Statuses(log, r) == {log[k].event.status : k \in {n \in DOMAIN log : log[n].event.request = r}}

LEMMA StatusesGrow ==
  ASSUME NEW t \in Trails, NEW event \in Events, NEW appended \in BOOLEAN, NEW r
  PROVE  Statuses(RecordEvent(t, event, appended).log, r) =
           IF appended /\ event.request = r THEN Statuses(t.log, r) \cup {event.status}
                                            ELSE Statuses(t.log, r)
<1> DEFINE log == t.log
           entry == Entry(t, event)
           longer == RecordEvent(t, event, appended).log
           n == Len(log)
<1>1. log \in Seq(Entries) /\ n \in Nat /\ DOMAIN log = 1 .. n BY DEF Trails
<1>2. /\ entry \in Entries /\ entry.event = event
      /\ longer = IF appended THEN Append(log, entry) ELSE log
  BY RecordedAre
<1>3. appended => /\ DOMAIN longer = 1 .. n + 1 /\ longer[n + 1] = entry
                  /\ \A k \in 1 .. n : longer[k] = log[k]
  BY <1>1, <1>2
<1> HIDE DEF log, entry, longer, n
<1>4. 1 .. n + 1 = 1 .. n \cup {n + 1} BY <1>1
<1>5. CASE ~appended BY <1>2, <1>5 DEF log, longer
<1>6. CASE appended BY <1>1, <1>2, <1>3, <1>4, <1>6 DEF Statuses, log, longer
<1> QED BY <1>5, <1>6

\* What a step that notes an event of a request does to what is told of one.
LEMMA NotedIs ==
  ASSUME TypeInv, NEW event \in Events, Notes(event), NEW q
  PROVE  /\ q # event.request => Told(q)' = Told(q) /\ (q \in unlogged' <=> q \in unlogged)
         /\ q = event.request /\ Told(q) = {} /\ q \notin unlogged =>
              Told(q)' = IF settings.log /\ q \notin unlogged' THEN {event.status} ELSE {}
<1>1. settings.log \in BOOLEAN /\ trail \in Trails BY SettingsAre DEF TypeInv
<1>2. PICK appended \in BOOLEAN :
        /\ appended => settings.log
        /\ trail' = RecordEvent(trail, event, appended)
        /\ unlogged' = IF settings.log /\ ~appended THEN unlogged \cup {event.request}
                                                    ELSE unlogged
  BY DEF Notes
<1>a. Statuses(RecordEvent(trail, event, appended).log, q)
        = IF appended /\ event.request = q THEN Statuses(trail.log, q) \cup {event.status}
                                           ELSE Statuses(trail.log, q)
  BY <1>1, StatusesGrow
<1>3. Statuses(trail.log, q)' = IF appended /\ event.request = q
                                THEN Statuses(trail.log, q) \cup {event.status}
                                ELSE Statuses(trail.log, q)
  BY <1>a, <1>2 DEF Statuses
<1>4. Told(q) = Statuses(trail.log, q) /\ Told(q)' = Statuses(trail.log, q)'
  BY DEF Told, Statuses
<1>5. Told(q)' = IF appended /\ event.request = q THEN Told(q) \cup {event.status} ELSE Told(q)
  BY <1>3, <1>4
<1> HIDE DEF Told
<1> QED BY <1>1, <1>2, <1>5

\* A request that has not been answered with an outcome is not in the log; one
\* that was is in it with what it did, unless there is no log or its append failed.
Marks == {"dry_run", "succeeded", "rolled_back", "escalated"}

Outcome(r, status) ==
  /\ Told(r) = IF settings.log /\ r \notin unlogged THEN {status} ELSE {}
  /\ restarted[r] = RestartsTold(status, plan[r])
  /\ status # "dry_run" => settings.autonomy /\ ~settings.dryrun

ChangeInv(r) ==
  /\ pc[r] \in {"new", "refused"} =>
       restarted[r] = 0 /\ Told(r) = {} /\ r \notin unlogged
  /\ pc[r] \in {"watching", "lost"} =>
       /\ Told(r) = {} /\ r \notin unlogged /\ settings.autonomy /\ ~settings.dryrun
       /\ plan[r] \in Reversible /\ restarted[r] = Restarts(plan[r])
  /\ pc[r] = "failed" =>
       /\ Told(r) = {} /\ restarted[r] \in {0, 1}
       /\ restarted[r] = 1 => settings.autonomy /\ ~settings.dryrun
  /\ pc[r] = "done" => \E status \in Marks : Outcome(r, status)

ChangesInv == \A r \in Requests : ChangeInv(r)

\* A step of one request leaves what is known of another alone.
LEMMA OtherChangesKept ==
  ASSUME TypeInv, NEW r \in Requests, NEW q \in Requests, q # r, ChangeInv(q),
         NEW place, NEW action, NEW times, Moves(r, place, action, times),
         NotesNothing \/ \E status : [request |-> r, status |-> status] \in Events
                                     /\ Notes([request |-> r, status |-> status])
  PROVE  ChangeInv(q)'
<1>1. /\ pc'[q] = pc[q] /\ plan'[q] = plan[q] /\ restarted'[q] = restarted[q]
      /\ settings' = settings
  BY DEF TypeInv, Moves
<1>2. Told(q)' = Told(q) /\ (q \in unlogged' <=> q \in unlogged)
  <2>1. CASE NotesNothing BY <2>1 DEF NotesNothing, Told
  <2>2. ASSUME NEW status, [request |-> r, status |-> status] \in Events,
               Notes([request |-> r, status |-> status])
        PROVE  Told(q)' = Told(q) /\ (q \in unlogged' <=> q \in unlogged)
    <3>1. [request |-> r, status |-> status].request = r OBVIOUS
    <3> QED BY <2>2, <3>1, NotedIs
  <2> QED BY <2>1, <2>2
<1> HIDE DEF Told
<1> QED BY <1>1, <1>2 DEF ChangeInv, Outcome

LEMMA OwnChange ==
  ASSUME TypeInv, NEW r \in Requests, NEW place \in States,
         NEW action, NEW times, Moves(r, place, action, times)
  PROVE  /\ pc'[r] = place /\ plan'[r] = action /\ restarted'[r] = restarted[r] + times
         /\ settings' = settings
         /\ NotesNothing => Told(r)' = Told(r) /\ unlogged' = unlogged
         /\ \A status : /\ [request |-> r, status |-> status] \in Events
                        /\ Notes([request |-> r, status |-> status])
                        /\ Told(r) = {} /\ r \notin unlogged
                        => Told(r)' = (IF settings.log /\ r \notin unlogged THEN {status} ELSE {})'
<1>1. /\ pc'[r] = place /\ plan'[r] = action /\ restarted'[r] = restarted[r] + times
      /\ settings' = settings
  BY DEF TypeInv, Moves
<1>2. NotesNothing => Told(r)' = Told(r) /\ unlogged' = unlogged BY DEF NotesNothing, Told
<1>3. ASSUME NEW status, [request |-> r, status |-> status] \in Events,
             Notes([request |-> r, status |-> status]), Told(r) = {}, r \notin unlogged
      PROVE  Told(r)' = (IF settings.log /\ r \notin unlogged THEN {status} ELSE {})'
  <2>1. /\ [request |-> r, status |-> status].request = r
        /\ [request |-> r, status |-> status].status = status
    OBVIOUS
  <2> QED BY <1>1, <1>3, <2>1, NotedIs
<1> QED BY <1>1, <1>2, <1>3

LEMMA AskKeepsChanges ==
  ASSUME TypeInv, ChangesInv, NEW r \in Requests, Asked(r)
  PROVE  ChangesInv'
<1>0. ChangeInv(r) /\ pc[r] = "new" /\ restarted[r] = 0 /\ Told(r) = {} /\ r \notin unlogged
  BY DEF ChangesInv, Asked, ChangeInv
<1>1. {"refused", "done", "watching", "failed"} \subseteq States BY DEF States
<1>2. [request |-> r, status |-> "dry_run"] \in Events BY EventsAre
<1>3. CASE Moves(r, "refused", plan[r], 0) /\ NotesNothing
  <2>1. pc'[r] = "refused" /\ restarted'[r] = 0 + 0 /\ Told(r)' = {} /\ unlogged' = unlogged
    BY <1>0, <1>1, <1>3, OwnChange
  <2>2. ChangeInv(r)' BY <2>1, <1>0 DEF ChangeInv
  <2>3. \A q \in Requests : q # r => ChangeInv(q)'
    BY <1>3, OtherChangesKept DEF ChangesInv
  <2> QED BY <2>2, <2>3 DEF ChangesInv
<1>4. ASSUME NEW action \in Reversible, Moves(r, "done", action, 0),
             Notes([request |-> r, status |-> "dry_run"])
      PROVE  ChangesInv'
  <2>1. /\ pc'[r] = "done" /\ restarted'[r] = 0 + 0
        /\ Told(r)' = (IF settings.log /\ r \notin unlogged THEN {"dry_run"} ELSE {})'
    BY <1>0, <1>1, <1>2, <1>4, OwnChange
  <2>a. Outcome(r, "dry_run")' BY <2>1 DEF Outcome, RestartsTold
  <2>2. ChangeInv(r)' BY <2>1, <2>a DEF ChangeInv, Marks
  <2>3. \A q \in Requests : q # r => ChangeInv(q)'
    BY <1>2, <1>4, OtherChangesKept DEF ChangesInv
  <2> QED BY <2>2, <2>3 DEF ChangesInv
<1>5. ASSUME NEW action \in Reversible, settings.autonomy, ~settings.dryrun,
             Moves(r, "watching", action, Restarts(action)), NotesNothing
      PROVE  ChangesInv'
  <2>1. /\ pc'[r] = "watching" /\ restarted'[r] = 0 + Restarts(action) /\ Told(r)' = {}
        /\ plan'[r] = action /\ settings' = settings /\ unlogged' = unlogged
    BY <1>0, <1>1, <1>5, OwnChange
  <2>2. ChangeInv(r)' BY <2>1, <1>0, <1>5 DEF ChangeInv, Restarts
  <2>3. \A q \in Requests : q # r => ChangeInv(q)'
    BY <1>5, OtherChangesKept DEF ChangesInv
  <2> QED BY <2>2, <2>3 DEF ChangesInv
<1>6. ASSUME NEW action \in Reversible, NEW times \in {0, 1},
             times = 1 => settings.autonomy /\ ~settings.dryrun,
             Moves(r, "failed", action, times), NotesNothing
      PROVE  ChangesInv'
  <2>1. /\ pc'[r] = "failed" /\ restarted'[r] = 0 + times /\ Told(r)' = {}
        /\ settings' = settings
    BY <1>0, <1>1, <1>6, OwnChange
  <2>2. ChangeInv(r)' BY <2>1, <1>6 DEF ChangeInv
  <2>3. \A q \in Requests : q # r => ChangeInv(q)'
    BY <1>6, OtherChangesKept DEF ChangesInv
  <2> QED BY <2>2, <2>3 DEF ChangesInv
<1> QED BY <1>3, <1>4, <1>5, <1>6 DEF Asked

LEMMA JudgeKeepsChanges ==
  ASSUME TypeInv, ChangesInv, NEW r \in Requests, Judged(r)
  PROVE  ChangesInv'
<1>0. /\ pc[r] = "watching" /\ Told(r) = {} /\ r \notin unlogged /\ settings.autonomy /\ ~settings.dryrun
      /\ plan[r] \in Reversible /\ restarted[r] = Restarts(plan[r])
  BY DEF ChangesInv, Judged, ChangeInv
<1>1. {"done", "failed"} \subseteq States BY DEF States
<1>2. \A status \in {"succeeded", "rolled_back", "escalated"} :
        [request |-> r, status |-> status] \in Events
  BY EventsAre
<1>3. ASSUME NEW times \in {0, 1}, Moves(r, "failed", plan[r], times), NotesNothing,
             times = 1 => plan[r] = "rollback_deployment"
      PROVE  ChangesInv'
  <2>1. /\ pc'[r] = "failed" /\ restarted'[r] = Restarts(plan[r]) + times /\ Told(r)' = {}
        /\ settings' = settings
    BY <1>0, <1>1, <1>3, OwnChange
  <2>2. ChangeInv(r)' BY <2>1, <1>0, <1>3 DEF ChangeInv, Restarts
  <2>3. \A q \in Requests : q # r => ChangeInv(q)'
    BY <1>3, OtherChangesKept DEF ChangesInv
  <2> QED BY <2>2, <2>3 DEF ChangesInv
<1>4. ASSUME NEW status \in {"succeeded", "rolled_back", "escalated"},
             Moves(r, "done", plan[r], IF status = "rolled_back" THEN 1 ELSE 0),
             status = "rolled_back" => plan[r] = "rollback_deployment",
             Notes([request |-> r, status |-> status])
      PROVE  ChangesInv'
  <2>0. [request |-> r, status |-> status] \in Events BY <1>2
  <2> DEFINE times == IF status = "rolled_back" THEN 1 ELSE 0
  <2>1. /\ pc'[r] = "done" /\ restarted'[r] = restarted[r] + times
        /\ Told(r)' = (IF settings.log /\ r \notin unlogged THEN {status} ELSE {})'
        /\ plan'[r] = plan[r] /\ settings' = settings
    BY <1>0, <1>1, <2>0, <1>4, OwnChange
  <2>2. restarted'[r] = RestartsTold(status, plan[r])
    BY <2>1, <1>0, <1>4 DEF Restarts, RestartsTold
  <2>3. Outcome(r, status)' BY <2>1, <2>2, <1>0 DEF Outcome
  <2>4. ChangeInv(r)' BY <2>1, <2>3 DEF ChangeInv, Marks
  <2>5. \A q \in Requests : q # r => ChangeInv(q)'
    BY <2>0, <1>4, OtherChangesKept DEF ChangesInv
  <2> QED BY <2>4, <2>5 DEF ChangesInv
<1>5. CASE \E status \in {"succeeded", "escalated"} :
             /\ Moves(r, "done", plan[r], 0) /\ Notes([request |-> r, status |-> status])
  BY <1>4, <1>5
<1>6. CASE /\ Moves(r, "done", plan[r], 1) /\ plan[r] = "rollback_deployment"
           /\ Notes([request |-> r, status |-> "rolled_back"])
  BY <1>4, <1>6
<1>7. CASE /\ NotesNothing
           /\ \/ Moves(r, "failed", plan[r], 0)
              \/ Moves(r, "failed", plan[r], 1) /\ plan[r] = "rollback_deployment"
  BY <1>3, <1>7
<1> QED BY <1>5, <1>6, <1>7 DEF Judged

LEMMA ChangesKept ==
  ASSUME TypeInv, ChangesInv, [Next]_vars
  PROVE  ChangesInv'
<1>1. ASSUME NEW r \in Requests, Ask(r) PROVE ChangesInv'
  BY <1>1, AskDoes, AskKeepsChanges
<1>2. ASSUME NEW r \in Requests, Judge(r) PROVE ChangesInv'
  BY <1>2, JudgeDoes, JudgeKeepsChanges
<1>3. CASE OtherEvent
  <2>1. Notes([request |-> 0, status |-> "other"]) /\ UNCHANGED <<pc, plan, settings, restarted>>
    BY <1>3, EventsAre DEF OtherEvent, request
  <2>2. [request |-> 0, status |-> "other"] \in Events BY EventsAre
  <2>3. ASSUME NEW r \in Requests PROVE ChangeInv(r)'
    <3>1. r # 0 /\ [request |-> 0, status |-> "other"].request = 0 BY DEF Requests
    <3>2. Told(r)' = Told(r) /\ (r \in unlogged' <=> r \in unlogged)
      BY <2>1, <2>2, <3>1, NotedIs
    <3> HIDE DEF Told
    <3> QED BY <2>1, <3>2 DEF ChangesInv, ChangeInv, Outcome
  <2> QED BY <2>3 DEF ChangesInv
<1>4. CASE Restart
  <2>1. /\ trail'.log = trail.log /\ UNCHANGED <<plan, settings, restarted, unlogged>>
        /\ pc' = [r \in Requests |-> IF pc[r] = "watching" THEN "lost" ELSE pc[r]]
    BY <1>4 DEF Restart, Reopened, EmptyTrail
  <2>2. ASSUME NEW r \in Requests PROVE ChangeInv(r)'
    <3>1. Told(r)' = Told(r) BY <2>1 DEF Told
    <3>2. pc'[r] = IF pc[r] = "watching" THEN "lost" ELSE pc[r] BY <2>1
    <3> QED BY <2>1, <3>1, <3>2 DEF ChangesInv, ChangeInv, Outcome
  <2> QED BY <2>2 DEF ChangesInv
<1>5. CASE UNCHANGED <<request, settings, restarted, record>>
  <2>1. UNCHANGED <<pc, plan, settings, restarted, trail, unlogged>> BY <1>5 DEF request, record
  <2>2. ASSUME NEW r \in Requests PROVE ChangeInv(r)'
    <3>1. Told(r)' = Told(r) BY <2>1 DEF Told
    <3> QED BY <2>1, <3>1 DEF ChangesInv, ChangeInv, Outcome
  <2> QED BY <2>2 DEF ChangesInv
<1> QED BY <1>1, <1>2, <1>3, <1>4, <1>5 DEF Next, Tick, vars

\* Autonomy restarts a deployment at most once for a request and only where it
\* may; a request is in the log iff it was answered with an outcome and its append
\* succeeded, and then with what was done: for any number of requests, readings
\* that raise, calls that time out, appends that fail and restarts
\* (autonomy.py:82-111).
THEOREM ChangesAreKnown == Spec => []ChangesAreAccounted
<1>1. Init => ChangesInv
  <2> SUFFICES ASSUME Init, NEW r \in Requests PROVE ChangeInv(r) BY DEF ChangesInv
  <2>1. trail.log = <<>> BY DEF Init, EmptyTrail
  <2>2. Told(r) = {} BY <2>1 DEF Told
  <2>3. unlogged = {} BY DEF Init
  <2> QED BY <2>2, <2>3 DEF Init, ChangeInv
<1>2. TypeInv /\ ChangesInv /\ [Next]_vars => ChangesInv' BY ChangesKept
<1>3. TypeInv /\ ChangesInv => ChangesAreAccounted
  <2> SUFFICES ASSUME TypeInv, ChangesInv, NEW r \in Requests
               PROVE  /\ restarted[r] > 0 =>
                           restarted[r] = 1 /\ settings.autonomy /\ ~settings.dryrun
                      /\ Told(r) # {} <=> pc[r] = "done" /\ settings.log /\ r \notin unlogged
                      /\ Told(r) # {} =>
                           \E status \in Told(r) :
                             /\ Told(r) = {status}
                             /\ restarted[r] = RestartsTold(status, plan[r])
    BY DEF ChangesAreAccounted
  <2>1. pc[r] \in States /\ ChangeInv(r) BY DEF TypeInv, ChangesInv
  <2> HIDE DEF Told
  <2>2. CASE pc[r] = "done"
    <3>1. PICK status \in Marks : Outcome(r, status) BY <2>1, <2>2 DEF ChangeInv
    <3>2. restarted[r] > 0 =>
            restarted[r] = 1 /\ settings.autonomy /\ ~settings.dryrun
      BY <3>1 DEF Outcome, RestartsTold
    <3> QED BY <2>2, <3>1, <3>2 DEF Outcome
  <2>3. CASE pc[r] # "done"
    <3>1. Told(r) = {} BY <2>1, <2>3 DEF States, ChangeInv
    <3> QED BY <2>1, <2>3, <3>1 DEF States, ChangeInv, Restarts
  <2> QED BY <2>2, <2>3
<1> QED BY <1>1, <1>2, <1>3, TypedTrail, PTL DEF Spec

-----------------------------------------------------------------------------
(* The rate limiter.                                                       *)

Least(a, b) == IF a <= b THEN a ELSE b

\* What n restarts and one window let in.
Base(n) == (1 + n) * Limit

LEMMA BaseIs ==
  ASSUME NEW n \in Nat
  PROVE  /\ Limit \in Nat /\ Limit >= 1
         /\ Base(n) \in Nat /\ Base(n) >= Limit
         /\ Base(n + 1) = Base(n) + Limit /\ (2 + n) * Limit = Base(n) + Limit
<1>1. Limit \in Nat /\ Limit >= 1 BY LimitsAssumption
<1>2. n * Limit \in Nat BY <1>1
<1>3. /\ (1 + n) * Limit = n * Limit + Limit
      /\ (1 + (n + 1)) * Limit = n * Limit + Limit + Limit
      /\ (2 + n) * Limit = n * Limit + Limit + Limit
  BY <1>1
<1> QED BY <1>1, <1>2, <1>3 DEF Base

Since(c, a) == {h \in hits : h.client = c /\ h.time >= a}

HitsInv ==
  /\ hits \subseteq [request : Requests, client : Clients, time : Nat]
  /\ IsFiniteSet(hits)
  /\ \A h \in hits : h.time <= now

CountsInv ==
  /\ \A c \in DOMAIN windows :
       /\ windows[c] \in [start : Nat, count : Nat \ {0}] /\ windows[c].start <= now
  /\ \A b \in DOMAIN counters : counters[b] \in Nat

\* In memory: in the window's time that ends now, a client was let in as often
\* as earlier processes and the window that just ended allow, and as the window
\* that it is in counts; after that window began, once less than it counts.
MemoryInv ==
  \A c \in Clients, a \in Int : a > now - Window =>
    LET n == Cardinality(Since(c, a))
    IN  IF c \in DOMAIN windows
        THEN LET m == Least(windows[c].count, Limit)
             IN  /\ a > windows[c].start => n <= m - 1
                 /\ n <= Base(restarts) - 1 + m
        ELSE n <= Base(restarts) - 1

InWindowBound ==
  \A c \in Clients, t \in Int : InWindow(c, t) <= Base(restarts) + Limit - 1

\* In Redis: what a bucket let in beyond what it counts is a fault's, and two
\* buckets share the faults.
InBucket(c, b) == {h \in hits : h.client = c /\ h.time \div Window = b}
Tally(c, b) == IF <<c, b>> \in DOMAIN counters THEN counters[<<c, b>>] ELSE 0
Extra(c, b) == Cardinality(InBucket(c, b)) - Least(Tally(c, b), Limit)

RedisInv ==
  \A c \in Clients, b, d \in Int : b # d =>
    Extra(c, b) <= faults /\ Extra(c, b) + Extra(c, d) <= faults

RateInv ==
  /\ HitsInv /\ CountsInv
  /\ ~settings.redis => MemoryInv /\ InWindowBound
  /\ settings.redis => RedisInv

\* One call of a limiter: which clients' windows go, and what the caller's is.
LEMMA CountedInMemory ==
  ASSUME NEW ws, NEW c, NEW time \in Nat,
         \A d \in DOMAIN ws : ws[d] \in [start : Nat, count : Nat \ {0}]
  PROVE  LET after == CountInMemory(ws, c, time)
         IN  /\ c \in DOMAIN after
             /\ \/ /\ after[c] = [start |-> time, count |-> 1]
                   /\ c \notin DOMAIN ws \/ Elapsed(ws[c], time)
                \/ /\ c \in DOMAIN ws /\ ~Elapsed(ws[c], time)
                   /\ after[c] = [start |-> ws[c].start, count |-> ws[c].count + 1]
             /\ \A d \in DOMAIN after \ {c} : d \in DOMAIN ws /\ after[d] = ws[d]
             /\ \A d \in DOMAIN ws \ DOMAIN after : Elapsed(ws[d], time)
<1> DEFINE kept == Pruned(ws, time)
           fresh == c \notin DOMAIN kept \/ Elapsed(kept[c], time)
           row == IF fresh THEN [start |-> time, count |-> 1]
                           ELSE [kept[c] EXCEPT !.count = @ + 1]
           after == CountInMemory(ws, c, time)
<1>1. /\ \A d \in DOMAIN kept : d \in DOMAIN ws /\ kept[d] = ws[d]
      /\ \A d \in DOMAIN ws \ DOMAIN kept : Elapsed(ws[d], time)
  BY DEF Pruned
<1>2. after = [k \in DOMAIN kept \cup {c} |-> IF k = c THEN row ELSE kept[k]]
  BY DEF CountInMemory, With
<1> HIDE DEF kept, after
<1>3. DOMAIN after = DOMAIN kept \cup {c} /\ after[c] = row BY <1>2
<1>4. \A d \in DOMAIN after \ {c} : d \in DOMAIN kept /\ after[d] = kept[d] BY <1>2
<1>5. CASE fresh
  <2>1. after[c] = [start |-> time, count |-> 1] BY <1>3, <1>5
  <2>2. c \notin DOMAIN ws \/ Elapsed(ws[c], time) BY <1>1, <1>5
  <2> QED BY <2>1, <2>2, <1>1, <1>3, <1>4 DEF after
<1>6. CASE ~fresh
  <2>1. c \in DOMAIN ws /\ kept[c] = ws[c] /\ ~Elapsed(ws[c], time) BY <1>1, <1>6
  <2>2. after[c] = [ws[c] EXCEPT !.count = @ + 1] BY <2>1, <1>3, <1>6
  <2>3. after[c] = [start |-> ws[c].start, count |-> ws[c].count + 1] BY <2>1, <2>2
  <2> QED BY <2>1, <2>3, <1>1, <1>3, <1>4 DEF after
<1> QED BY <1>5, <1>6

\* A set of hits to which one is added at most.
LEMMA OneMore ==
  ASSUME NEW S, IsFiniteSet(S), NEW T, NEW h, T \subseteq S \cup {h}
  PROVE  /\ IsFiniteSet(T) /\ Cardinality(T) \in Nat /\ Cardinality(S) \in Nat
         /\ Cardinality(T) <= Cardinality(S) + 1
         /\ T \subseteq S => Cardinality(T) <= Cardinality(S)
<1>1. /\ IsFiniteSet(S \cup {h}) /\ Cardinality(S) \in Nat
      /\ Cardinality(S \cup {h}) = IF h \in S THEN Cardinality(S) ELSE Cardinality(S) + 1
  BY FS_AddElement, FS_CardinalityType
<1>2. IsFiniteSet(T) /\ Cardinality(T) <= Cardinality(S \cup {h}) BY <1>1, FS_Subset
<1>3. Cardinality(T) \in Nat BY <1>2, FS_CardinalityType
<1>4. T \subseteq S => Cardinality(T) <= Cardinality(S) BY FS_Subset
<1> QED BY <1>1, <1>2, <1>3, <1>4

\* The limiter's part of a request.
Limits(r, c, admitted) ==
  /\ Admits(c, admitted)
  /\ hits' = IF admitted THEN hits \cup {[request |-> r, client |-> c, time |-> now]}
                         ELSE hits
  /\ UNCHANGED <<settings, now, restarts>>

LEMMA AskLimits ==
  ASSUME NEW r \in Requests, Ask(r)
  PROVE  \E c \in Clients, admitted \in BOOLEAN : Limits(r, c, admitted)
<1>1. \E c \in Clients, action \in Actions, confidence \in {"high", "low"},
         admitted \in BOOLEAN :
        /\ Admits(c, admitted)
        /\ hits' = IF admitted THEN hits \cup {[request |-> r, client |-> c, time |-> now]}
                               ELSE hits
  BY DEF Ask
<1>2. UNCHANGED <<settings, now>> BY DEF Ask
<1>3. restarts' = restarts BY DEF Ask
<1> QED BY <1>1, <1>2, <1>3 DEF Limits

LEMMA HitsAreKept ==
  ASSUME TypeInv, HitsInv, NEW r \in Requests, NEW c \in Clients, NEW admitted \in BOOLEAN,
         Limits(r, c, admitted)
  PROVE  HitsInv'
<1> DEFINE h == [request |-> r, client |-> c, time |-> now]
<1>1. h \in [request : Requests, client : Clients, time : Nat] BY DEF TypeInv
<1>2. IsFiniteSet(hits \cup {h}) BY FS_AddElement DEF HitsInv
<1>3. /\ hits' = IF admitted THEN hits \cup {h} ELSE hits
      /\ now' = now /\ h.time <= now
  BY DEF Limits, TypeInv
<1> HIDE DEF h
<1> QED BY <1>1, <1>2, <1>3 DEF HitsInv

LEMMA CountsAreKept ==
  ASSUME TypeInv, CountsInv, NEW r \in Requests, NEW c \in Clients, NEW admitted \in BOOLEAN,
         Limits(r, c, admitted)
  PROVE  CountsInv'
<1>0. now \in Nat /\ now' = now BY DEF TypeInv, Limits
<1>1. windows' = windows \/ windows' = CountInMemory(windows, c, now)
  BY DEF Limits, Admits
<1>2. counters' = counters \/ counters' = CountInRedis(counters, c, now)
  BY DEF Limits, Admits
<1>3. CASE windows' = CountInMemory(windows, c, now)
  <2> DEFINE after == CountInMemory(windows, c, now)
  <2>1. \A d \in DOMAIN windows : windows[d] \in [start : Nat, count : Nat \ {0}]
    BY DEF CountsInv
  <2>2. /\ \/ after[c] = [start |-> now, count |-> 1]
           \/ /\ c \in DOMAIN windows
              /\ after[c] = [start |-> windows[c].start, count |-> windows[c].count + 1]
        /\ \A d \in DOMAIN after \ {c} : d \in DOMAIN windows /\ after[d] = windows[d]
    BY <1>0, <2>1, CountedInMemory
  <2> HIDE DEF after
  <2>3. \A d \in DOMAIN after :
          after[d] \in [start : Nat, count : Nat \ {0}] /\ after[d].start <= now
    <3> TAKE d \in DOMAIN after
    <3>1. CASE d # c BY <3>1, <2>2 DEF CountsInv
    <3>2. CASE d = c BY <3>2, <2>2, <1>0 DEF CountsInv
    <3> QED BY <3>1, <3>2
  <2>4. \A b \in DOMAIN counters' : counters'[b] \in Nat
    BY <1>2 DEF CountsInv, CountInRedis, With
  <2> QED BY <1>0, <1>3, <2>3, <2>4 DEF CountsInv, after
<1>4. CASE windows' = windows
  <2>1. \A b \in DOMAIN counters' : counters'[b] \in Nat
    BY <1>2 DEF CountsInv, CountInRedis, With
  <2> QED BY <1>0, <1>4, <2>1 DEF CountsInv
<1> QED BY <1>1, <1>3, <1>4

\* The windows of a client after a call, and of the others.
LEMMA MemoryKept ==
  ASSUME TypeInv, RateInv, ~settings.redis, NEW r \in Requests, NEW c \in Clients,
         NEW admitted \in BOOLEAN, Limits(r, c, admitted)
  PROVE  MemoryInv'
<1> DEFINE h == [request |-> r, client |-> c, time |-> now]
           after == CountInMemory(windows, c, now)
<1>1. /\ windows' = after /\ admitted = (after[c].count <= Limit)
      /\ hits' = IF admitted THEN hits \cup {h} ELSE hits
      /\ now' = now /\ restarts' = restarts
  BY DEF Limits, Admits
<1>2. /\ now \in Nat /\ restarts \in Nat /\ IsFiniteSet(hits) /\ MemoryInv
      /\ \A d \in DOMAIN windows :
           windows[d] \in [start : Nat, count : Nat \ {0}] /\ windows[d].start <= now
      /\ \A g \in hits : g.time \in Nat /\ g.time <= now
  BY DEF TypeInv, RateInv, HitsInv, CountsInv
<1>3. /\ c \in DOMAIN after
      /\ \/ /\ after[c] = [start |-> now, count |-> 1]
            /\ c \notin DOMAIN windows \/ Elapsed(windows[c], now)
         \/ /\ c \in DOMAIN windows /\ ~Elapsed(windows[c], now)
            /\ after[c] = [start |-> windows[c].start, count |-> windows[c].count + 1]
      /\ \A d \in DOMAIN after \ {c} : d \in DOMAIN windows /\ after[d] = windows[d]
      /\ \A d \in DOMAIN windows \ DOMAIN after : Elapsed(windows[d], now)
  BY <1>2, CountedInMemory
<1>4. /\ Limit \in Nat /\ Limit >= 1 /\ Window \in Nat /\ Window >= 1
      /\ Base(restarts) \in Nat /\ Base(restarts) >= Limit
  BY <1>2, BaseIs, LimitsAssumption
<1> SUFFICES ASSUME NEW d \in Clients, NEW a \in Int, a > now - Window
             PROVE  LET n == Cardinality(Since(d, a)')
                    IN  IF d \in DOMAIN after
                        THEN LET m == Least(after[d].count, Limit)
                             IN  /\ a > after[d].start => n <= m - 1
                                 /\ n <= Base(restarts) - 1 + m
                        ELSE n <= Base(restarts) - 1
  BY <1>1 DEF MemoryInv, Base
<1> DEFINE S == Since(d, a)
           T == Since(d, a)'
           k == Cardinality(S)
           n == Cardinality(T)
<1>5. IsFiniteSet(S) BY <1>2, FS_Subset DEF Since
<1>6. T \subseteq S \cup {h} BY <1>1 DEF Since
<1>7. /\ k \in Nat /\ n \in Nat /\ n <= k + 1 /\ (T \subseteq S => n <= k)
  <2> HIDE DEF S, T, h
  <2> QED BY <1>5, <1>6, OneMore
<1>8. IF d \in DOMAIN windows
      THEN /\ a > windows[d].start => k <= Least(windows[d].count, Limit) - 1
           /\ k <= Base(restarts) - 1 + Least(windows[d].count, Limit)
      ELSE k <= Base(restarts) - 1
  BY <1>2 DEF MemoryInv
<1>9. d \in DOMAIN windows /\ Elapsed(windows[d], now) => k <= Limit - 1
  <2> SUFFICES ASSUME d \in DOMAIN windows, Elapsed(windows[d], now) PROVE k <= Limit - 1
    OBVIOUS
  <2>1. windows[d].start \in Nat /\ windows[d].count \in Nat BY <1>2
  <2>2. a > windows[d].start BY <2>1, <1>2, <1>4 DEF Elapsed
  <2> QED BY <2>1, <2>2, <1>4, <1>7, <1>8 DEF Least
<1>10. a > now => k = 0
  <2> SUFFICES ASSUME a > now PROVE k = 0 OBVIOUS
  <2>1. S = {} BY <1>2 DEF Since
  <2> QED BY <2>1, FS_EmptySet
<1>11. a > now => T \subseteq S BY <1>1, <1>2 DEF Since
<1>12. ~admitted => T \subseteq S BY <1>1 DEF Since
<1>13. CASE d # c
  <2>1. T \subseteq S BY <1>1, <1>13 DEF Since
  <2>2. n <= k BY <2>1, <1>7
  <2>3. CASE d \in DOMAIN after
    <3>1. d \in DOMAIN windows /\ after[d] = windows[d] BY <2>3, <1>3, <1>13
    <3>2. windows[d].start \in Nat /\ windows[d].count \in Nat BY <3>1, <1>2
    <3> QED BY <2>2, <2>3, <3>1, <3>2, <1>2, <1>4, <1>7, <1>8 DEF Least
  <2>4. CASE d \notin DOMAIN after
    <3>1. d \in DOMAIN windows => k <= Limit - 1 BY <2>4, <1>3, <1>9
    <3> QED BY <2>2, <2>4, <3>1, <1>4, <1>7, <1>8
  <2> QED BY <2>3, <2>4
<1>14. CASE d = c /\ after[c] = [start |-> now, count |-> 1]
            /\ (c \notin DOMAIN windows \/ Elapsed(windows[c], now))
  <2>1. k <= Base(restarts) - 1 BY <1>14, <1>4, <1>7, <1>8, <1>9
  <2>2. Least(after[c].count, Limit) = 1 /\ after[c].start = now
    BY <1>14, <1>4 DEF Least
  <2>3. a > now => n <= 0 BY <1>7, <1>10, <1>11
  <2> QED BY <2>1, <2>2, <2>3, <1>3, <1>4, <1>7, <1>14
<1>15. CASE d = c /\ c \in DOMAIN windows
            /\ after[c] = [start |-> windows[c].start, count |-> windows[c].count + 1]
  <2> DEFINE m == Least(windows[c].count, Limit)
             p == Least(after[c].count, Limit)
  <2>1. windows[c].start \in Nat /\ windows[c].count \in Nat BY <1>15, <1>2
  <2>2. after[c].start = windows[c].start /\ after[c].count = windows[c].count + 1
    BY <1>15
  <2>3. m \in Nat /\ p \in Nat BY <2>1, <2>2, <1>4 DEF Least
  <2>4. CASE admitted
    <3>0. after[c].count <= Limit BY <2>4, <1>1
    <3>1. p = m + 1 BY <2>1, <2>2, <3>0, <1>4 DEF Least
    <3> HIDE DEF m, p
    <3>2. n <= k + 1 BY <1>7
    <3>3. /\ a > windows[c].start => k <= m - 1
          /\ k <= Base(restarts) - 1 + m
      BY <1>8, <1>15 DEF m
    <3>4. /\ a > windows[c].start => n <= p - 1
          /\ n <= Base(restarts) - 1 + p
      BY <3>1, <3>2, <3>3, <2>3, <1>4, <1>7
    <3> QED BY <3>4, <2>2, <1>3, <1>15 DEF p
  <2>5. CASE ~admitted
    <3>0. ~(after[c].count <= Limit) BY <2>5, <1>1
    <3>1. p = m BY <2>1, <2>2, <3>0, <1>4 DEF Least
    <3>2. n <= k BY <2>5, <1>7, <1>12
    <3> HIDE DEF m, p
    <3>3. /\ a > windows[c].start => k <= m - 1
          /\ k <= Base(restarts) - 1 + m
      BY <1>8, <1>15 DEF m
    <3>4. /\ a > windows[c].start => n <= p - 1
          /\ n <= Base(restarts) - 1 + p
      BY <3>1, <3>2, <3>3, <2>3, <1>4, <1>7
    <3> QED BY <3>4, <2>2, <1>3, <1>15 DEF p
  <2> QED BY <2>4, <2>5
<1> QED BY <1>3, <1>13, <1>14, <1>15

\* A window's time that a hit falls into ends now or later, and holds no more
\* than was let in since it began.
LEMMA WindowsAreKept ==
  ASSUME TypeInv, RateInv, ~settings.redis, NEW r \in Requests, NEW c \in Clients,
         NEW admitted \in BOOLEAN, Limits(r, c, admitted), MemoryInv', HitsInv', CountsInv'
  PROVE  InWindowBound'
<1> DEFINE h == [request |-> r, client |-> c, time |-> now]
<1>1. /\ now \in Nat /\ restarts \in Nat /\ now' = now /\ restarts' = restarts
      /\ hits' = IF admitted THEN hits \cup {h} ELSE hits
  BY DEF TypeInv, Limits
<1>2. /\ Limit \in Nat /\ Limit >= 1 /\ Window \in Nat /\ Window >= 1
      /\ Base(restarts) \in Nat
  BY <1>1, BaseIs, LimitsAssumption
<1> SUFFICES ASSUME NEW d \in Clients, NEW t \in Int
             PROVE  InWindow(d, t)' <= Base(restarts) + Limit - 1
  BY <1>1 DEF InWindowBound, Base
<1> DEFINE In == {g \in hits : g.client = d /\ g.time > t - Window /\ g.time <= t}
           a == t - Window + 1
<1>3. InWindow(d, t)' = Cardinality(In') /\ InWindow(d, t) = Cardinality(In)
  BY DEF InWindow
<1>4. CASE now > t - Window /\ now <= t
  <2>1. a \in Int /\ a > now - Window BY <1>1, <1>2, <1>4
  <2>2. In' \subseteq Since(d, a)' BY <1>1, <1>2 DEF Since, HitsInv
  <2>3. IsFiniteSet(hits') BY DEF HitsInv
  <2>4. IsFiniteSet(Since(d, a)') BY <2>3, FS_Subset DEF Since
  <2>5. Cardinality(In') <= Cardinality(Since(d, a)') /\ IsFiniteSet(In')
    BY <2>2, <2>4, FS_Subset
  <2>6. Cardinality(In') \in Nat /\ Cardinality(Since(d, a)') \in Nat
    BY <2>4, <2>5, FS_CardinalityType
  <2>7. IF d \in DOMAIN windows'
        THEN Cardinality(Since(d, a)') <= Base(restarts) - 1 + Least(windows'[d].count, Limit)
        ELSE Cardinality(Since(d, a)') <= Base(restarts) - 1
    BY <1>1, <2>1 DEF MemoryInv, Base
  <2>8. d \in DOMAIN windows' => windows'[d].count \in Nat BY DEF CountsInv
  <2>9. Cardinality(Since(d, a)') <= Base(restarts) - 1 + Limit
    <3> DEFINE n == Cardinality(Since(d, a)')
    <3>1. n \in Nat BY <2>6
    <3>2. CASE d \in DOMAIN windows'
      <4>1. Least(windows'[d].count, Limit) <= Limit
            /\ Least(windows'[d].count, Limit) \in Nat
        BY <3>2, <2>8, <1>2 DEF Least
      <4>2. n <= Base(restarts) - 1 + Least(windows'[d].count, Limit) BY <3>2, <2>7
      <4> HIDE DEF n
      <4> QED BY <3>1, <4>1, <4>2, <1>2 DEF n
    <3>3. CASE d \notin DOMAIN windows'
      <4>2. n <= Base(restarts) - 1 BY <3>3, <2>7
      <4> HIDE DEF n
      <4> QED BY <3>1, <4>2, <1>2 DEF n
    <3> QED BY <3>2, <3>3
  <2> QED BY <1>2, <1>3, <2>5, <2>6, <2>9
<1>5. CASE ~(now > t - Window /\ now <= t)
  <2>1. In' = In BY <1>1, <1>5
  <2>2. InWindow(d, t) <= Base(restarts) + Limit - 1 BY DEF RateInv, InWindowBound
  <2> QED BY <1>3, <2>1, <2>2
<1> QED BY <1>4, <1>5

\* A call of Redis: no bucket but the caller's lets more in than it counts, and
\* that one only by a fault.
LEMMA ExtraGrows ==
  ASSUME TypeInv, RateInv, settings.redis, NEW r \in Requests, NEW c \in Clients,
         NEW admitted \in BOOLEAN, Limits(r, c, admitted), NEW d \in Clients, NEW b \in Int
  PROVE  /\ Extra(d, b) \in Int /\ Extra(d, b)' \in Int /\ faults \in Nat
         /\ faults' \in {faults, faults + 1}
         /\ d # c \/ b # now \div Window => Extra(d, b)' <= Extra(d, b)
         /\ Extra(d, b)' <= Extra(d, b) + (faults' - faults)
<1> DEFINE h == [request |-> r, client |-> c, time |-> now]
           own == d = c /\ b = now \div Window
           S == InBucket(d, b)
           T == InBucket(d, b)'
           s == Cardinality(S)
           t == Cardinality(T)
           x == Tally(d, b)
           y == Tally(d, b)'
<1>1. /\ now \in Nat /\ faults \in Nat /\ IsFiniteSet(hits)
      /\ \A k \in DOMAIN counters : counters[k] \in Nat
      /\ hits' = IF admitted THEN hits \cup {h} ELSE hits
  BY DEF TypeInv, RateInv, HitsInv, CountsInv, Limits
<1>2. Limit \in Nat /\ Limit >= 1 BY LimitsAssumption
<1>3. x \in Nat BY <1>1 DEF Tally
<1>4. IsFiniteSet(S) BY <1>1, FS_Subset DEF InBucket
<1>5. T \subseteq S \cup {h} BY <1>1 DEF InBucket
<1>6. /\ s \in Nat /\ t \in Nat /\ t <= s + 1 /\ (T \subseteq S => t <= s)
  <2> HIDE DEF S, T, h
  <2> QED BY <1>4, <1>5, OneMore
<1>7. ~own \/ ~admitted => t <= s
  <2>1. ~own \/ ~admitted => T \subseteq S BY <1>1 DEF InBucket
  <2> QED BY <2>1, <1>6
<1>8. /\ counters' = counters => y = x
      /\ counters' = CountInRedis(counters, c, now) => y = IF own THEN x + 1 ELSE x
  BY <1>1 DEF Tally, CountInRedis, With, Bucket
<1>9. \/ /\ counters' = CountInRedis(counters, c, now) /\ faults' = faults
         /\ admitted = (counters'[Bucket(c, now)] <= Limit)
      \/ /\ counters' \in {counters, CountInRedis(counters, c, now)}
         /\ faults' = faults + 1
  BY DEF Limits, Admits
<1>10. counters' = CountInRedis(counters, c, now) /\ own => counters'[Bucket(c, now)] = y
  BY DEF CountInRedis, With, Bucket, Tally
<1>11. /\ Extra(d, b) = s - Least(x, Limit) /\ Extra(d, b)' = t - Least(y, Limit)
  BY DEF Extra, Least
<1> HIDE DEF s, t, x, y
<1>12. y \in {x, x + 1} /\ (~own => y = x) BY <1>3, <1>8, <1>9
<1>13. /\ Least(x, Limit) \in Nat /\ Least(y, Limit) \in Nat
       /\ Least(x, Limit) <= Least(y, Limit)
       /\ y = x + 1 /\ y <= Limit => Least(y, Limit) = Least(x, Limit) + 1
  BY <1>2, <1>3, <1>12 DEF Least
<1>14. CASE ~own BY <1>1, <1>6, <1>7, <1>9, <1>11, <1>12, <1>13, <1>14
<1>15. CASE own /\ faults' = faults + 1
  BY <1>1, <1>6, <1>11, <1>13, <1>15
<1>16. CASE own /\ faults' = faults
  <2>1. /\ y = x + 1 /\ admitted = (y <= Limit)
    BY <1>1, <1>8, <1>9, <1>10, <1>16
  <2>2. CASE admitted
    <3>1. y <= Limit BY <2>1, <2>2
    <3>2. Least(y, Limit) = Least(x, Limit) + 1 BY <2>1, <3>1, <1>13
    <3>3. Extra(d, b)' <= Extra(d, b) BY <3>2, <1>6, <1>11, <1>13
    <3> QED BY <3>3, <1>1, <1>6, <1>11, <1>13, <1>16
  <2>3. CASE ~admitted BY <2>3, <1>1, <1>6, <1>7, <1>11, <1>13, <1>16
  <2> QED BY <2>2, <2>3
<1> QED BY <1>9, <1>14, <1>15, <1>16

LEMMA RedisKept ==
  ASSUME TypeInv, RateInv, settings.redis, NEW r \in Requests, NEW c \in Clients,
         NEW admitted \in BOOLEAN, Limits(r, c, admitted)
  PROVE  RedisInv'
<1> SUFFICES ASSUME NEW d \in Clients, NEW b \in Int, NEW e \in Int, b # e
             PROVE  /\ Extra(d, b)' <= faults'
                    /\ Extra(d, b)' + Extra(d, e)' <= faults'
  BY DEF RedisInv
<1>1. /\ Extra(d, b) <= faults /\ Extra(d, b) + Extra(d, e) <= faults
  BY DEF RateInv, RedisInv
<1> DEFINE own(i) == d = c /\ i = now \div Window
<1>2. /\ Extra(d, b) \in Int /\ Extra(d, b)' \in Int /\ faults \in Nat
      /\ faults' \in {faults, faults + 1}
      /\ ~own(b) => Extra(d, b)' <= Extra(d, b)
      /\ Extra(d, b)' <= Extra(d, b) + (faults' - faults)
  BY ExtraGrows
<1>3. /\ Extra(d, e) \in Int /\ Extra(d, e)' \in Int
      /\ ~own(e) => Extra(d, e)' <= Extra(d, e)
      /\ Extra(d, e)' <= Extra(d, e) + (faults' - faults)
  BY ExtraGrows
<1>4. ~own(b) \/ ~own(e) OBVIOUS
<1> QED BY <1>1, <1>2, <1>3, <1>4

LEMMA RatesKept ==
  ASSUME TypeInv, RateInv, [Next]_vars
  PROVE  RateInv'
<1>0. /\ now \in Nat /\ restarts \in Nat /\ faults \in Nat
      /\ Limit \in Nat /\ Window \in Nat /\ Limit >= 1 /\ Window >= 1
  BY LimitsAssumption DEF TypeInv
<1>1. ASSUME NEW r \in Requests, Ask(r) PROVE RateInv'
  <2>1. PICK c \in Clients, admitted \in BOOLEAN : Limits(r, c, admitted)
    BY <1>1, AskLimits
  <2>2. HitsInv /\ CountsInv BY DEF RateInv
  <2>3. HitsInv' BY <2>1, <2>2, HitsAreKept
  <2>4. CountsInv' BY <2>1, <2>2, CountsAreKept
  <2>5. settings' = settings BY <2>1 DEF Limits
  <2>6. ~settings.redis => MemoryInv' BY <2>1, MemoryKept
  <2>7. ~settings.redis => InWindowBound'
    BY <2>1, <2>3, <2>4, <2>6, WindowsAreKept
  <2>8. settings.redis => RedisInv' BY <2>1, RedisKept
  <2> QED BY <2>3, <2>4, <2>5, <2>6, <2>7, <2>8 DEF RateInv
<1>2. CASE UNCHANGED <<limiter, settings, now, restarts, faults>>
  <2>1. UNCHANGED <<windows, counters, hits, settings, now, restarts, faults>>
    BY <1>2 DEF limiter
  <2>2. HitsInv' /\ CountsInv' BY <2>1 DEF RateInv, HitsInv, CountsInv
  <2>3. MemoryInv => MemoryInv' BY <2>1 DEF MemoryInv, Since, Base
  <2>4. InWindowBound => InWindowBound' BY <2>1 DEF InWindowBound, InWindow, Base
  <2>5. RedisInv => RedisInv' BY <2>1 DEF RedisInv, Extra, InBucket, Tally
  <2> QED BY <2>1, <2>2, <2>3, <2>4, <2>5 DEF RateInv
<1>3. CASE Tick
  <2>1. /\ UNCHANGED <<windows, counters, hits, settings, restarts, faults>>
        /\ now' = now + 1
    BY <1>3 DEF Tick, limiter
  <2>2. HitsInv'
    <3>1. \A h \in hits : h.time \in Nat /\ h.time <= now BY DEF RateInv, HitsInv
    <3>2. \A h \in hits : h.time <= now + 1 BY <3>1, <1>0
    <3> QED BY <2>1, <3>2 DEF RateInv, HitsInv
  <2>3. CountsInv'
    <3>1. \A c \in DOMAIN windows : windows[c].start \in Nat /\ windows[c].start <= now
      BY DEF RateInv, CountsInv
    <3>2. \A c \in DOMAIN windows : windows[c].start <= now + 1 BY <3>1, <1>0
    <3> QED BY <2>1, <3>2 DEF RateInv, CountsInv
  <2>4. MemoryInv => MemoryInv'
    <3>1. \A a \in Int : a > (now + 1) - Window => a > now - Window BY <1>0
    <3> QED BY <2>1, <3>1 DEF MemoryInv, Since, Base
  <2>5. InWindowBound => InWindowBound' BY <2>1 DEF InWindowBound, InWindow, Base
  <2>6. RedisInv => RedisInv' BY <2>1 DEF RedisInv, Extra, InBucket, Tally
  <2> QED BY <2>1, <2>2, <2>3, <2>4, <2>5, <2>6 DEF RateInv
<1>4. CASE Restart
  <2>1. /\ UNCHANGED <<counters, hits, settings, now, faults>>
        /\ restarts' = restarts + 1 /\ DOMAIN windows' = {}
    BY <1>4 DEF Restart
  <2>2. HitsInv' BY <2>1 DEF RateInv, HitsInv
  <2>3. CountsInv' BY <2>1 DEF RateInv, CountsInv
  <2>4. /\ Base(restarts) \in Nat /\ Base(restarts)' = Base(restarts) + Limit
        /\ Base(restarts) >= Limit
    BY <2>1, <1>0, BaseIs DEF Base
  <2>5. MemoryInv => MemoryInv'
    <3> SUFFICES ASSUME MemoryInv, NEW c \in Clients, NEW a \in Int, a > now - Window
                 PROVE  Cardinality(Since(c, a)) <= Base(restarts) + Limit - 1
      <4>1. \A c \in Clients, a \in Int : Since(c, a)' = Since(c, a) BY <2>1 DEF Since
      <4>2. Base(restarts)' - 1 = Base(restarts) + Limit - 1 BY <2>4, <1>0
      <4> QED BY <2>1, <4>1, <4>2 DEF MemoryInv
    <3> DEFINE n == Cardinality(Since(c, a))
    <3>1. IsFiniteSet(Since(c, a)) BY FS_Subset DEF Since, RateInv, HitsInv
    <3>2. n \in Nat BY <3>1, FS_CardinalityType
    <3>3. IF c \in DOMAIN windows THEN n <= Base(restarts) - 1 + Least(windows[c].count, Limit)
          ELSE n <= Base(restarts) - 1
      BY DEF MemoryInv
    <3>4. c \in DOMAIN windows => windows[c].count \in Nat BY DEF RateInv, CountsInv
    <3>5. c \in DOMAIN windows =>
            Least(windows[c].count, Limit) \in Nat /\ Least(windows[c].count, Limit) <= Limit
      BY <3>4, <1>0 DEF Least
    <3> HIDE DEF n
    <3>6. n <= Base(restarts) + Limit - 1 BY <3>2, <3>3, <3>5, <2>4, <1>0
    <3> QED BY <3>6 DEF n
  <2>6. InWindowBound => InWindowBound'
    <3> SUFFICES ASSUME InWindowBound, NEW c \in Clients, NEW t \in Int
                 PROVE  InWindow(c, t) <= Base(restarts) + Limit + Limit - 1
      BY <2>1, <2>4 DEF InWindowBound, InWindow
    <3>1. IsFiniteSet({h \in hits : h.client = c /\ h.time > t - Window /\ h.time <= t})
      BY FS_Subset DEF RateInv, HitsInv
    <3>2. InWindow(c, t) \in Nat BY <3>1, FS_CardinalityType DEF InWindow
    <3>3. InWindow(c, t) <= Base(restarts) + Limit - 1 BY DEF InWindowBound
    <3> QED BY <3>2, <3>3, <2>4, <1>0
  <2>7. RedisInv => RedisInv' BY <2>1 DEF RedisInv, Extra, InBucket, Tally
  <2> QED BY <2>1, <2>2, <2>3, <2>5, <2>6, <2>7 DEF RateInv
<1>5. ASSUME NEW r \in Requests, Judge(r)
      PROVE  UNCHANGED <<limiter, settings, now, restarts, faults>>
  BY <1>5, JudgeDoes DEF Judged, Moves
<1>6. OtherEvent => UNCHANGED <<limiter, settings, now, restarts, faults>>
  BY DEF OtherEvent
<1>7. UNCHANGED vars => UNCHANGED <<limiter, settings, now, restarts, faults>>
  BY DEF vars
<1> QED BY <1>1, <1>2, <1>3, <1>4, <1>5, <1>6, <1>7 DEF Next

LEMMA InitRates == Init => RateInv
<1> SUFFICES ASSUME Init PROVE RateInv OBVIOUS
<1>1. /\ hits = {} /\ DOMAIN windows = {} /\ DOMAIN counters = {}
      /\ now = 0 /\ restarts = 0 /\ faults = 0
  BY DEF Init
<1>2. Limit \in Nat /\ Limit >= 1 /\ Base(0) \in Nat /\ Base(0) >= Limit
  BY BaseIs
<1>3. HitsInv /\ CountsInv BY <1>1, FS_EmptySet DEF HitsInv, CountsInv
<1>4. MemoryInv
  <2> SUFFICES ASSUME NEW c \in Clients, NEW a \in Int
               PROVE  Cardinality(Since(c, a)) <= Base(0) - 1
    BY <1>1 DEF MemoryInv
  <2>1. Since(c, a) = {} BY <1>1 DEF Since
  <2>2. Cardinality(Since(c, a)) = 0 BY <2>1, FS_EmptySet
  <2> QED BY <2>2, <1>2
<1>5. InWindowBound
  <2> SUFFICES ASSUME NEW c \in Clients, NEW t \in Int
               PROVE  InWindow(c, t) <= Base(0) + Limit - 1
    BY <1>1 DEF InWindowBound
  <2>1. {h \in hits : h.client = c /\ h.time > t - Window /\ h.time <= t} = {} BY <1>1
  <2>2. InWindow(c, t) = 0 BY <2>1, FS_EmptySet DEF InWindow
  <2> QED BY <2>2, <1>2
<1>6. RedisInv
  <2>1. ASSUME NEW c \in Clients, NEW b \in Int PROVE Extra(c, b) = 0
    <3>1. InBucket(c, b) = {} BY <1>1 DEF InBucket
    <3>2. Cardinality(InBucket(c, b)) = 0 BY <3>1, FS_EmptySet
    <3>3. Least(Tally(c, b), Limit) = 0 BY <1>1, <1>2 DEF Tally, Least
    <3> QED BY <3>2, <3>3 DEF Extra
  <2> QED BY <2>1, <1>1 DEF RedisInv
<1> QED BY <1>3, <1>4, <1>5, <1>6 DEF RateInv

\* A client is let in at most twice the limit within a window's time, once less
\* in memory; the restarts that forget the windows and the calls that Redis
\* failed come on top: for any limit, window, pruning and interleaving of the
\* clients (ratelimit.py:30-75).
THEOREM RatesAreBounded == Spec => []RateHolds
<1>1. TypeInv /\ RateInv /\ [Next]_vars => RateInv' BY RatesKept
<1>2. TypeInv /\ RateInv => RateHolds
  <2> SUFFICES ASSUME TypeInv, RateInv, NEW c \in Clients, NEW t \in 0 .. MaxTime
               PROVE  InWindow(c, t) <= IF settings.redis THEN 2 * Limit + faults
                                                          ELSE (2 + restarts) * Limit - 1
    BY DEF RateHolds
  <2>0. t \in Nat /\ restarts \in Nat /\ faults \in Nat BY DEF TypeInv
  <2>1. t \in Nat /\ restarts \in Nat /\ faults \in Nat
        /\ (2 + restarts) * Limit = Base(restarts) + Limit
        /\ Limit \in Nat /\ Base(restarts) \in Nat
    BY <2>0, BaseIs
  <2>2. CASE ~settings.redis
    <3>1. InWindow(c, t) <= Base(restarts) + Limit - 1
      BY <2>1, <2>2 DEF RateInv, InWindowBound
    <3>2. Base(restarts) + Limit - 1 = (2 + restarts) * Limit - 1 BY <2>1
    <3>3. InWindow(c, t) <= (2 + restarts) * Limit - 1 BY <3>1, <3>2
    <3> QED BY <2>2, <3>3
  <2>3. CASE settings.redis
    <3> DEFINE b == t \div Window
               In == {h \in hits : h.client = c /\ h.time > t - Window /\ h.time <= t}
               S == InBucket(c, b)
               T == InBucket(c, b - 1)
    <3>1. b \in Nat BY <2>1, LimitsAssumption, NeighbouringBuckets
    <3>2. In \subseteq S \cup T
      <4> SUFFICES ASSUME NEW h \in In PROVE h \in S \cup T OBVIOUS
      <4>1. h \in hits /\ h.client = c /\ h.time \in Nat /\ h.time > t - Window /\ h.time <= t
        BY DEF RateInv, HitsInv
      <4>2. h.time \div Window \in {b, b - 1} BY <4>1, <2>1, NeighbouringBuckets
      <4> QED BY <4>1, <4>2 DEF InBucket
    <3>3. IsFiniteSet(S) /\ IsFiniteSet(T) BY FS_Subset DEF InBucket, RateInv, HitsInv
    <3> HIDE DEF S, T, In
    <3>4. /\ IsFiniteSet(S \cup T) /\ IsFiniteSet(S \cap T)
          /\ Cardinality(S \cup T) = Cardinality(S) + Cardinality(T) - Cardinality(S \cap T)
      BY <3>3, FS_Union, FS_Intersection
    <3>5. IsFiniteSet(In) /\ Cardinality(In) <= Cardinality(S \cup T)
      BY <3>2, <3>4, FS_Subset
    <3>6. {Cardinality(In), Cardinality(S), Cardinality(T), Cardinality(S \cup T),
           Cardinality(S \cap T)} \subseteq Nat
      BY <3>3, <3>4, <3>5, FS_CardinalityType
    <3>7. Extra(c, b) + Extra(c, b - 1) <= faults
      <4>1. b \in Int /\ b - 1 \in Int /\ b # b - 1 BY <3>1
      <4> QED BY <4>1, <2>3 DEF RateInv, RedisInv
    <3>8. /\ Least(Tally(c, b), Limit) \in 0 .. Limit
          /\ Least(Tally(c, b - 1), Limit) \in 0 .. Limit
      <4>1. Tally(c, b) \in Nat /\ Tally(c, b - 1) \in Nat
        BY DEF RateInv, CountsInv, Tally
      <4> QED BY <4>1, <2>1 DEF Least
    <3>9. /\ Extra(c, b) = Cardinality(S) - Least(Tally(c, b), Limit)
          /\ Extra(c, b - 1) = Cardinality(T) - Least(Tally(c, b - 1), Limit)
      BY DEF Extra, S, T
    <3>10. Cardinality(In) <= 2 * Limit + faults
      BY <2>1, <3>4, <3>5, <3>6, <3>7, <3>8, <3>9
    <3> QED BY <2>3, <3>10 DEF In, InWindow
  <2> QED BY <2>2, <2>3
<1> QED BY <1>1, <1>2, InitRates, TypedTrail, PTL DEF Spec
=============================================================================
