------------------------------ MODULE LogProofs ------------------------------
(* RotatingLog and LogForwarder, for any limits, entries, events and        *)
(* writers: wherever appends and rotations are interrupted the files stay   *)
(* bounded and in order, what is lost is the oldest, the events keep their  *)
(* order, and a writer that was cleared is used once more at most.          *)
EXTENDS LogForwarder, SequenceTheorems, TLAPS

----------------------------------------------------------------------------
(* Files.                                                                  *)

\* A file that got an entry.
LEMMA FileAppended ==
  ASSUME NEW S, NEW f \in Seq(S), NEW e \in S
  PROVE  /\ Append(f, e) \in Seq(S) /\ Append(f, e) # << >>
         /\ Len(f) \in Nat /\ DOMAIN f = 1 .. Len(f)
         /\ Len(Append(f, e)) = Len(f) + 1 /\ Append(f, e)[Len(f) + 1] = e
         /\ DOMAIN Append(f, e) = 1 .. (Len(f) + 1)
         /\ \A i \in DOMAIN f : Append(f, e)[i] = f[i]
         /\ \A i \in DOMAIN Append(f, e) : i \in DOMAIN f \/ i = Len(f) + 1
BY AppendProperties, LenProperties

LEMMA EmptyFile ==
  /\ << >> \in Seq(Entry) /\ Length(<< >>) = 0
  /\ DOMAIN << >> = {} /\ Ids(<< >>) = {}
BY DEF Length, Ids

\* The length of a file is a number, and it grows by what is written.
LEMMA LengthType ==
  ASSUME NEW f \in Seq(Entry)
  PROVE  Length(f) \in Nat
<1>1. f # << >> => Len(f) \in DOMAIN f
      BY EmptySeq, LenProperties
<1>2. f # << >> => f[Len(f)] \in Entry
      BY <1>1
<1>3. QED BY <1>2 DEF Length, Entry

LEMMA LengthAppended ==
  ASSUME NEW f \in Seq(Entry), NEW e \in Entry
  PROVE  /\ Append(f, e) \in Seq(Entry)
         /\ Length(Append(f, e)) = e.end
         /\ Ids(Append(f, e)) = Ids(f) \cup {e.id}
<1>1. Length(Append(f, e)) = e.end
      BY FileAppended DEF Length
<1>2. \A d : d \in Ids(Append(f, e)) <=> d \in Ids(f) \cup {e.id}
  <2>1. /\ Len(f) \in Nat /\ DOMAIN f = 1 .. Len(f)
        /\ DOMAIN Append(f, e) = 1 .. (Len(f) + 1)
        /\ \A i \in DOMAIN f : i \in DOMAIN Append(f, e) /\ Append(f, e)[i] = f[i]
        /\ Len(f) + 1 \in DOMAIN Append(f, e) /\ Append(f, e)[Len(f) + 1] = e
        /\ \A i \in DOMAIN Append(f, e) : i \in DOMAIN f \/ i = Len(f) + 1
        BY FileAppended
  <2>2. QED BY <2>1 DEF Ids
<1>3. QED BY <1>1, <1>2, FileAppended

----------------------------------------------------------------------------
(* The rotating log.                                                       *)

LogTyping ==
  /\ files \in [File -> Seq(Entry)]
  /\ entries \in 0 .. MaxEntry
  /\ size \in 0 .. MaxFileBytes
  /\ step \in {"idle", "expire", "move", "write"}
  /\ slot \in Kept

\* Where append is says what it has found and done.
Rotating ==
  /\ step \in {"expire", "move"} => files[0] # << >>
  /\ step = "move" =>
       /\ slot # 0 /\ files[MaxFileCount] = << >>
       /\ slot < MaxFileCount - 1 => files[slot] = << >>
  /\ step = "write" => Length(files[0]) + size <= MaxFileBytes

\* The entry that is appended is newer than all that are there.
Fresh ==
  \A k \in File : \A d \in Ids(files[k]) :
    d \in Nat /\ d <= entries /\ (step # "idle" => d < entries)

LogInv == LogTyping /\ Rotating /\ Fresh /\ FilesBounded /\ ReadsInOrder

LEMMA Numbers ==
  /\ MaxFileBytes \in Nat \ {0} /\ MaxFileCount \in Nat \ {0} /\ MaxEntry \in Nat
  /\ 0 \in File /\ MaxFileCount \in File /\ 0 \in Kept /\ MaxFileCount - 1 \in Kept
  /\ \A k \in Kept : k \in File /\ k \in Nat /\ k < MaxFileCount
  /\ \A k \in File : k \in Nat /\ k <= MaxFileCount
  /\ \A k \in 1 .. MaxFileCount - 1 : k \in Kept /\ k - 1 \in Kept /\ k - 1 # k
BY LogAssumption DEF File, Kept

LEMMA LogInit == Init => LogInv
<1> SUFFICES ASSUME Init PROVE LogInv
    OBVIOUS
<1> USE Numbers
<1> DEFINE first == [id |-> 0, end |-> MaxFileBytes]
<1>1. first \in Entry /\ <<first>> \in Seq(Entry)
  <2>1. first \in Entry
        BY DEF Entry
  <2>2. QED BY <2>1
<1>2. \A k \in File : files[k] = << >> \/ (k = MaxFileCount /\ files[k] = <<first>>)
      BY DEF Init
<1>3. files \in [File -> Seq(Entry)]
      BY <1>1, EmptyFile DEF Init
<1>4. LogTyping
      BY <1>3 DEF Init, LogTyping
<1>5. Length(<<first>>) = MaxFileBytes /\ Ids(<<first>>) = {0} /\ DOMAIN <<first>> = {1}
      BY DEF Length, Ids
<1> HIDE DEF first
<1>6. FilesBounded
  <2> SUFFICES ASSUME NEW k \in File PROVE Length(files[k]) <= MaxFileBytes
      BY DEF FilesBounded
  <2>1. CASE files[k] = << >>
        BY <2>1, EmptyFile
  <2>2. CASE files[k] = <<first>>
        BY <1>5, <2>2
  <2>3. QED BY <1>2, <2>1, <2>2
<1>7. Fresh /\ Rotating
      BY <1>2, <1>5, EmptyFile DEF Init, Fresh, Rotating
<1>8. ReadsInOrder
  <2>1. \A k \in File : \A i, j \in DOMAIN files[k] : ~(i < j)
    <3>1. \A k \in File : \A i \in DOMAIN files[k] : i = 1
          BY <1>2, <1>5, EmptyFile
    <3>2. QED BY <3>1
  <2>2. \A k, m \in File : k < m => Ids(files[k]) = {}
    <3>1. \A k, m \in File : k < m => k # MaxFileCount
          OBVIOUS
    <3>2. QED BY <1>2, <3>1, EmptyFile
  <2>3. QED BY <2>1, <2>2 DEF ReadsInOrder
<1>9. QED BY <1>4, <1>6, <1>7, <1>8 DEF LogInv

\* Files that are dropped, or moved to an older place, stay bounded and in order.
LEMMA FewerFiles ==
  ASSUME LogInv, files' \in [File -> Seq(Entry)], UNCHANGED entries,
         step' # "idle" => step # "idle",
         NEW from \in [File -> File],
         \A k \in File : files'[k] = << >> \/ files'[k] = files[from[k]],
         \A k, m \in File :
           k < m /\ files'[k] # << >> /\ files'[m] # << >> => from[k] < from[m]
  PROVE  FilesBounded' /\ ReadsInOrder' /\ Fresh'
<1>1. FilesBounded'
  <2> SUFFICES ASSUME NEW k \in File PROVE Length(files'[k]) <= MaxFileBytes
      BY DEF FilesBounded
  <2>1. CASE files'[k] = << >>
        BY <2>1, EmptyFile, Numbers
  <2>2. CASE files'[k] = files[from[k]]
        BY <2>2 DEF LogInv, FilesBounded
  <2>3. QED BY <2>1, <2>2
<1>2. Fresh'
      BY EmptyFile DEF LogInv, Fresh
<1>3. \A k \in File : \A i, j \in DOMAIN files'[k] : i < j => files'[k][i].id < files'[k][j].id
  <2> SUFFICES ASSUME NEW k \in File, NEW i \in DOMAIN files'[k], NEW j \in DOMAIN files'[k],
                      i < j
               PROVE  files'[k][i].id < files'[k][j].id
      OBVIOUS
  <2>1. files'[k] # << >>
        OBVIOUS
  <2>2. QED BY <2>1 DEF LogInv, ReadsInOrder
<1>4. \A k, m \in File : k < m => \A e \in Ids(files'[k]), d \in Ids(files'[m]) : d < e
      BY EmptyFile DEF LogInv, ReadsInOrder
<1>5. QED BY <1>1, <1>2, <1>3, <1>4 DEF ReadsInOrder


LEMMA FilesStay ==
  ASSUME LogInv, UNCHANGED <<files, entries>>, step' # "idle" => step # "idle"
  PROVE  FilesBounded' /\ ReadsInOrder' /\ Fresh'
BY DEF LogInv, FilesBounded, ReadsInOrder, Fresh

LEMMA AppendEntryStep ==
  ASSUME LogInv, NEW n \in 1 .. MaxFileBytes, AppendEntry(n)
  PROVE  LogInv'
<1> USE Numbers
<1>1. LogTyping'
      BY DEF LogInv, LogTyping, AppendEntry
<1>2. Length(files[0]) \in Nat /\ Length(files[0]) <= MaxFileBytes
      BY LengthType DEF LogInv, LogTyping, FilesBounded
<1>3. ~ShouldRotate(n) => Length(files[0]) + n <= MaxFileBytes
      BY <1>2, EmptyFile DEF ShouldRotate
<1>4. Rotating'
      BY <1>3 DEF AppendEntry, Rotating, ShouldRotate
<1>5. Fresh'
  <2>1. entries \in Nat /\ entries' = entries + 1 /\ files' = files
        BY DEF LogInv, LogTyping, AppendEntry
  <2> SUFFICES ASSUME NEW k \in File, NEW d \in Ids(files[k])
               PROVE  d \in Nat /\ d <= entries' /\ (step' # "idle" => d < entries')
      BY <2>1 DEF Fresh, Ids
  <2>2. d \in Nat /\ d <= entries
        BY DEF LogInv, Fresh
  <2>3. QED BY <2>1, <2>2
<1>6. FilesBounded' /\ ReadsInOrder'
      BY DEF LogInv, AppendEntry, FilesBounded, ReadsInOrder
<1>7. QED BY <1>1, <1>4, <1>5, <1>6 DEF LogInv

LEMMA WriteStep ==
  ASSUME LogInv, NEW n \in 1 .. MaxFileBytes, Write(n)
  PROVE  LogInv'
<1> USE Numbers
<1> DEFINE f == files[0]
           e == [id |-> entries, end |-> Length(f) + n]
<1>1. f \in Seq(Entry) /\ Length(f) \in Nat /\ entries \in 0 .. MaxEntry /\ size \in Nat
      BY LengthType DEF LogInv, LogTyping
<1>2. e \in Entry /\ e.id = entries /\ e.end = Length(f) + n
      BY <1>1 DEF Entry
<1>3. files' = [files EXCEPT ![0] = Append(f, e)]
      BY DEF Write
<1> HIDE DEF e
<1>4. files'[0] = Append(f, e) /\ \A k \in File : k # 0 => files'[k] = files[k]
      BY <1>3 DEF LogInv, LogTyping
<1>5. /\ Append(f, e) \in Seq(Entry) /\ Length(Append(f, e)) = Length(f) + n
      /\ Ids(Append(f, e)) = Ids(f) \cup {entries}
      BY <1>1, <1>2, LengthAppended
<1>6. LogTyping'
      BY <1>3, <1>5 DEF LogInv, LogTyping, Write
<1>7. step = "write" /\ step' = "idle" /\ n <= size /\ entries' = entries
      BY DEF Write
<1>8. Length(f) + n <= MaxFileBytes
      BY <1>1, <1>7 DEF LogInv, Rotating
<1>9. FilesBounded'
      BY <1>4, <1>5, <1>8 DEF LogInv, FilesBounded
<1>10. Rotating'
      BY <1>7 DEF Rotating
<1>11. \A k \in File : \A d \in Ids(files[k]) : d \in Nat /\ d < entries
      BY <1>7 DEF LogInv, Fresh
<1>12. Fresh'
  <2> SUFFICES ASSUME NEW k \in File, NEW d \in Ids(files'[k])
               PROVE  d \in Nat /\ d <= entries' /\ (step' # "idle" => d < entries')
      BY DEF Fresh, Ids
  <2>1. d \in Ids(files[k]) \/ d = entries
        BY <1>4, <1>5
  <2>2. entries \in Nat
        BY <1>1
  <2>3. CASE d \in Ids(files[k])
    <3>1. d \in Nat /\ d < entries
          BY <1>11, <2>3
    <3>2. QED BY <1>7, <2>2, <3>1
  <2>4. CASE d = entries
        BY <1>7, <2>2, <2>4
  <2>5. QED BY <2>1, <2>3, <2>4
<1>13. \A k \in File : \A i, j \in DOMAIN files'[k] : i < j => files'[k][i].id < files'[k][j].id
  <2> SUFFICES ASSUME NEW i \in DOMAIN files'[0], NEW j \in DOMAIN files'[0], i < j
               PROVE  files'[0][i].id < files'[0][j].id
      BY <1>4 DEF LogInv, ReadsInOrder
  <2>1. /\ DOMAIN f = 1 .. Len(f) /\ Len(f) \in Nat
        /\ DOMAIN files'[0] = 1 .. (Len(f) + 1) /\ files'[0][Len(f) + 1] = e
        /\ \A k \in DOMAIN f : files'[0][k] = f[k]
        BY <1>1, <1>2, <1>4, FileAppended
  <2>2. i \in DOMAIN f
        BY <2>1
  <2>3. CASE j \in DOMAIN f
        BY <2>1, <2>2, <2>3 DEF LogInv, ReadsInOrder
  <2>4. CASE j = Len(f) + 1
    <3>1. f[i].id \in Ids(f)
          BY <2>2 DEF Ids
    <3>2. QED BY <1>2, <1>11, <2>1, <2>2, <2>4, <3>1
  <2>5. QED BY <2>1, <2>3, <2>4
<1>14. \A k, m \in File : k < m => \A d \in Ids(files'[k]), c \in Ids(files'[m]) : c < d
  <2> SUFFICES ASSUME NEW k \in File, NEW m \in File, k < m,
                      NEW d \in Ids(files'[k]), NEW c \in Ids(files'[m])
               PROVE  c < d
      OBVIOUS
  <2>1. m # 0 /\ c \in Ids(files[m])
        BY <1>4
  <2>2. CASE d \in Ids(files[k])
        BY <2>1, <2>2 DEF LogInv, ReadsInOrder
  <2>3. CASE d = entries
        BY <1>11, <2>1, <2>3
  <2>4. QED BY <1>4, <1>5, <2>2, <2>3
<1>15. QED BY <1>6, <1>9, <1>10, <1>12, <1>13, <1>14 DEF LogInv, ReadsInOrder

LEMMA RemoveExpiredStep == ASSUME LogInv, RemoveExpired PROVE LogInv'
<1> USE Numbers
<1> DEFINE gone(k) == k >= MaxFileCount \/ MaxFileCount = 1
<1>1. /\ step = "expire" /\ UNCHANGED <<entries, size>>
      /\ files' = [k \in File |-> IF gone(k) THEN << >> ELSE files[k]]
      /\ slot' = MaxFileCount - 1
      /\ step' = IF MaxFileCount = 1 THEN "write" ELSE "move"
      BY DEF RemoveExpired, MoveOrWrite
<1>2. files' \in [File -> Seq(Entry)]
      BY <1>1, EmptyFile DEF LogInv, LogTyping
<1>3. LogTyping'
      BY <1>1, <1>2 DEF LogInv, LogTyping
<1>4. \A k \in File : files'[k] = << >> \/ files'[k] = files[k]
      BY <1>1
<1>5. FilesBounded' /\ ReadsInOrder' /\ Fresh'
  <2> DEFINE from == [k \in File |-> k]
  <2>1. from \in [File -> File] /\ \A k \in File : from[k] = k
        OBVIOUS
  <2> HIDE DEF from
  <2>2. QED BY <1>1, <1>2, <1>4, <2>1, FewerFiles
<1>6. Rotating'
  <2>1. CASE MaxFileCount = 1
    <3>1. files'[0] = << >> /\ step' = "write"
          BY <1>1, <2>1
    <3>2. QED BY <1>3, <3>1, EmptyFile DEF Rotating, LogTyping
  <2>2. CASE MaxFileCount # 1
    <3>1. files'[0] = files[0] /\ files'[MaxFileCount] = << >> /\ step' = "move"
          BY <1>1, <2>2
    <3>2. QED BY <1>1, <2>2, <3>1 DEF LogInv, Rotating
  <2>3. QED BY <2>1, <2>2
<1>7. QED BY <1>3, <1>5, <1>6 DEF LogInv

\* What a move does to the files.
LEMMA MoveFiles ==
  ASSUME LogInv, NEW k \in 1 .. MaxFileCount - 1, Move(k)
  PROVE  /\ files' \in [File -> Seq(Entry)]
         /\ k \in Kept /\ k - 1 \in Kept /\ k # k - 1
         /\ files'[k - 1] = << >>
         /\ files'[k] = IF files[k - 1] = << >> THEN files[k] ELSE files[k - 1]
         /\ \A m \in File \ {k, k - 1} : files'[m] = files[m]
<1> USE Numbers
<1>1. files \in [File -> Seq(Entry)] /\ k \in File /\ k - 1 \in File /\ k # k - 1
      BY DEF LogInv, LogTyping
<1>2. CASE files[k - 1] = << >>
      BY <1>1, <1>2 DEF Move
<1>3. CASE files[k - 1] # << >>
  <2>1. files' = [files EXCEPT ![k] = files[k - 1], ![k - 1] = << >>]
        BY <1>3 DEF Move
  <2>2. QED BY <1>1, <1>3, <2>1, EmptyFile
<1>4. QED BY <1>2, <1>3

LEMMA MoveStep ==
  ASSUME LogInv, NEW k \in 1 .. MaxFileCount - 1, Move(k)
  PROVE  LogInv'
<1> USE Numbers, MoveFiles
<1>1. /\ step = "move" /\ slot = k /\ UNCHANGED <<entries, size>>
      /\ slot' = k - 1 /\ step' = IF k - 1 = 0 THEN "write" ELSE "move"
      BY DEF Move, MoveOrWrite
<1>2. LogTyping'
      BY <1>1 DEF LogInv, LogTyping
<1>3. FilesBounded' /\ ReadsInOrder' /\ Fresh'
  <2> DEFINE from == [m \in File |-> IF m = k /\ files[k - 1] # << >> THEN k - 1 ELSE m]
  <2>1. from \in [File -> File]
        OBVIOUS
  <2>2. \A m \in File : from[m] = IF m = k /\ files[k - 1] # << >> THEN k - 1 ELSE m
        OBVIOUS
  <2> HIDE DEF from
  <2>3. \A m \in File : files'[m] = << >> \/ files'[m] = files[from[m]]
    <3> SUFFICES ASSUME NEW m \in File
                 PROVE  files'[m] = << >> \/ files'[m] = files[from[m]]
        OBVIOUS
    <3>1. CASE m = k
      <4>1. files'[m] = IF files[k - 1] = << >> THEN files[m] ELSE files[k - 1]
            BY <3>1
      <4>2. from[m] = IF files[k - 1] = << >> THEN m ELSE k - 1
            BY <2>2, <3>1
      <4>3. QED BY <4>1, <4>2
    <3>2. CASE m = k - 1
          BY <3>2
    <3>3. CASE m \notin {k, k - 1}
      <4>1. files'[m] = files[m]
            BY <3>3
      <4>2. from[m] = m
            BY <2>2, <3>3
      <4>3. QED BY <4>1, <4>2
    <3>4. QED BY <3>1, <3>2, <3>3
  <2>4. \A l, m \in File :
          l < m /\ files'[l] # << >> /\ files'[m] # << >> => from[l] < from[m]
    <3> SUFFICES ASSUME NEW l \in File, NEW m \in File, l < m,
                        files'[l] # << >>, files'[m] # << >>
                 PROVE  from[l] < from[m]
        OBVIOUS
    <3>1. l # k - 1 /\ m # k - 1
          OBVIOUS
    <3>2. l \in Nat /\ m \in Nat /\ k \in Nat
          OBVIOUS
    <3>3. CASE m = k
      <4>1. l < k - 1 /\ l # k
            BY <3>1, <3>2, <3>3
      <4>2. from[l] = l /\ (from[m] = k \/ from[m] = k - 1)
            BY <2>2, <3>3, <4>1
      <4>3. CASE from[m] = k
        <5>1. l < k
              BY <3>2, <4>1
        <5>2. QED BY <4>2, <4>3, <5>1
      <4>4. CASE from[m] = k - 1
        <5>1. from[l] < k - 1
              BY <4>1, <4>2
        <5>2. QED BY <4>4, <5>1
      <4>5. QED BY <4>2, <4>3, <4>4
    <3>4. CASE m # k
      <4>1. from[m] = m
            BY <2>2, <3>4
      <4>2. from[l] = l \/ (from[l] = k - 1 /\ l = k)
            BY <2>2
      <4>3. CASE from[l] = l
            BY <4>1, <4>3
      <4>4. CASE from[l] = k - 1 /\ l = k
        <5>1. k - 1 < m
              BY <3>2, <4>4
        <5>2. QED BY <4>1, <4>4, <5>1
      <4>5. QED BY <4>2, <4>3, <4>4
    <3>5. QED BY <3>3, <3>4
  <2>5. QED BY <1>1, <2>1, <2>3, <2>4, FewerFiles
<1>4. Rotating'
  <2>1. CASE k = 1
    <3>1. files'[0] = << >> /\ step' = "write"
          BY <1>1, <2>1
    <3>2. QED BY <1>2, <3>1, EmptyFile DEF Rotating, LogTyping
  <2>2. CASE k # 1
    <3>1. files'[0] = files[0] /\ files'[MaxFileCount] = files[MaxFileCount]
          /\ files'[slot'] = << >> /\ step' = "move" /\ slot' # 0
          BY <1>1, <2>2
    <3>2. QED BY <1>1, <3>1 DEF LogInv, Rotating
  <2>3. QED BY <2>1, <2>2
<1>5. QED BY <1>2, <1>3, <1>4 DEF LogInv

LEMMA InterruptStep == ASSUME LogInv, Interrupt PROVE LogInv'
<1>1. UNCHANGED <<files, entries, size, slot>> /\ step' = "idle"
      BY DEF Interrupt
<1>2. LogTyping' /\ Rotating'
      BY <1>1 DEF LogInv, LogTyping, Rotating
<1>3. QED BY <1>1, <1>2, FilesStay DEF LogInv

LEMMA LogStep == LogInv /\ [Next]_vars => LogInv'
<1> SUFFICES ASSUME LogInv, [Next]_vars PROVE LogInv'
    OBVIOUS
<1>1. CASE UNCHANGED vars
  <2>1. LogTyping' /\ Rotating'
        BY <1>1 DEF vars, LogInv, LogTyping, Rotating
  <2>2. QED BY <1>1, <2>1, FilesStay DEF vars, LogInv
<1>2. QED
  BY <1>1, AppendEntryStep, WriteStep, RemoveExpiredStep, MoveStep, InterruptStep DEF Next

\* What the theorems about the log rest on: a move goes to a free place or over the
\* oldest file, what is written fits, and the entry at hand is the newest.
THEOREM LogInvariant == Spec => []LogInv
BY LogInit, LogStep, PTL DEF Spec

\* "A single pathological entry must not violate the configured file cap", and neither
\* do interrupted appends and rotations.
THEOREM FilesStayBounded == Spec => []FilesBounded
<1>1. LogInv => FilesBounded
      BY DEF LogInv
<1>2. QED BY <1>1, LogInvariant, PTL

\* ".1 is newer than .2": wherever a rotation was interrupted the files are in order.
THEOREM LogReadsInOrder == Spec => []ReadsInOrder
<1>1. LogInv => ReadsInOrder
      BY DEF LogInv
<1>2. QED BY <1>1, LogInvariant, PTL

----------------------------------------------------------------------------
(* What is lost.                                                           *)

LEMMA InAFile ==
  /\ \A d \in AllIds : \E k \in File : d \in Ids(files[k])
  /\ \A d \in AllIds' : \E k \in File : d \in Ids(files'[k])
  /\ \A k \in File : \A d \in Ids(files'[k]) : d \in AllIds'
BY DEF AllIds, Ids

\* removeExpiredBackups drops the expired backup, and a log of one file all.
LEMMA RemoveExpiredLoses ==
  ASSUME LogInv, RemoveExpired, NEW d \in AllIds \ AllIds'
  PROVE  /\ \A e \in AllIds' : d < e
         /\ (d \notin Ids(files[MaxFileCount])) => \A k \in Kept : files[k] # << >>
<1> USE Numbers
<1>1. /\ step = "expire"
      /\ files' = [k \in File |->
                     IF k >= MaxFileCount \/ MaxFileCount = 1 THEN << >> ELSE files[k]]
      BY DEF RemoveExpired
<1>2. CASE MaxFileCount = 1
  <2>1. \A k \in File : files'[k] = << >>
        BY <1>1, <1>2
  <2>2. AllIds' = {}
        BY <2>1, EmptyFile, InAFile
  <2>3. \A k \in Kept : k = 0
        BY <1>2 DEF Kept
  <2>4. files[0] # << >>
        BY <1>1 DEF LogInv, Rotating
  <2>5. QED BY <2>2, <2>3, <2>4
<1>3. CASE MaxFileCount # 1
  <2>1. PICK j \in File : d \in Ids(files[j])
        BY InAFile
  <2>2. \A k \in File : k # MaxFileCount => k < MaxFileCount
        OBVIOUS
  <2>3. ASSUME NEW k \in File, k # MaxFileCount PROVE files'[k] = files[k]
    <3>1. ~(k >= MaxFileCount)
          BY <2>2, <2>3
    <3>2. QED BY <1>1, <1>3, <3>1
  <2>4. files'[MaxFileCount] = << >>
        BY <1>1
  <2>5. j = MaxFileCount
        BY <2>1, <2>3, InAFile
  <2>6. ASSUME NEW e \in AllIds' PROVE d < e
    <3>1. PICK m \in File : e \in Ids(files'[m])
          BY InAFile
    <3>2. m # MaxFileCount
          BY <2>4, <3>1, EmptyFile
    <3>3. e \in Ids(files[m]) /\ m < j
          BY <2>2, <2>3, <2>5, <3>1, <3>2
    <3>4. QED BY <2>1, <3>3 DEF LogInv, ReadsInOrder
  <2>7. QED BY <2>1, <2>5, <2>6
<1>4. QED BY <1>2, <1>3

\* A move drops a file only when it is the oldest: any other was moved before.
LEMMA MoveLoses ==
  ASSUME LogInv, NEW k \in 1 .. MaxFileCount - 1, Move(k), NEW d \in AllIds \ AllIds'
  PROVE  /\ k = MaxFileCount - 1 /\ files[k] # << >> /\ files[k - 1] # << >>
         /\ \A e \in AllIds' : d < e
<1> USE Numbers
<1>1. /\ k \in File /\ k - 1 \in File /\ k - 1 < k /\ k \in Nat
      /\ files'[k - 1] = << >>
      /\ files'[k] = IF files[k - 1] = << >> THEN files[k] ELSE files[k - 1]
      /\ \A m \in File \ {k, k - 1} : files'[m] = files[m]
      BY MoveFiles
<1>2. step = "move" /\ slot = k
      BY DEF Move
<1>3. PICK j \in File : d \in Ids(files[j])
      BY InAFile
<1>4. j # k - 1 \/ files[k - 1] = << >>
      BY <1>1, <1>3, InAFile
<1>5. j = k /\ files[k - 1] # << >>
  <2>1. files'[j] # files[j]
        BY <1>3, InAFile
  <2>2. j \in {k, k - 1}
        BY <1>1, <2>1
  <2>3. j = k
        BY <1>3, <1>4, <2>2, EmptyFile
  <2>4. QED BY <1>1, <2>1, <2>3
<1>6. files[k] # << >>
      BY <1>3, <1>5, EmptyFile
<1>7. k = MaxFileCount - 1 /\ files[MaxFileCount] = << >>
  <2>1. files[MaxFileCount] = << >> /\ ~(k < MaxFileCount - 1)
        BY <1>2, <1>6 DEF LogInv, Rotating
  <2>2. QED BY <2>1
<1>8. ASSUME NEW e \in AllIds' PROVE d < e
  <2>1. PICK m \in File : e \in Ids(files'[m])
        BY InAFile
  <2>2. CASE m = k
    <3>1. e \in Ids(files[k - 1])
          BY <1>1, <1>5, <2>1, <2>2
    <3>2. QED BY <1>1, <1>3, <1>5, <3>1 DEF LogInv, ReadsInOrder
  <2>3. CASE m = k - 1
        BY <1>1, <2>1, <2>3, EmptyFile
  <2>4. CASE m \notin {k, k - 1}
    <3>1. e \in Ids(files[m])
          BY <1>1, <2>1, <2>4
    <3>2. m # MaxFileCount
          BY <1>7, <3>1, EmptyFile
    <3>3. m < k
      <4>1. m \in Nat /\ m <= MaxFileCount
            OBVIOUS
      <4>2. m # k
            BY <2>4
      <4>3. QED BY <1>7, <3>2, <4>1, <4>2
    <3>4. QED BY <1>3, <1>5, <3>1, <3>3 DEF LogInv, ReadsInOrder
  <2>5. QED BY <2>2, <2>3, <2>4
<1>9. QED BY <1>5, <1>6, <1>7, <1>8

\* No other step loses anything.
LEMMA OthersLoseNothing ==
  ASSUME LogInv, [Next]_vars, ~RemoveExpired, \A k \in 1 .. MaxFileCount - 1 : ~Move(k)
  PROVE  AllIds \ AllIds' = {}
<1>1. ASSUME files' = files PROVE AllIds' = AllIds
      BY <1>1 DEF AllIds, Ids
<1>2. ASSUME NEW n \in 1 .. MaxFileBytes, Write(n) PROVE AllIds \ AllIds' = {}
  <2> DEFINE f == files[0]
             e == [id |-> entries, end |-> Length(f) + n]
  <2>1. f \in Seq(Entry) /\ Length(f) \in Nat /\ entries \in 0 .. MaxEntry
        BY Numbers, LengthType DEF LogInv, LogTyping
  <2>2. e \in Entry
        BY Numbers, <2>1 DEF Entry
  <2>3. files' = [files EXCEPT ![0] = Append(f, e)]
        BY <1>2 DEF Write
  <2> HIDE DEF e
  <2>4. files'[0] = Append(f, e) /\ \A k \in File : k # 0 => files'[k] = files[k]
        BY <2>3, Numbers DEF LogInv, LogTyping
  <2>5. \A d \in Ids(files[0]) : d \in Ids(files'[0])
        BY <2>1, <2>2, <2>4, LengthAppended
  <2>6. \A k \in File : \A d \in Ids(files[k]) : d \in Ids(files'[k])
        BY <2>4, <2>5
  <2>7. QED BY <2>6, InAFile
<1>3. QED BY <1>1, <1>2 DEF Next, vars, AppendEntry, Interrupt

\* With any number of files: what a step loses is older than all it keeps.
LostIsOlder == [][\A d \in AllIds \ AllIds' : \A e \in AllIds' : d < e]_vars

\* "Move oldest to newest so no retained generation is overwritten early", for any
\* number of files: what an append or a rotation loses is the oldest.
THEOREM LostIsOlderHolds == Spec => LostIsOlder
<1>1. LogInv /\ [Next]_vars => [\A d \in AllIds \ AllIds' : \A e \in AllIds' : d < e]_vars
      BY RemoveExpiredLoses, MoveLoses, OthersLoseNothing
<1>2. QED BY <1>1, LogInvariant, PTL DEF Spec, LostIsOlder

\* "Move oldest to newest so no retained generation is overwritten early": with at most
\* three files nothing but an expired backup is lost before all files are in use.
THEOREM OldestIsLost ==
  ASSUME MaxFileCount <= 3
  PROVE  Spec => OnlyOldestIsLost
<1> DEFINE Loss(d) ==
             /\ \A e \in AllIds' : d < e
             /\ (d \notin Ids(files[MaxFileCount])) => \A k \in Kept : files[k] # << >>
<1>1. ASSUME LogInv, NEW k \in 1 .. MaxFileCount - 1, Move(k),
             NEW d \in AllIds \ AllIds'
      PROVE  Loss(d)
  <2>1. /\ k = MaxFileCount - 1 /\ files[k] # << >> /\ files[k - 1] # << >>
        /\ \A e \in AllIds' : d < e
        BY <1>1, MoveLoses
  <2>2. files[0] # << >>
        BY <1>1 DEF LogInv, Rotating, Move
  <2>3. \A m \in Kept : m = 0 \/ m = k - 1 \/ m = k
        BY <2>1, Numbers DEF Kept
  <2>4. QED BY <2>1, <2>2, <2>3
<1>2. LogInv /\ [Next]_vars => [\A d \in AllIds \ AllIds' : Loss(d)]_vars
      BY <1>1, RemoveExpiredLoses, OthersLoseNothing
<1>3. QED BY <1>2, LogInvariant, PTL DEF Spec, OnlyOldestIsLost

----------------------------------------------------------------------------
(* The forwarder.                                                          *)

Delivery == [id : 1 .. MaxEvent, persists : BOOLEAN]

ForwarderTyping ==
  /\ events \in 0 .. MaxEvent
  /\ bus \in Seq(Delivery)
  /\ writer \in Writer \cup {NoWriter}
  /\ pc \in {"wait", "write", "append"}
  /\ held \in Writer \cup {NoWriter}
  /\ event \in 0 .. MaxEvent
  /\ kept \in [1 .. MaxEntry -> 0 .. MaxEvent]
  /\ late \in Nat

\* The undelivered events are in order, and newer than the one that is written.
Undelivered ==
  /\ \A i \in DOMAIN bus : bus[i].id <= events
  /\ \A i, j \in DOMAIN bus : i < j => bus[i].id < bus[j].id
  /\ pc = "write" =>
       /\ event \in 1 .. events
       /\ \A i \in DOMAIN bus : event < bus[i].id

\* The events the log has are in order, and older than those that may follow.
Delivered ==
  /\ \A n \in 1 .. MaxEntry :
       /\ kept[n] <= events
       /\ n > entries => kept[n] = 0
       /\ \A i \in DOMAIN bus : kept[n] < bus[i].id
       /\ pc = "write" => kept[n] < event
  /\ \A m, n \in 1 .. MaxEntry :
       (m < n /\ kept[m] # 0 /\ kept[n] # 0) => kept[m] < kept[n]

\* A write that waits is the first one through a writer that was replaced.
Replaced ==
  /\ late <= 1
  /\ (pc = "write" /\ held # writer) => late = 0

ForwarderInv == ForwarderTyping /\ Undelivered /\ Delivered /\ Replaced

\* What the forwarder does to the log is a step of the log.
LEMMA LogOfForwarder == ForwarderSpec => Spec
<1>1. ForwarderInit => Init
      BY DEF ForwarderInit
<1>2. [ForwarderNext]_allVars => [Next]_vars
  <2> SUFFICES ASSUME [ForwarderNext]_allVars PROVE [Next]_vars
      OBVIOUS
  <2>1. CASE UNCHANGED allVars
        BY <2>1 DEF allVars
  <2>2. CASE Restart
    <3>1. UNCHANGED <<files, entries, size, slot>> /\ step' = "idle"
          BY <2>2 DEF Restart
    <3>2. QED BY <3>1 DEF Next, Interrupt, vars
  <2>3. CASE AppendStep
        BY <2>3 DEF AppendStep, Next
  <2>4. ASSUME NEW n \in 1 .. MaxFileBytes, ForwardAppend(n) \/ ServiceAppend(n)
        PROVE  Next
        BY <2>4 DEF ForwardAppend, ServiceAppend, Next
  <2>5. (\E p \in Payload : Log(p)) => UNCHANGED vars
        BY DEF Log
  <2>6. (\E w \in Writer \cup {NoWriter} : SetWriter(w)) => UNCHANGED vars
        BY DEF SetWriter
  <2>7. Take => UNCHANGED vars
        BY DEF Take
  <2>8. Panic => UNCHANGED vars
        BY DEF Panic
  <2>9. QED BY <2>1, <2>2, <2>3, <2>4, <2>5, <2>6, <2>7, <2>8 DEF ForwarderNext
<1>3. QED BY <1>1, <1>2, PTL DEF ForwarderSpec, Spec

LEMMA Bounds ==
  /\ NoWriter \notin Writer /\ MaxEvent \in Nat /\ MaxEntry \in Nat
BY LogAssumption, ForwarderAssumption

LEMMA ForwarderInitially == ForwarderInit => ForwarderInv
<1> SUFFICES ASSUME ForwarderInit PROVE ForwarderInv
    OBVIOUS
<1>1. << >> \in Seq(Delivery) /\ DOMAIN << >> = {}
      OBVIOUS
<1>2. bus = << >> /\ pc = "wait" /\ events = 0 /\ event = 0 /\ late = 0
      BY DEF ForwarderInit
<1>3. kept \in [1 .. MaxEntry -> 0 .. MaxEvent] /\ \A n \in 1 .. MaxEntry : kept[n] = 0
      BY Bounds DEF ForwarderInit
<1>4. writer = NoWriter /\ held = NoWriter
      BY DEF ForwarderInit
<1>5. ForwarderTyping
      BY <1>1, <1>2, <1>3, <1>4, Bounds DEF ForwarderTyping
<1>6. Undelivered
      BY <1>1, <1>2 DEF Undelivered
<1>7. Delivered
      BY <1>1, <1>2, <1>3 DEF Delivered
<1>8. Replaced
      BY <1>2 DEF Replaced
<1>9. QED BY <1>5, <1>6, <1>7, <1>8 DEF ForwarderInv

\* Nothing is logged, taken or appended, and no write begins to wait.
LEMMA NothingForwarded ==
  ASSUME ForwarderInv, UNCHANGED <<entries, events, bus, event, kept>>,
         pc' = "write" => pc = "write"
  PROVE  Undelivered' /\ Delivered'
<1>1. Undelivered'
      BY DEF ForwarderInv, Undelivered
<1>2. Delivered'
      BY DEF ForwarderInv, Delivered
<1>3. QED BY <1>1, <1>2

LEMMA LogEventStep ==
  ASSUME ForwarderInv, NEW p \in Payload, Log(p)
  PROVE  ForwarderInv'
<1> USE Bounds
<1> DEFINE e == [id |-> events + 1, persists |-> ShouldPersist(p)]
<1>1. events \in Nat /\ events + 1 \in 1 .. MaxEvent /\ events' = events + 1
      BY DEF ForwarderInv, ForwarderTyping, Log
<1>2. ShouldPersist(p) \in BOOLEAN
      BY DEF ShouldPersist, Payload
<1>3. e \in Delivery /\ e.id = events + 1
      BY <1>1, <1>2 DEF Delivery
<1>4. /\ bus' = Append(bus, e)
      /\ UNCHANGED <<entries, writer, pc, held, event, kept, late>>
      BY DEF Log, vars
<1> HIDE DEF e
<1>5. bus \in Seq(Delivery)
      BY DEF ForwarderInv, ForwarderTyping
<1>6. bus' \in Seq(Delivery)
      BY <1>3, <1>4, <1>5, FileAppended
<1>7. /\ DOMAIN bus = 1 .. Len(bus) /\ Len(bus) \in Nat
      /\ DOMAIN bus' = 1 .. (Len(bus) + 1) /\ bus'[Len(bus) + 1] = e
      /\ \A i \in DOMAIN bus : bus'[i] = bus[i]
      /\ \A i \in DOMAIN bus' : i \in DOMAIN bus \/ i = Len(bus) + 1
      BY <1>3, <1>4, <1>5, FileAppended
<1>8. \A i \in DOMAIN bus : bus[i].id \in Nat /\ bus[i].id <= events
  <2>1. \A i \in DOMAIN bus : bus[i] \in Delivery
        BY <1>5
  <2>2. QED BY <2>1 DEF ForwarderInv, Undelivered, Delivery
<1>9. \A i \in DOMAIN bus' : bus'[i].id = (IF i \in DOMAIN bus THEN bus[i].id ELSE events + 1)
      BY <1>3, <1>7
<1>10. ForwarderTyping'
      BY <1>1, <1>4, <1>6 DEF ForwarderInv, ForwarderTyping
<1>11. Undelivered'
  <2>1. \A i \in DOMAIN bus' : bus'[i].id <= events'
        BY <1>1, <1>8, <1>9
  <2>2. ASSUME NEW i \in DOMAIN bus', NEW j \in DOMAIN bus', i < j
        PROVE  bus'[i].id < bus'[j].id
    <3>1. i \in DOMAIN bus
          BY <1>7, <2>2
    <3>2. CASE j \in DOMAIN bus
          BY <1>9, <2>2, <3>1, <3>2 DEF ForwarderInv, Undelivered
    <3>3. CASE j \notin DOMAIN bus
          BY <1>1, <1>8, <1>9, <3>1, <3>3
    <3>4. QED BY <3>2, <3>3
  <2>3. ASSUME pc' = "write"
        PROVE  event' \in 1 .. events' /\ \A i \in DOMAIN bus' : event' < bus'[i].id
    <3>1. event \in 1 .. events /\ \A i \in DOMAIN bus : event < bus[i].id
          BY <1>4, <2>3 DEF ForwarderInv, Undelivered
    <3>2. event' \in 1 .. events'
          BY <1>1, <1>4, <3>1
    <3>3. \A i \in DOMAIN bus' : event < bus'[i].id
          BY <1>1, <1>9, <3>1
    <3>4. QED BY <1>4, <3>2, <3>3
  <2>4. QED BY <2>1, <2>2, <2>3 DEF Undelivered
<1>12. Delivered'
  <2>1. \A n \in 1 .. MaxEntry : kept[n] \in Nat /\ kept[n] <= events
        BY DEF ForwarderInv, ForwarderTyping, Delivered
  <2>2. ASSUME NEW n \in 1 .. MaxEntry, NEW i \in DOMAIN bus' PROVE kept[n] < bus'[i].id
    <3>1. CASE i \in DOMAIN bus
          BY <1>9, <3>1 DEF ForwarderInv, Delivered
    <3>2. CASE i \notin DOMAIN bus
          BY <1>1, <1>9, <2>1, <3>2
    <3>3. QED BY <3>1, <3>2
  <2>3. \A n \in 1 .. MaxEntry : kept[n] <= events'
        BY <1>1, <2>1
  <2>4. /\ \A n \in 1 .. MaxEntry : (n > entries' => kept'[n] = 0)
                                    /\ (pc' = "write" => kept'[n] < event')
        /\ \A m, n \in 1 .. MaxEntry :
             (m < n /\ kept'[m] # 0 /\ kept'[n] # 0) => kept'[m] < kept'[n]
        BY <1>4 DEF ForwarderInv, Delivered
  <2>5. QED BY <1>4, <2>2, <2>3, <2>4 DEF Delivered
<1>13. Replaced'
      BY <1>4 DEF ForwarderInv, Replaced
<1>14. QED BY <1>10, <1>11, <1>12, <1>13 DEF ForwarderInv

LEMMA SetWriterStep ==
  ASSUME ForwarderInv, NEW w \in Writer \cup {NoWriter}, SetWriter(w)
  PROVE  ForwarderInv'
<1>1. /\ writer' = w /\ late' = 0
      /\ UNCHANGED <<entries, events, bus, pc, held, event, kept>>
      BY DEF SetWriter, vars
<1>2. ForwarderTyping'
      BY <1>1 DEF ForwarderInv, ForwarderTyping
<1>3. Replaced'
      BY <1>1 DEF Replaced
<1>4. QED BY <1>1, <1>2, <1>3, NothingForwarded DEF ForwarderInv

\* Taking the first event leaves the others.
LEMMA FirstTaken ==
  ASSUME bus \in Seq(Delivery), bus # << >>, bus' = RemoveAt(bus, NextEvent)
  PROVE  /\ Len(bus) \in Nat /\ DOMAIN bus = 1 .. Len(bus) /\ 1 \in DOMAIN bus
         /\ bus' \in Seq(Delivery) /\ DOMAIN bus' = 1 .. (Len(bus) - 1)
         /\ \A i \in DOMAIN bus' : i + 1 \in DOMAIN bus /\ bus'[i] = bus[i + 1]
<1>1. Len(bus) \in Nat /\ Len(bus) # 0 /\ DOMAIN bus = 1 .. Len(bus)
      BY EmptySeq, LenProperties
<1>2. SubSeq(bus, 1, 0) = << >>
      BY SubSeqEmpty
<1>3. bus' = Tail(bus)
  <2>1. SubSeq(bus, 2, Len(bus)) = Tail(bus)
        BY TailIsSubSeq
  <2>2. Tail(bus) \in Seq(Delivery)
        BY HeadTailProperties
  <2>3. bus' = SubSeq(bus, 1, 0) \o SubSeq(bus, 2, Len(bus))
        BY DEF RemoveAt, NextEvent
  <2>4. QED BY <1>2, <2>1, <2>2, <2>3, ConcatEmptySeq
<1>4. /\ Tail(bus) \in Seq(Delivery) /\ Len(Tail(bus)) = Len(bus) - 1
      /\ \A i \in 1 .. Len(Tail(bus)) : Tail(bus)[i] = bus[i + 1]
      BY HeadTailProperties
<1>5. DOMAIN Tail(bus) = 1 .. (Len(bus) - 1)
      BY <1>4, LenProperties
<1>6. QED BY <1>1, <1>3, <1>4, <1>5

LEMMA TakeStep == ASSUME ForwarderInv, Take PROVE ForwarderInv'
<1> DEFINE e == bus[NextEvent]
<1>1. /\ pc = "wait" /\ bus # << >> /\ bus' = RemoveAt(bus, NextEvent)
      /\ UNCHANGED <<entries, events, writer, kept, late>>
      /\ \/ pc' = "write" /\ held' = writer /\ event' = e.id
         \/ UNCHANGED <<pc, held, event>>
      BY DEF Take, InstalledWriter, vars
<1>2. /\ DOMAIN bus = 1 .. Len(bus) /\ Len(bus) \in Nat /\ 1 \in DOMAIN bus
      /\ bus' \in Seq(Delivery) /\ DOMAIN bus' = 1 .. (Len(bus) - 1)
      /\ \A i \in DOMAIN bus' : i + 1 \in DOMAIN bus /\ bus'[i] = bus[i + 1]
      BY <1>1, FirstTaken DEF ForwarderInv, ForwarderTyping
<1>3. e = bus[1] /\ e \in Delivery
      BY <1>2 DEF NextEvent, ForwarderInv, ForwarderTyping
<1> HIDE DEF e
<1>4. e.id \in 1 .. MaxEvent /\ e.id <= events /\ events \in Nat
  <2>1. e.id \in 1 .. MaxEvent
        BY <1>3 DEF Delivery
  <2>2. e.id <= events
        BY <1>2, <1>3 DEF ForwarderInv, Undelivered
  <2>3. events \in Nat
        BY Bounds DEF ForwarderInv, ForwarderTyping
  <2>4. QED BY <2>1, <2>2, <2>3
<1>5. \A i \in DOMAIN bus' : e.id < bus'[i].id
  <2> SUFFICES ASSUME NEW i \in DOMAIN bus' PROVE e.id < bus[i + 1].id
      BY <1>2
  <2>1. i \in Nat /\ 1 < i + 1 /\ i + 1 \in DOMAIN bus
        BY <1>2
  <2>2. QED BY <1>2, <1>3, <2>1 DEF ForwarderInv, Undelivered
<1>6. ForwarderTyping'
  <2>1. event' \in 0 .. MaxEvent /\ pc' \in {"wait", "write", "append"}
        /\ held' \in Writer \cup {NoWriter}
        BY <1>1, <1>4 DEF ForwarderInv, ForwarderTyping
  <2>2. QED BY <1>1, <1>2, <2>1 DEF ForwarderInv, ForwarderTyping
<1>7. Undelivered'
  <2>1. \A i \in DOMAIN bus' : bus'[i].id <= events
        BY <1>2 DEF ForwarderInv, Undelivered
  <2>2. ASSUME NEW i \in DOMAIN bus', NEW j \in DOMAIN bus', i < j
        PROVE  bus'[i].id < bus'[j].id
    <3>1. i + 1 < j + 1
          BY <1>2, <2>2
    <3>2. QED BY <1>2, <3>1 DEF ForwarderInv, Undelivered
  <2>3. pc' = "write" => event' \in 1 .. events /\ \A i \in DOMAIN bus' : event' < bus'[i].id
        BY <1>1, <1>4, <1>5
  <2>4. QED BY <1>1, <2>1, <2>2, <2>3 DEF Undelivered
<1>8. Delivered'
  <2>1. \A n \in 1 .. MaxEntry : \A i \in DOMAIN bus' : kept[n] < bus'[i].id
        BY <1>2 DEF ForwarderInv, Delivered
  <2>2. pc' = "write" => \A n \in 1 .. MaxEntry : kept[n] < event'
        BY <1>1, <1>2, <1>3 DEF ForwarderInv, Delivered
  <2>3. QED BY <1>1, <2>1, <2>2 DEF ForwarderInv, Delivered
<1>9. Replaced'
      BY <1>1 DEF ForwarderInv, Replaced
<1>10. QED BY <1>6, <1>7, <1>8, <1>9 DEF ForwarderInv

LEMMA ForwardAppendStep ==
  ASSUME ForwarderInv, LogInv, NEW n \in 1 .. MaxFileBytes, ForwardAppend(n)
  PROVE  ForwarderInv'
<1> USE Bounds
<1>1. /\ pc = "write" /\ pc' = "append"
      /\ entries \in Nat /\ entries' = entries + 1 /\ entries' \in 1 .. MaxEntry
      /\ kept' = [kept EXCEPT ![entries'] = event]
      /\ late' = IF held = writer THEN late ELSE late + 1
      /\ UNCHANGED <<events, bus, writer, held, event>>
      BY DEF ForwardAppend, AppendEntry, LogInv, LogTyping
<1>2. event \in 1 .. events /\ event \in 0 .. MaxEvent /\ events \in Nat
      /\ kept \in [1 .. MaxEntry -> 0 .. MaxEvent] /\ late \in Nat
      BY <1>1 DEF ForwarderInv, ForwarderTyping, Undelivered
<1>3. /\ kept' \in [1 .. MaxEntry -> 0 .. MaxEvent] /\ kept'[entries'] = event
      /\ \A m \in 1 .. MaxEntry : m # entries' => kept'[m] = kept[m]
      BY <1>1, <1>2
<1>4. ForwarderTyping'
      BY <1>1, <1>2, <1>3 DEF ForwarderInv, ForwarderTyping
<1>5. Undelivered'
      BY <1>1 DEF ForwarderInv, Undelivered
<1>6. Delivered'
  <2>1. \A m \in 1 .. MaxEntry : m > entries => kept[m] = 0
        BY DEF ForwarderInv, Delivered
  <2>2. ASSUME NEW m \in 1 .. MaxEntry
        PROVE  /\ kept'[m] <= events
               /\ m > entries' => kept'[m] = 0
               /\ \A i \in DOMAIN bus : kept'[m] < bus[i].id
    <3>1. CASE m = entries'
          BY <1>1, <1>2, <1>3, <3>1 DEF ForwarderInv, Undelivered
    <3>2. CASE m # entries'
          BY <1>1, <1>3, <3>2 DEF ForwarderInv, Delivered
    <3>3. QED BY <3>1, <3>2
  <2>3. ASSUME NEW l \in 1 .. MaxEntry, NEW m \in 1 .. MaxEntry,
               l < m, kept'[l] # 0, kept'[m] # 0
        PROVE  kept'[l] < kept'[m]
    <3>1. CASE m = entries'
      <4>1. l # entries' /\ kept'[l] = kept[l] /\ kept'[m] = event
            BY <1>1, <1>3, <2>3, <3>1
      <4>2. QED BY <1>1, <4>1 DEF ForwarderInv, Delivered
    <3>2. CASE m # entries'
      <4>1. kept'[m] = kept[m] /\ ~(m > entries)
            BY <1>3, <2>1, <2>3, <3>2
      <4>2. l # entries' /\ kept'[l] = kept[l]
            BY <1>1, <1>3, <2>3, <4>1
      <4>3. QED BY <2>3, <4>1, <4>2 DEF ForwarderInv, Delivered
    <3>3. QED BY <3>1, <3>2
  <2>4. QED BY <1>1, <2>2, <2>3 DEF Delivered
<1>7. Replaced'
      BY <1>1, <1>2 DEF ForwarderInv, Replaced
<1>8. QED BY <1>4, <1>5, <1>6, <1>7 DEF ForwarderInv

LEMMA ServiceAppendStep ==
  ASSUME ForwarderInv, LogInv, NEW n \in 1 .. MaxFileBytes, ServiceAppend(n)
  PROVE  ForwarderInv'
<1>1. /\ UNCHANGED <<events, bus, writer, pc, held, event, kept, late>>
      /\ entries \in Nat /\ entries' = entries + 1
      BY Bounds DEF ServiceAppend, AppendEntry, forwarderVars, LogInv, LogTyping
<1>2. ForwarderTyping' /\ Undelivered' /\ Replaced'
      BY <1>1 DEF ForwarderInv, ForwarderTyping, Undelivered, Replaced
<1>3. \A m \in 1 .. MaxEntry : m > entries' => m > entries
      BY <1>1
<1>4. Delivered'
      BY <1>1, <1>3 DEF ForwarderInv, Delivered
<1>5. QED BY <1>2, <1>4 DEF ForwarderInv

\* The writer gives up, the log goes on, or nothing happens.
LEMMA GoesOnStep ==
  ASSUME ForwarderInv,
         UNCHANGED <<entries, events, bus, writer, held, event, kept, late>>,
         pc' \in {"wait", "write", "append"}, pc' = "write" => pc = "write"
  PROVE  ForwarderInv'
<1>1. ForwarderTyping'
      BY DEF ForwarderInv, ForwarderTyping
<1>2. Replaced'
      BY DEF ForwarderInv, Replaced
<1>3. QED BY <1>1, <1>2, NothingForwarded DEF ForwarderInv

LEMMA RestartStep == ASSUME ForwarderInv, Restart PROVE ForwarderInv'
<1>1. /\ bus' = << >> /\ writer' = NoWriter /\ pc' = "wait" /\ held' = NoWriter /\ late' = 0
      /\ UNCHANGED <<entries, events, event, kept>>
      BY DEF Restart
<1>2. << >> \in Seq(Delivery) /\ DOMAIN << >> = {}
      OBVIOUS
<1>3. ForwarderTyping'
      BY <1>1, <1>2 DEF ForwarderInv, ForwarderTyping
<1>4. Undelivered' /\ Replaced'
      BY <1>1, <1>2 DEF Undelivered, Replaced
<1>5. Delivered'
      BY <1>1, <1>2 DEF ForwarderInv, Delivered
<1>6. QED BY <1>3, <1>4, <1>5 DEF ForwarderInv

LEMMA ForwarderStep == ForwarderInv /\ LogInv /\ [ForwarderNext]_allVars => ForwarderInv'
<1> SUFFICES ASSUME ForwarderInv, LogInv, [ForwarderNext]_allVars PROVE ForwarderInv'
    OBVIOUS
<1>1. pc \in {"wait", "write", "append"}
      BY DEF ForwarderInv, ForwarderTyping
<1>2. CASE UNCHANGED allVars
      BY <1>1, <1>2, GoesOnStep DEF allVars, vars, forwarderVars
<1>3. CASE Panic
      BY <1>3, GoesOnStep DEF Panic, vars
<1>4. CASE AppendStep
  <2>1. entries' = entries
        BY <1>4 DEF AppendStep, Write, RemoveExpired, Move, Interrupt
  <2>2. /\ UNCHANGED <<events, bus, writer, held, event, kept, late>>
        /\ pc' = pc \/ pc' = "wait"
        BY <1>4 DEF AppendStep
  <2>3. QED BY <1>1, <2>1, <2>2, GoesOnStep
<1>5. ASSUME NEW n \in 1 .. MaxFileBytes, ForwardAppend(n) \/ ServiceAppend(n)
      PROVE  ForwarderInv'
      BY <1>5, ForwardAppendStep, ServiceAppendStep
<1>6. QED BY <1>2, <1>3, <1>4, <1>5, LogEventStep, SetWriterStep, TakeStep, RestartStep
          DEF ForwarderNext

\* What the theorems about the forwarder rest on: logged, taken and undelivered events
\* are in this order, and only the first write through a replaced writer waits.
THEOREM ForwarderInvariant == ForwarderSpec => [](LogInv /\ ForwarderInv)
<1>1. ForwarderSpec => []LogInv
      BY LogOfForwarder, LogInvariant, PTL
<1>2. QED BY <1>1, ForwarderInitially, ForwarderStep, PTL DEF ForwarderSpec

\* The state of the forwarder keeps its type.
THEOREM ForwarderTypeCorrect == ForwarderSpec => []ForwarderTypeOK
<1>1. LogInv /\ ForwarderInv => ForwarderTypeOK
  <2> SUFFICES ASSUME LogInv, ForwarderInv PROVE ForwarderTypeOK
      OBVIOUS
  <2>1. TypeOK
        BY DEF LogInv, LogTyping, TypeOK
  <2>2. ASSUME NEW i \in DOMAIN bus PROVE bus[i] \in [id : 1 .. events, persists : BOOLEAN]
    <3>1. bus[i] \in Delivery /\ bus[i].id <= events /\ events \in Nat
          BY DEF ForwarderInv, ForwarderTyping, Undelivered
    <3>2. QED BY <3>1, Bounds DEF Delivery
  <2>3. QED BY <2>1, <2>2 DEF ForwarderInv, ForwarderTyping, ForwarderTypeOK
<1>2. QED BY <1>1, ForwarderInvariant, PTL

\* The log has the core's events in the order they were logged, each at most once,
\* whatever lines of the service, panics and restarts come between.
THEOREM EventsKeepOrder == ForwarderSpec => []ForwardedInOrder
<1>1. LogInv /\ ForwarderInv => ForwardedInOrder
  <2> SUFFICES ASSUME LogInv, ForwarderInv, NEW i \in 1 .. entries, NEW j \in 1 .. entries,
                      i < j, kept[i] # 0, kept[j] # 0
               PROVE  kept[i] < kept[j]
      BY DEF ForwardedInOrder
  <2>1. i \in 1 .. MaxEntry /\ j \in 1 .. MaxEntry
        BY Bounds DEF LogInv, LogTyping
  <2>2. QED BY <2>1 DEF ForwarderInv, Delivered
<1>2. QED BY <1>1, ForwarderInvariant, PTL

\* "ClearPersistentLogWriter releases the platform callback": a writer that was cleared
\* or replaced is used once more at most.
THEOREM OneLateWrite == ForwarderSpec => []AtMostOneLateWrite
<1>1. ForwarderInv => AtMostOneLateWrite
      BY DEF ForwarderInv, Replaced, AtMostOneLateWrite
<1>2. QED BY <1>1, ForwarderInvariant, PTL

\* What holds of the log holds of it under the forwarder.
THEOREM ForwarderKeepsLog ==
  ForwarderSpec => []FilesBounded /\ []ReadsInOrder /\ LostIsOlder
BY LogOfForwarder, FilesStayBounded, LogReadsInOrder, LostIsOlderHolds, PTL
=============================================================================
