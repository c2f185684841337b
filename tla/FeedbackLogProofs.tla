------------------------- MODULE FeedbackLogProofs -------------------------
(***************************************************************************)
(* Proofs about FeedbackLog, for any number of threads, entries and        *)
(* crashes: its type invariant, that a log repeats and invents nothing,    *)
(* and that it is complete when no two saves overlapped.  The argument: an *)
(* entry is posted once and leaves its thread when it is written, so no    *)
(* text names it before its own thread has appended it.                    *)
(***************************************************************************)
EXTENDS FeedbackLog, FiniteSetTheorems, SequenceTheorems, WellFoundedInduction, TLAPS

\* A text lists entries of the set P, none of them twice.
Sound(s, P) == /\ s \in Seq(Entries)
               /\ \A i \in 1..Len(s) : s[i] \in P
               /\ \A i, k \in 1..Len(s) : s[i] = s[k] => i = k

Names(s, e) == \E i \in 1..Len(s) : s[i] = e

\* A thread has an entry while it saves it, posted and its own.
EntriesAtWork ==
    /\ pc \in [Threads -> {"idle", "load", "open", "write"}]
    /\ entry \in [Threads -> Entries \cup {Idle}]
    /\ \A t \in Threads : pc[t] = "idle" <=> entry[t] = Idle
    /\ \A t \in Threads : entry[t] # Idle => entry[t] \in posted
    /\ \A t, u \in Threads : entry[t] = entry[u] /\ entry[t] # Idle => t = u

\* Only the thread that saves an entry has it in its text.
EntriesAreTheirThreads ==
    \A t \in Threads : entry[t] # Idle =>
        /\ ~Names(log, entry[t]) /\ ~Names(acked, entry[t])
        /\ \A u \in Threads \ {t} : ~Names(raw[u], entry[t])

TextsAreSound ==
    /\ posted \subseteq Entries
    /\ Sound(log, posted) /\ Sound(acked, posted)
    /\ raw \in [Threads -> Seq(Entries)]
    /\ \A t \in Threads : Sound(raw[t], posted)

\* The rest of the types.
FileIsLog ==
    /\ disk \in {"empty", "log", "broken"} /\ (disk # "log" => log = <<>>)
    /\ crashes \in 0..MaxCrashes
    /\ disturbed \in BOOLEAN

\* While nothing is disturbed at most one thread saves, and its text is what
\* was answered so far followed by its entry.
SavesAreComplete ==
    ~disturbed =>
        /\ \A t, u \in Threads : pc[t] # "idle" /\ pc[u] # "idle" => t = u
        /\ (\A t \in Threads : pc[t] \in {"idle", "load"}) => Loaded = acked
        /\ \A t \in Threads :
              /\ pc[t] \in {"open", "write"} => raw[t] = Append(acked, entry[t])
              /\ pc[t] = "write" => disk = "empty"

IInv == /\ EntriesAtWork /\ TextsAreSound /\ EntriesAreTheirThreads
        /\ FileIsLog /\ SavesAreComplete

-----------------------------------------------------------------------------
\* A sound text with one more entry is sound, and what it names.
LEMMA AppendIsSound ==
    ASSUME NEW P, NEW s, Sound(s, P), NEW e \in Entries, e \in P, ~Names(s, e)
    PROVE  Sound(Append(s, e), P)
BY DEF Sound, Names

\* An appended entry is named, and so is what was named before.
LEMMA AppendNames ==
    ASSUME NEW s \in Seq(Entries), NEW e \in Entries, NEW f
    PROVE  Names(Append(s, e), f) <=> Names(s, f) \/ f = e
<1>1. /\ Len(Append(s, e)) = Len(s) + 1 /\ Len(s) \in Nat
      /\ \A i \in 1..Len(s) : Append(s, e)[i] = s[i]
      /\ Append(s, e)[Len(s) + 1] = e
  OBVIOUS
<1>2. ASSUME Names(Append(s, e), f) PROVE Names(s, f) \/ f = e
  BY <1>1, <1>2 DEF Names
<1>3. ASSUME Names(s, f) PROVE Names(Append(s, e), f)
  BY <1>1, <1>3 DEF Names
<1>4. Names(Append(s, e), e)
  <2>1. Len(s) + 1 \in 1..Len(Append(s, e))
    BY <1>1
  <2> QED
    BY <1>1, <2>1 DEF Names
<1> QED
  BY <1>2, <1>3, <1>4

\* The empty text, and what a sound text does not name.
LEMMA EmptyText ==
    <<>> \in Seq(Entries) /\ \A P, e : Sound(<<>>, P) /\ ~Names(<<>>, e)
BY DEF Sound, Names

\* A sound text names posted entries only.
LEMMA UnpostedIsNotNamed ==
    ASSUME NEW P, NEW s, Sound(s, P), NEW e, e \notin P
    PROVE  ~Names(s, e)
BY DEF Sound, Names

\* A sound text stays sound when more is posted.
LEMMA SoundStays ==
    ASSUME NEW P, NEW Q, P \subseteq Q, NEW s, Sound(s, P)
    PROVE  Sound(s, Q)
BY DEF Sound

\* What a thread reads is sound and does not name its entry.
LEMMA LoadedIsSound ==
    ASSUME TextsAreSound, EntriesAreTheirThreads
    PROVE  /\ Sound(Loaded, posted)
           /\ \A t \in Threads : entry[t] # Idle => ~Names(Loaded, entry[t])
BY EmptyText DEF TextsAreSound, EntriesAreTheirThreads, Loaded

\* Every step keeps that a thread has an entry while it saves it.
LEMMA WorkStep ==
    ASSUME EntriesAtWork, TextsAreSound, Next
    PROVE  EntriesAtWork'
<1> USE DEF EntriesAtWork, TextsAreSound
<1>1. ASSUME NEW t \in Threads, NEW e \in Entries, Post(t, e) PROVE EntriesAtWork'
  BY <1>1, IdleAssumption DEF Post
<1>2. ASSUME NEW t \in Threads, Load(t) PROVE EntriesAtWork'
  BY <1>2 DEF Load
<1>3. ASSUME NEW t \in Threads, Open(t) PROVE EntriesAtWork'
  BY <1>3 DEF Open
<1>4. ASSUME NEW t \in Threads, Write(t) PROVE EntriesAtWork'
  BY <1>4 DEF Write
<1>5. ASSUME Restart PROVE EntriesAtWork'
  BY <1>5, IdleAssumption DEF Restart
<1> QED
  BY <1>1, <1>2, <1>3, <1>4, <1>5 DEF Next

\* ... and that the texts are sound.
LEMMA SoundStep ==
    ASSUME EntriesAtWork, TextsAreSound, EntriesAreTheirThreads, Next
    PROVE  TextsAreSound'
<1> USE DEF EntriesAtWork, TextsAreSound
<1>1. ASSUME NEW t \in Threads, NEW e \in Entries, Post(t, e) PROVE TextsAreSound'
  <2>1. posted \subseteq posted' /\ posted' \subseteq Entries
    BY <1>1 DEF Post
  <2>2. \A s : Sound(s, posted) => Sound(s, posted')
    BY <2>1, SoundStays
  <2> QED
    BY <2>1, <2>2, <1>1 DEF Post
<1>2. ASSUME NEW t \in Threads, Load(t) PROVE TextsAreSound'
  <2> DEFINE text == Append(Loaded, entry[t])
  <2>1. entry[t] \in Entries /\ entry[t] \in posted /\ entry[t] # Idle
    BY <1>2 DEF Load
  <2>2. Sound(text, posted)
    BY <2>1, LoadedIsSound, AppendIsSound
  <2>3. text \in Seq(Entries)
    BY <2>2 DEF Sound
  <2>4. raw' = [raw EXCEPT ![t] = text]
    BY <1>2 DEF Load
  <2>5. raw' \in [Threads -> Seq(Entries)] /\ \A u \in Threads : Sound(raw'[u], posted)
    <3> HIDE DEF text
    <3> QED
      BY <2>2, <2>3, <2>4
  <2> QED
    BY <2>5, <1>2 DEF Load
<1>3. ASSUME NEW t \in Threads, Open(t) PROVE TextsAreSound'
  BY <1>3, EmptyText DEF Open
<1>4. ASSUME NEW t \in Threads, Write(t) PROVE TextsAreSound'
  <2>1. entry[t] \in Entries /\ entry[t] \in posted /\ entry[t] # Idle
    BY <1>4 DEF Write
  <2>2. Sound(Append(acked, entry[t]), posted)
    BY <2>1, AppendIsSound DEF EntriesAreTheirThreads
  <2>3. Sound(log', posted) /\ Sound(acked', posted)
    BY <2>2, <1>4, EmptyText DEF Write
  <2>4. raw' \in [Threads -> Seq(Entries)] /\ \A u \in Threads : Sound(raw'[u], posted)
    <3>1. raw' = [raw EXCEPT ![t] = <<>>]
      BY <1>4 DEF Write
    <3>2. <<>> \in Seq(Entries) /\ Sound(<<>>, posted)
      BY EmptyText
    <3> QED
      BY <3>1, <3>2
  <2> QED
    BY <2>3, <2>4, <1>4 DEF Write
<1>5. ASSUME Restart PROVE TextsAreSound'
  BY <1>5, EmptyText DEF Restart
<1> QED
  BY <1>1, <1>2, <1>3, <1>4, <1>5 DEF Next

\* ... and that only its thread has an entry in its text.
LEMMA TheirsStep ==
    ASSUME EntriesAtWork, TextsAreSound, EntriesAreTheirThreads, Next
    PROVE  EntriesAreTheirThreads'
<1> USE DEF EntriesAtWork, EntriesAreTheirThreads
<1>1. ASSUME NEW t \in Threads, NEW e \in Entries, Post(t, e) PROVE EntriesAreTheirThreads'
  <2>1. ~Names(log, e) /\ ~Names(acked, e) /\ \A u \in Threads : ~Names(raw[u], e)
    BY <1>1, UnpostedIsNotNamed DEF Post, TextsAreSound
  <2> QED
    BY <2>1, <1>1 DEF Post
<1>2. ASSUME NEW t \in Threads, Load(t) PROVE EntriesAreTheirThreads'
  <2>1. entry[t] \in Entries /\ entry[t] # Idle /\ Loaded \in Seq(Entries)
    BY <1>2, LoadedIsSound DEF Load, Sound
  <2>2. ASSUME NEW u \in Threads \ {t}, entry[u] # Idle
        PROVE  ~Names(Append(Loaded, entry[t]), entry[u])
    BY <2>1, <2>2, LoadedIsSound, AppendNames
  <2>3. raw' = [raw EXCEPT ![t] = Append(Loaded, entry[t])]
    BY <1>2 DEF Load
  <2>4. ASSUME NEW u \in Threads, NEW v \in Threads \ {u}, entry[u] # Idle
        PROVE  ~Names(raw'[v], entry[u])
    <3>1. CASE v = t
      <4>1. raw'[v] = Append(Loaded, entry[t])
        BY <3>1, <2>3 DEF TextsAreSound
      <4> QED
        BY <4>1, <2>2, <2>4, <3>1
    <3>2. CASE v # t
      BY <3>2, <2>3, <2>4 DEF TextsAreSound
    <3> QED
      BY <3>1, <3>2
  <2> QED
    BY <2>4, <1>2 DEF Load
<1>3. ASSUME NEW t \in Threads, Open(t) PROVE EntriesAreTheirThreads'
  BY <1>3, EmptyText DEF Open
<1>4. ASSUME NEW t \in Threads, Write(t) PROVE EntriesAreTheirThreads'
  <2>1. entry[t] \in Entries /\ entry[t] # Idle /\ acked \in Seq(Entries)
    BY <1>4 DEF Write, TextsAreSound, Sound
  <2>2. ASSUME NEW u \in Threads, entry'[u] # Idle
        PROVE  u # t /\ entry'[u] = entry[u] /\ entry[u] # entry[t]
    BY <1>4, <2>1, <2>2 DEF Write
  <2>3. ASSUME NEW u \in Threads, entry'[u] # Idle
        PROVE  ~Names(acked', entry'[u])
    BY <1>4, <2>1, <2>2, <2>3, AppendNames DEF Write
  <2>4. ASSUME NEW u \in Threads, entry'[u] # Idle
        PROVE  ~Names(log', entry'[u])
    <3>1. log' = raw[t] \/ log' = <<>>
      BY <1>4 DEF Write
    <3>2. ~Names(raw[t], entry[u])
      BY <2>2, <2>4
    <3> QED
      BY <2>2, <2>4, <3>1, <3>2, EmptyText
  <2>5. ASSUME NEW u \in Threads, entry'[u] # Idle, NEW v \in Threads \ {u}
        PROVE  ~Names(raw'[v], entry'[u])
    BY <1>4, <2>2, <2>5, EmptyText DEF Write, TextsAreSound
  <2> QED
    BY <2>3, <2>4, <2>5
<1>5. ASSUME Restart PROVE EntriesAreTheirThreads'
  BY <1>5 DEF Restart
<1> QED
  BY <1>1, <1>2, <1>3, <1>4, <1>5 DEF Next

\* ... and the types of the file and the history.
LEMMA FileStep ==
    ASSUME EntriesAtWork, FileIsLog, Next
    PROVE  FileIsLog'
<1> USE DEF FileIsLog
<1>1. ASSUME NEW t \in Threads, NEW e \in Entries, Post(t, e) PROVE FileIsLog'
  BY <1>1 DEF Post
<1>2. ASSUME NEW t \in Threads, Load(t) PROVE FileIsLog'
  BY <1>2 DEF Load
<1>3. ASSUME NEW t \in Threads, Open(t) PROVE FileIsLog'
  BY <1>3 DEF Open
<1>4. ASSUME NEW t \in Threads, Write(t) PROVE FileIsLog'
  BY <1>4 DEF Write
<1>5. ASSUME Restart PROVE FileIsLog'
  BY <1>5, MaxCrashesAssumption DEF Restart
<1> QED
  BY <1>1, <1>2, <1>3, <1>4, <1>5 DEF Next

\* ... and that undisturbed saves are complete.
LEMMA CompleteStep ==
    ASSUME EntriesAtWork, TextsAreSound, FileIsLog, SavesAreComplete, Next
    PROVE  SavesAreComplete'
<1> USE DEF EntriesAtWork, SavesAreComplete, Loaded
<1>1. ASSUME NEW t \in Threads, NEW e \in Entries, Post(t, e) PROVE SavesAreComplete'
  BY <1>1 DEF Post
<1>2. ASSUME NEW t \in Threads, Load(t) PROVE SavesAreComplete'
  <2>1. SUFFICES ASSUME ~disturbed PROVE SavesAreComplete'
    BY <1>2 DEF Load
  <2>2. \A u \in Threads \ {t} : pc[u] = "idle"
    BY <2>1, <1>2 DEF Load
  <2>3. Loaded = acked
    BY <2>1, <2>2, <1>2 DEF Load
  <2>4. raw' = [raw EXCEPT ![t] = Append(acked, entry[t])] /\ pc' = [pc EXCEPT ![t] = "open"]
    BY <2>3, <1>2 DEF Load
  <2>5. raw'[t] = Append(acked, entry[t]) /\ pc'[t] = "open"
    BY <2>4 DEF TextsAreSound
  <2>6. \A u \in Threads \ {t} : pc'[u] = "idle"
    BY <2>2, <2>4
  <2>7. acked' = acked /\ entry' = entry
    BY <1>2 DEF Load
  <2> QED
    BY <2>5, <2>6, <2>7
<1>3. ASSUME NEW t \in Threads, Open(t) PROVE SavesAreComplete'
  BY <1>3 DEF Open
<1>4. ASSUME NEW t \in Threads, Write(t) PROVE SavesAreComplete'
  BY <1>4 DEF Write
<1>5. ASSUME Restart PROVE SavesAreComplete'
  BY <1>5 DEF Restart
<1> QED
  BY <1>1, <1>2, <1>3, <1>4, <1>5 DEF Next

-----------------------------------------------------------------------------
\* The invariant holds at the start ...
LEMMA InitInductive == Init => IInv
<1> SUFFICES ASSUME Init PROVE IInv
  OBVIOUS
<1> USE DEF Init
<1>1. EntriesAtWork
  BY IdleAssumption DEF EntriesAtWork
<1>2. TextsAreSound
  BY EmptyText DEF TextsAreSound
<1>3. EntriesAreTheirThreads
  BY DEF EntriesAreTheirThreads
<1>4. FileIsLog
  <2>1. 0 \in 0..MaxCrashes
    BY MaxCrashesAssumption
  <2> QED
    BY <2>1 DEF FileIsLog
<1>5. SavesAreComplete
  BY DEF SavesAreComplete, Loaded
<1> QED
  BY <1>1, <1>2, <1>3, <1>4, <1>5 DEF IInv

\* ... and every step keeps it.
LEMMA StepInductive == IInv /\ [Next]_vars => IInv'
<1> SUFFICES ASSUME IInv, [Next]_vars PROVE IInv'
  OBVIOUS
<1>1. CASE Next
  BY <1>1, WorkStep, SoundStep, TheirsStep, FileStep, CompleteStep DEF IInv
<1>2. CASE UNCHANGED vars
  BY <1>2 DEF IInv, EntriesAtWork, TextsAreSound, EntriesAreTheirThreads, FileIsLog,
              SavesAreComplete, Loaded, vars
<1> QED
  BY <1>1, <1>2

\* The strengthened invariant, from which the theorems below follow.
THEOREM Inductive == Spec => []IInv
BY InitInductive, StepInductive, PTL DEF Spec

\* A text that repeats no entry is no longer than there are entries.
LEMMA SoundIsBounded ==
    ASSUME NEW P, NEW s, Sound(s, P)
    PROVE  s \in Logs
<1>1. Len(s) \in Nat /\ s \in [1..Len(s) -> Entries]
  BY DEF Sound
<1>2. IsFiniteSet(1..Len(s)) /\ Cardinality(1..Len(s)) = Len(s)
  BY <1>1, FS_Interval
<1>3. Cardinality(Entries) \in Nat
  BY EntriesAssumption, FS_CardinalityType
<1>4. ~(Cardinality(Entries) < Len(s))
  <2> SUFFICES ASSUME Cardinality(Entries) < Cardinality(1..Len(s)) PROVE FALSE
    BY <1>2
  <2>1. \E i, k \in 1..Len(s) : i # k /\ s[i] = s[k]
    BY <1>1, <1>2, EntriesAssumption, FS_PigeonHole
  <2> QED
    BY <2>1 DEF Sound
<1>5. Len(s) \in 0..Cardinality(Entries)
  BY <1>1, <1>3, <1>4
<1> QED
  BY <1>1, <1>5 DEF Logs

\* The variables keep their types; no text grows beyond the entries there are.
THEOREM TypeCorrect == Spec => []TypeOK
<1>1. IInv => TypeOK
  BY SoundIsBounded DEF IInv, EntriesAtWork, TextsAreSound, FileIsLog, TypeOK
<1> QED
  BY <1>1, Inductive, PTL

\* The log lists posted entries only and none of them twice, whatever saves
\* overlapped and whenever the process died.
THEOREM LogsAreSound == Spec => []NothingInvented
<1>1. IInv => NothingInvented
  BY SMTT(30) DEF IInv, TextsAreSound, Sound, NothingInvented, IsInjective
<1> QED
  BY <1>1, Inductive, PTL

\* Saves one after the other lose nothing and keep the order of the answers.
THEOREM QuietLog == Spec => []QuietLogIsComplete
<1>1. IInv => QuietLogIsComplete
  BY DEF IInv, SavesAreComplete, QuietLogIsComplete
<1> QED
  BY <1>1, Inductive, PTL

-----------------------------------------------------------------------------
(* The preferences handed to the explainer.                                 *)

\* What is true at 0 and passed on from each number to the next is true up to n:
\* there is no least number where it is not.
LEMMA NoLeastException ==
    ASSUME NEW n \in Nat, NEW T \in SUBSET (0..n), 0 \notin T,
           \A k \in 1..n : k \in T => k - 1 \in T
    PROVE  T = {}
<1> SUFFICES ASSUME T # {} PROVE FALSE
  OBVIOUS
<1>1. T \subseteq Nat
  OBVIOUS
<1>2. PICK k \in T : \A l \in T : <<l, k>> \notin OpToRel(<, Nat)
  BY <1>1, WFMin, NatLessThanWellFounded, Zenon
<1>3. k \in 1..n /\ k - 1 \in T
  BY <1>1
<1>4. <<k - 1, k>> \in OpToRel(<, Nat)
  BY <1>3 DEF OpToRel
<1> QED
  BY <1>2, <1>3, <1>4

\* A function may be defined from each number to the next.
Stepwise(f, n, S, base, step) ==
    /\ f \in [0..n -> S]
    /\ f[0] = base /\ \A k \in 1..n : f[k] = step[k][f[k - 1]]

\* There is such a function.
LEMMA StepwiseFunction ==
    ASSUME NEW n \in Nat, NEW S, NEW base \in S, NEW step \in [1..n -> [S -> S]]
    PROVE  \E f : Stepwise(f, n, S, base, step)
<1> DEFINE Fits(f, k) == /\ f \in [0..k -> S]
                         /\ f[0] = base /\ \A i \in 1..k : f[i] = step[i][f[i - 1]]
           T == {k \in 0..n : ~ \E f \in [0..k -> S] : Fits(f, k)}
<1>1. 0 \notin T
  <2>1. Fits([i \in 0..0 |-> base], 0)
    OBVIOUS
  <2> QED
    BY <2>1
<1>2. ASSUME NEW k \in 1..n, k \in T PROVE k - 1 \in T
  <2> SUFFICES ASSUME k - 1 \notin T PROVE FALSE
    OBVIOUS
  <2>1. PICK f \in [0..(k - 1) -> S] : Fits(f, k - 1)
    BY <1>2, SMTT(30)
  <2> DEFINE g == [i \in 0..k |-> IF i = k THEN step[k][f[k - 1]] ELSE f[i]]
  <2>2. step[k][f[k - 1]] \in S
    OBVIOUS
  <2>3. g \in [0..k -> S]
    BY <2>2
  <2>4. g[0] = base /\ g[k] = step[k][g[k - 1]]
    BY <2>1
  <2>5. \A i \in 1..(k - 1) : g[i] = step[i][g[i - 1]]
    BY <2>1
  <2>6. \A i \in 1..k : g[i] = step[i][g[i - 1]]
    <3>1. \A i \in 1..k : i = k \/ i \in 1..(k - 1)
      OBVIOUS
    <3> HIDE DEF g
    <3> QED
      BY <2>4, <2>5, <3>1
  <2>7. Fits(g, k)
    BY <2>3, <2>4, <2>6
  <2> QED
    BY <1>2, <2>3, <2>7
<1>3. T = {}
  <2> HIDE DEF T
  <2>1. T \in SUBSET (0..n)
    BY DEF T
  <2> QED
    BY <1>1, <1>2, <2>1, NoLeastException
<1>4. n \notin T
  <2> HIDE DEF T
  <2> QED
    BY <1>3
<1> QED
  BY <1>4 DEF Stepwise

\* The functions inside of RelevantPreferences and NewestFirst.
Newer(entries, n) == entries[Len(entries) + 1 - n]
Collects(entries, type, g) ==
    g = [n \in 0..Len(entries) |->
            IF n = 0 THEN <<>>
            ELSE IF ProblemType[Newer(entries, n)] # type \/ Len(g[n - 1]) >= Limit
                 THEN g[n - 1]
                 ELSE g[n - 1] \o Preferences[Newer(entries, n)]]
ListsAll(entries, type, g) ==
    g = [n \in 0..Len(entries) |->
            IF n = 0 THEN <<>>
            ELSE IF ProblemType[entries[n]] # type THEN g[n - 1]
                 ELSE Preferences[entries[n]] \o g[n - 1]]

\* The loop has such a function.
LEMMA CollectsExists ==
    ASSUME NEW entries \in Seq(Entries), NEW type
    PROVE  \E g \in [0..Len(entries) -> Seq(Wordings)] : Collects(entries, type, g)
<1> DEFINE S == Seq(Wordings)
           N == Len(entries)
           base == <<>>
           Next1(n, s) == IF ProblemType[Newer(entries, n)] # type \/ Len(s) >= Limit
                          THEN s ELSE s \o Preferences[Newer(entries, n)]
           step == [n \in 1..N |-> [s \in S |-> Next1(n, s)]]
<1>1. N \in Nat /\ base \in S
  OBVIOUS
<1>2. step \in [1..N -> [S -> S]]
  <2>1. \A n \in 1..N : Newer(entries, n) \in Entries
    BY DEF Newer
  <2>2. ASSUME NEW n \in 1..N, NEW s \in S PROVE Next1(n, s) \in S
    <3>1. Preferences[Newer(entries, n)] \in Seq(Wordings)
      BY <2>1, PreferencesAssumption
    <3> QED
      BY <3>1, ConcatProperties
  <2> HIDE DEF S, Next1
  <2> QED
    BY <2>2
<1>3. PICK g : Stepwise(g, N, S, base, step)
  <2> HIDE DEF step, S, N, base
  <2> QED
    BY <1>1, <1>2, StepwiseFunction, Zenon
<1>4. ASSUME NEW n \in 1..N PROVE g[n] = Next1(n, g[n - 1])
  <2> HIDE DEF S, Next1, base
  <2>1. g[n - 1] \in S
    BY <1>3, <1>1 DEF Stepwise
  <2> QED
    BY <1>3, <2>1 DEF Stepwise
<1>5. g = [n \in 0..N |-> IF n = 0 THEN base ELSE Next1(n, g[n - 1])]
  <2> HIDE DEF S, Next1, N, base
  <2> QED
    BY <1>1, <1>3, <1>4 DEF Stepwise
<1> QED
  BY <1>3, <1>5, Zenon DEF Stepwise, Collects

\* The list of all preferences has one, too.
LEMMA ListsAllExists ==
    ASSUME NEW entries \in Seq(Entries), NEW type
    PROVE  \E g \in [0..Len(entries) -> Seq(Wordings)] : ListsAll(entries, type, g)
<1> DEFINE S == Seq(Wordings)
           N == Len(entries)
           base == <<>>
           Next1(n, s) == IF ProblemType[entries[n]] # type THEN s
                          ELSE Preferences[entries[n]] \o s
           step == [n \in 1..N |-> [s \in S |-> Next1(n, s)]]
<1>1. N \in Nat /\ base \in S
  OBVIOUS
<1>2. step \in [1..N -> [S -> S]]
  <2>1. \A n \in 1..N : entries[n] \in Entries
    OBVIOUS
  <2>2. ASSUME NEW n \in 1..N, NEW s \in S PROVE Next1(n, s) \in S
    <3>1. Preferences[entries[n]] \in Seq(Wordings)
      BY <2>1, PreferencesAssumption
    <3> QED
      BY <3>1, ConcatProperties
  <2> HIDE DEF S, Next1
  <2> QED
    BY <2>2
<1>3. PICK g : Stepwise(g, N, S, base, step)
  <2> HIDE DEF step, S, N, base
  <2> QED
    BY <1>1, <1>2, StepwiseFunction, Zenon
<1>4. ASSUME NEW n \in 1..N PROVE g[n] = Next1(n, g[n - 1])
  <2> HIDE DEF S, Next1, base
  <2>1. g[n - 1] \in S
    BY <1>3, <1>1 DEF Stepwise
  <2> QED
    BY <1>3, <2>1 DEF Stepwise
<1>5. g = [n \in 0..N |-> IF n = 0 THEN base ELSE Next1(n, g[n - 1])]
  <2> HIDE DEF S, Next1, N, base
  <2> QED
    BY <1>1, <1>3, <1>4 DEF Stepwise
<1> QED
  BY <1>3, <1>5, Zenon DEF Stepwise, ListsAll

\* Such a function is a list at every number.
LEMMA CollectsType ==
    ASSUME NEW entries \in Seq(Entries), NEW type, NEW g, Collects(entries, type, g)
    PROVE  \A n \in 0..Len(entries) : g[n] \in Seq(Wordings)
<1> DEFINE Typed(n) == g[n] \in Seq(Wordings)
           T == {n \in 0..Len(entries) : ~Typed(n)}
<1>1. Typed(0)
  <2>1. g[0] = <<>>
    BY DEF Collects
  <2>2. <<>> \in Seq(Wordings)
    OBVIOUS
  <2> QED
    BY <2>1, <2>2, Zenon
<1>2. ASSUME NEW k \in 1..Len(entries), Typed(k - 1) PROVE Typed(k)
  <2>1. Preferences[Newer(entries, k)] \in Seq(Wordings)
    BY PreferencesAssumption DEF Newer
  <2>2. g[k - 1] \o Preferences[Newer(entries, k)] \in Seq(Wordings)
    BY <1>2, <2>1, ConcatProperties
  <2>3. g[k] \in {g[k - 1], g[k - 1] \o Preferences[Newer(entries, k)]}
    <3>1. k \in 0..Len(entries) /\ k # 0
      OBVIOUS
    <3> QED
      BY <3>1, Zenon DEF Collects
  <2> QED
    BY <1>2, <2>2, <2>3, Zenon
<1>3. T = {}
  <2> HIDE DEF Typed
  <2>1. /\ T \in SUBSET (0..Len(entries)) /\ Len(entries) \in Nat
        /\ 0 \notin T /\ \A k \in 1..Len(entries) : k \in T => k - 1 \in T
    BY <1>1, <1>2
  <2> HIDE DEF T
  <2> QED
    BY <2>1, NoLeastException
<1> QED
  BY <1>3

\* The same of the list of all preferences.
LEMMA ListsAllType ==
    ASSUME NEW entries \in Seq(Entries), NEW type, NEW g, ListsAll(entries, type, g)
    PROVE  \A n \in 0..Len(entries) : g[n] \in Seq(Wordings)
<1> DEFINE Typed(n) == g[n] \in Seq(Wordings)
           T == {n \in 0..Len(entries) : ~Typed(n)}
<1>1. Typed(0)
  <2>1. g[0] = <<>>
    BY DEF ListsAll
  <2>2. <<>> \in Seq(Wordings)
    OBVIOUS
  <2> QED
    BY <2>1, <2>2, Zenon
<1>2. ASSUME NEW k \in 1..Len(entries), Typed(k - 1) PROVE Typed(k)
  <2>1. Preferences[entries[k]] \in Seq(Wordings)
    BY PreferencesAssumption
  <2>2. Preferences[entries[k]] \o g[k - 1] \in Seq(Wordings)
    BY <1>2, <2>1, ConcatProperties
  <2>3. g[k] \in {g[k - 1], Preferences[entries[k]] \o g[k - 1]}
    <3>1. k \in 0..Len(entries) /\ k # 0
      OBVIOUS
    <3> QED
      BY <3>1, Zenon DEF ListsAll
  <2> QED
    BY <1>2, <2>2, <2>3, Zenon
<1>3. T = {}
  <2> HIDE DEF Typed
  <2>1. /\ T \in SUBSET (0..Len(entries)) /\ Len(entries) \in Nat
        /\ 0 \notin T /\ \A k \in 1..Len(entries) : k \in T => k - 1 \in T
    BY <1>1, <1>2
  <2> HIDE DEF T
  <2> QED
    BY <2>1, NoLeastException
<1> QED
  BY <1>3

\* The front of a concatenation is a prefix of it, and so is what it is cut to.
LEMMA FrontIsPrefix ==
    ASSUME NEW S, NEW s \in Seq(S), NEW t \in Seq(S), NEW k \in 0..Len(s)
    PROVE  /\ IsPrefix(SubSeq(s, 1, k), s \o t)
           /\ Len(SubSeq(s, 1, k)) = k
<1>1. /\ s \o t \in Seq(S) /\ Len(s \o t) = Len(s) + Len(t)
      /\ \A i \in 1..Len(s) : (s \o t)[i] = s[i]
  BY ConcatProperties
<1> DEFINE p == SubSeq(s, 1, k)
           q == SubSeq(s \o t, 1, k)
<1>2. p \in Seq(S) /\ Len(p) = k /\ \A i \in 1..k : p[i] = s[i]
  OBVIOUS
<1>3. q \in Seq(S) /\ Len(q) = k /\ \A i \in 1..k : q[i] = s[i]
  <2> HIDE DEF p
  <2> DEFINE u == s \o t
  <2>1. u \in Seq(S) /\ k \in 0..Len(u)
    BY <1>1
  <2>2. \A i \in 1..k : u[i] = s[i]
    BY <1>1
  <2> HIDE DEF u
  <2>3. /\ SubSeq(u, 1, k) \in Seq(S) /\ Len(SubSeq(u, 1, k)) = k
        /\ \A i \in 1..k : SubSeq(u, 1, k)[i] = u[i]
    BY <2>1
  <2> QED
    BY <2>2, <2>3 DEF u
<1>4. SubSeq(p, 1, Len(p)) = p
  BY <1>2, SubSeqFull
<1>5. p = q
  <2> HIDE DEF p, q
  <2> QED
    BY <1>2, <1>3, SeqEqual
<1>6. Len(p) <= Len(s \o t)
  BY <1>1, <1>2
<1> QED
  BY <1>2, <1>4, <1>5, <1>6 DEF IsPrefix

\* What was collected after the n newest entries, in front of what the other
\* entries carry, is everything; or it is a front of everything that is long enough.
LEMMA CollectedIsAFront ==
    ASSUME NEW entries \in Seq(Entries), NEW type,
           NEW g, Collects(entries, type, g), NEW h, ListsAll(entries, type, h)
    PROVE  \/ g[Len(entries)] = h[Len(entries)]
           \/ /\ Len(g[Len(entries)]) >= Limit
              /\ \E t \in Seq(Wordings) : g[Len(entries)] \o t = h[Len(entries)]
<1> DEFINE N == Len(entries)
           Whole(n) == g[n] \o h[N - n] = h[N]
           Enough(n) == Len(g[n]) >= Limit /\ \E t \in Seq(Wordings) : g[n] \o t = h[N]
           T == {n \in 0..N : ~(Whole(n) \/ Enough(n))}
<1>1. N \in Nat
  OBVIOUS
<1>2. /\ \A n \in 0..N : g[n] \in Seq(Wordings)
      /\ \A n \in 0..N : h[n] \in Seq(Wordings)
  BY CollectsType, ListsAllType
<1>3. g[0] = <<>> /\ h[0] = <<>>
  BY <1>1 DEF Collects, ListsAll
<1>4. 0 \notin T
  <2>1. h[N] \in Seq(Wordings)
    BY <1>1, <1>2
  <2>2. <<>> \o h[N] = h[N]
    BY <2>1, ConcatEmptySeq
  <2>3. Whole(0)
    BY <1>1, <1>3, <2>2
  <2> QED
    BY <2>3
<1>5. ASSUME NEW k \in 1..N, k \in T PROVE k - 1 \in T
  <2> SUFFICES ASSUME k - 1 \notin T PROVE FALSE
    OBVIOUS
  <2> DEFINE e == Newer(entries, k)
  <2>1. /\ k - 1 \in 0..N /\ N - k \in 0..N /\ N + 1 - k \in 1..N
        /\ N - (k - 1) = N + 1 - k /\ (N + 1 - k) - 1 = N - k
    BY <1>1
  <2>2. e = entries[N + 1 - k] /\ e \in Entries
    BY <2>1 DEF Newer
  <2>3. g[k] = IF ProblemType[e] # type \/ Len(g[k - 1]) >= Limit
               THEN g[k - 1] ELSE g[k - 1] \o Preferences[e]
    <3>1. k \in 0..N /\ k # 0
      BY <1>1
    <3> QED
      BY <3>1, Zenon DEF Collects
  <2>4. h[N + 1 - k] = IF ProblemType[e] # type THEN h[N - k]
                       ELSE Preferences[e] \o h[N - k]
    <3>1. h[N + 1 - k] = IF ProblemType[entries[N + 1 - k]] # type
                         THEN h[(N + 1 - k) - 1]
                         ELSE Preferences[entries[N + 1 - k]] \o h[(N + 1 - k) - 1]
      <4>1. N + 1 - k \in 0..N /\ N + 1 - k # 0
        BY <2>1
      <4> QED
        BY <4>1, Zenon DEF ListsAll
    <3> QED
      BY <2>1, <2>2, <3>1
  <2>5. /\ g[k - 1] \in Seq(Wordings) /\ h[N - k] \in Seq(Wordings)
        /\ h[N + 1 - k] \in Seq(Wordings) /\ Preferences[e] \in Seq(Wordings)
    BY <1>2, <2>1, <2>2, PreferencesAssumption
  <2>6. Whole(k - 1) \/ Enough(k - 1)
    BY <2>1
  <2>7. Whole(k - 1) => g[k - 1] \o h[N + 1 - k] = h[N]
    BY <2>1
  <2> HIDE DEF e, T
  <2>8. Whole(k) \/ Enough(k)
    <3>1. CASE Len(g[k - 1]) >= Limit
      <4>1. g[k] = g[k - 1]
        BY <2>3, <3>1
      <4>2. \E t \in Seq(Wordings) : g[k - 1] \o t = h[N]
        BY <2>5, <2>6, <2>7
      <4> QED
        BY <3>1, <4>1, <4>2
    <3>2. CASE ~(Len(g[k - 1]) >= Limit)
      <4>1. g[k - 1] \o h[N + 1 - k] = h[N]
        BY <2>6, <2>7, <3>2
      <4>2. CASE ProblemType[e] # type
        BY <2>3, <2>4, <4>1, <4>2
      <4>3. CASE ProblemType[e] = type
        <5>1. g[k] = g[k - 1] \o Preferences[e] /\ h[N + 1 - k] = Preferences[e] \o h[N - k]
          BY <2>3, <2>4, <3>2, <4>3
        <5>2. (g[k - 1] \o Preferences[e]) \o h[N - k]
                  = g[k - 1] \o (Preferences[e] \o h[N - k])
          <6> DEFINE a == g[k - 1]
                     b == Preferences[e]
                     c == h[N - k]
          <6>1. a \in Seq(Wordings) /\ b \in Seq(Wordings) /\ c \in Seq(Wordings)
            BY <2>5
          <6> HIDE DEF a, b, c
          <6>2. (a \o b) \o c = a \o (b \o c)
            BY ONLY <6>1, ConcatAssociative, SMTT(60)
          <6> QED
            BY <6>2 DEF a, b, c
        <5> QED
          BY <4>1, <5>1, <5>2
      <4> QED
        BY <4>2, <4>3
    <3> QED
      BY <3>1, <3>2
  <2> QED
    BY <1>5, <2>8 DEF T
<1>6. T = {}
  <2>1. T \in SUBSET (0..N)
    OBVIOUS
  <2> HIDE DEF T, N
  <2> QED
    BY <1>1, <1>4, <1>5, <2>1, NoLeastException
<1>7. Whole(N) \/ Enough(N)
  <2>1. N \in 0..N
    BY <1>1
  <2> QED
    BY <1>6, <2>1
<1>8. Whole(N) => g[N] = h[N]
  <2>1. N - N = 0 /\ g[N] \in Seq(Wordings)
    BY <1>1, <1>2
  <2> QED
    BY <1>3, <2>1, ConcatEmptySeq
<1> QED
  BY <1>7, <1>8

\* What the explainer is given is a front of all preferences of the type, newest
\* first: all of them or as many as the limit.
LEMMA RelevantAreNewest ==
    ASSUME NEW entries \in Seq(Entries), NEW type
    PROVE  /\ IsPrefix(RelevantPreferences(entries, type), NewestFirst(entries, type))
           /\ \/ RelevantPreferences(entries, type) = NewestFirst(entries, type)
              \/ Len(RelevantPreferences(entries, type)) = Limit
<1> DEFINE g == CHOOSE f : Collects(entries, type, f)
           h == CHOOSE f : ListsAll(entries, type, f)
           N == Len(entries)
           all == g[N]
           k == Smaller(Len(all), Limit)
<1>1. RelevantPreferences(entries, type) = SubSeq(all, 1, k)
  BY DEF RelevantPreferences, Collects, Newer
<1>2. NewestFirst(entries, type) = h[N]
  BY DEF NewestFirst, ListsAll
<1>3. Collects(entries, type, g) /\ ListsAll(entries, type, h)
  BY CollectsExists, ListsAllExists
<1> HIDE DEF g, h
<1>4. N \in Nat /\ all \in Seq(Wordings) /\ h[N] \in Seq(Wordings)
  BY <1>3, CollectsType, ListsAllType
<1>5. all = h[N] \/ (Len(all) >= Limit /\ \E t \in Seq(Wordings) : all \o t = h[N])
  BY <1>3, CollectedIsAFront, SMTT(30)
<1> HIDE DEF all, N
<1>6. PICK t \in Seq(Wordings) : all \o t = h[N]
  <2>1. <<>> \in Seq(Wordings) /\ all \o <<>> = all
    BY <1>4, ConcatEmptySeq
  <2> QED
    BY <1>5, <2>1
<1>7. Len(all) \in Nat /\ k \in 0..Len(all) /\ (k = Len(all) \/ k = Limit)
  BY <1>4, LimitAssumption DEF Smaller
<1>8. Len(all) >= Limit => k = Limit
  BY <1>7, LimitAssumption DEF Smaller
<1> HIDE DEF k
<1>9. IsPrefix(SubSeq(all, 1, k), h[N]) /\ Len(SubSeq(all, 1, k)) = k
  BY <1>4, <1>6, <1>7, FrontIsPrefix
<1>10. k = Len(all) => SubSeq(all, 1, k) = all
  BY <1>4, SubSeqFull
<1> QED
  BY <1>1, <1>2, <1>5, <1>7, <1>8, <1>9, <1>10

\* Whatever the log went through, the explainer is given the newest preferences
\* of the session's problem type, in their order and up to the limit.
THEOREM NewestPreferences == Spec => []PreferencesAreTheNewest
<1>1. IInv => Loaded \in Seq(Entries)
  BY DEF IInv, TextsAreSound, Sound, Loaded
<1>2. IInv => PreferencesAreTheNewest
  BY <1>1, RelevantAreNewest DEF PreferencesAreTheNewest
<1> QED
  BY <1>2, Inductive, PTL

=============================================================================
