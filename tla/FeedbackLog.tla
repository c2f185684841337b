---------------------------- MODULE FeedbackLog ----------------------------
(***************************************************************************)
(* feedback/store.py: the JSON file behind POST /feedback and              *)
(* GET /preferences.  save_feedback loads the whole log, appends one entry *)
(* and writes the whole log back; opening the file for writing empties it  *)
(* first.  There is no lock, and the handlers of all sessions run in one   *)
(* thread pool.                                                            *)
(***************************************************************************)
EXTENDS Naturals, Sequences, FiniteSets, SequencesExt

CONSTANTS Threads,     \* request threads
          Entries,     \* feedback entries that may be posted, each once
          Idle,        \* a thread that has no entry
          ProblemType, \* the problem type of an entry
          Preferences, \* the preferences inferred from an entry, as a sequence
          Limit,       \* get_relevant_preferences' limit
          MaxCrashes   \* bound: times the process dies

ASSUME IdleAssumption == Idle \notin Entries
ASSUME EntriesAssumption == IsFiniteSet(Entries)

\* An entry carries a list of preferences.
Wordings == UNION {{Preferences[e][i] : i \in DOMAIN Preferences[e]} : e \in Entries}
ASSUME PreferencesAssumption == \A e \in Entries : Preferences[e] \in Seq(Wordings)

ASSUME LimitAssumption == Limit \in Nat \ {0}
ASSUME MaxCrashesAssumption == MaxCrashes \in Nat

VARIABLES disk,      \* the file is "empty", holds a "log" or is "broken" JSON
          log,       \* the entries it holds; <<>> unless disk = "log"
          pc,        \* per thread: "idle", "load", "open", "write"
          entry,     \* per thread: the entry being saved
          raw,       \* per thread: the log it loaded, with its entry appended
          posted,    \* entries that were posted
          acked,     \* entries answered with ok, in that order
          crashes,   \* how often the process died
          disturbed  \* history: two saves overlapped or the process died

vars == <<disk, log, pc, entry, raw, posted, acked, crashes, disturbed>>

Logs == UNION {[1..n -> Entries] : n \in 0..Cardinality(Entries)}

\* The variables and their types.
TypeOK ==
    /\ disk \in {"empty", "log", "broken"}
    /\ log \in Logs /\ (disk # "log" => log = <<>>)
    /\ pc \in [Threads -> {"idle", "load", "open", "write"}]
    /\ entry \in [Threads -> Entries \cup {Idle}]
    /\ \A t \in Threads : raw[t] \in Logs
    /\ posted \subseteq Entries
    /\ acked \in Logs
    /\ crashes \in 0..MaxCrashes
    /\ disturbed \in BOOLEAN

Init ==
    /\ disk = "empty" /\ log = <<>>
    /\ pc = [t \in Threads |-> "idle"]
    /\ entry = [t \in Threads |-> Idle]
    /\ raw = [t \in Threads |-> <<>>]
    /\ posted = {} /\ acked = <<>>
    /\ crashes = 0 /\ disturbed = FALSE

-----------------------------------------------------------------------------
\* _load_raw: a file that is missing, empty or broken reads as an empty log.
Loaded == IF disk = "log" THEN log ELSE <<>>

\* POST /feedback
Post(t, e) ==
    /\ pc[t] = "idle"
    /\ e \notin posted
    /\ posted' = posted \cup {e}
    /\ entry' = [entry EXCEPT ![t] = e]
    /\ pc' = [pc EXCEPT ![t] = "load"]
    /\ disturbed' = (disturbed \/ \E u \in Threads : pc[u] # "idle")
    /\ UNCHANGED <<disk, log, raw, acked, crashes>>

\* Mutant: the entry replaces the log instead of extending it.
MutLoad(t) ==
    /\ pc[t] = "load"
    /\ raw' = [raw EXCEPT ![t] = <<entry[t]>>]
    /\ pc' = [pc EXCEPT ![t] = "open"]
    /\ UNCHANGED <<disk, log, entry, posted, acked, crashes, disturbed>>

\* Mutant: the entry is appended once more than it should be.
MutLoadTwice(t) ==
    /\ pc[t] = "load"
    /\ raw' = [raw EXCEPT ![t] = Append(Append(Loaded, entry[t]), entry[t])]
    /\ pc' = [pc EXCEPT ![t] = "open"]
    /\ UNCHANGED <<disk, log, entry, posted, acked, crashes, disturbed>>

\* raw = _load_raw(); raw.append(...)
Load(t) ==
    /\ pc[t] = "load"
    /\ raw' = [raw EXCEPT ![t] = Append(Loaded, entry[t])]
    /\ pc' = [pc EXCEPT ![t] = "open"]
    /\ UNCHANGED <<disk, log, entry, posted, acked, crashes, disturbed>>

\* Mutant: the entries come in before the file is emptied.
MutOpen(t) ==
    /\ pc[t] = "open"
    /\ disk' = "empty" /\ log' = raw[t]
    /\ pc' = [pc EXCEPT ![t] = "write"]
    /\ UNCHANGED <<entry, raw, posted, acked, crashes, disturbed>>

\* open(..., "w") empties the file.
Open(t) ==
    /\ pc[t] = "open"
    /\ disk' = "empty" /\ log' = <<>>
    /\ pc' = [pc EXCEPT ![t] = "write"]
    /\ UNCHANGED <<entry, raw, posted, acked, crashes, disturbed>>

\* The text is written from the start of the file.  Where another thread wrote
\* since the file was emptied, a longer text replaces that one and a shorter
\* one leaves its tail behind, which makes the file invalid.
Write(t) ==
    /\ pc[t] = "write"
    /\ \/ disk' = "log" /\ log' = raw[t]
       \/ disk # "empty" /\ disk' = "broken" /\ log' = <<>>
    /\ acked' = Append(acked, entry[t])
    /\ pc' = [pc EXCEPT ![t] = "idle"]
    /\ entry' = [entry EXCEPT ![t] = Idle]
    /\ raw' = [raw EXCEPT ![t] = <<>>]
    /\ UNCHANGED <<posted, crashes, disturbed>>

\* The process dies; an entry that was not answered may or may not be there,
\* and a text written in part reads like the empty file it started as.
Restart ==
    /\ crashes < MaxCrashes
    /\ crashes' = crashes + 1
    /\ disturbed' = TRUE
    /\ pc' = [t \in Threads |-> "idle"]
    /\ entry' = [t \in Threads |-> Idle]
    /\ raw' = [t \in Threads |-> <<>>]
    /\ UNCHANGED <<disk, log, posted, acked>>

Next == \/ \E t \in Threads : \/ \E e \in Entries : Post(t, e)
                              \/ Load(t) \/ Open(t) \/ Write(t)
        \/ Restart

Spec == Init /\ [][Next]_vars

-----------------------------------------------------------------------------
(* get_relevant_preferences: newest entries first, stop when there are      *)
(* enough, cut to the limit.                                                *)

Smaller(a, b) == IF a < b THEN a ELSE b

\* Mutant: the loop runs from the oldest entry on.
MutRelevantPreferences(entries, type) ==
    LET prefs[n \in 0..Len(entries)] ==
            IF n = 0 THEN <<>>
            ELSE IF ProblemType[entries[n]] # type \/ Len(prefs[n - 1]) >= Limit
            THEN prefs[n - 1]
            ELSE prefs[n - 1] \o Preferences[entries[n]]
        all == prefs[Len(entries)]
    IN  SubSeq(all, 1, Smaller(Len(all), Limit))

\* prefs[n]: what the loop has collected after the n newest entries.  It breaks
\* once there are Limit preferences; what it collected is cut.
RelevantPreferences(entries, type) ==
    LET prefs[n \in 0..Len(entries)] ==
            IF n = 0 THEN <<>>
            ELSE LET e == entries[Len(entries) + 1 - n]
                 IN  IF ProblemType[e] # type \/ Len(prefs[n - 1]) >= Limit
                     THEN prefs[n - 1]
                     ELSE prefs[n - 1] \o Preferences[e]
        all == prefs[Len(entries)]
    IN  SubSeq(all, 1, Smaller(Len(all), Limit))

\* All preferences of a type, those of a newer entry in front of the older ones.
NewestFirst(entries, type) ==
    LET all[n \in 0..Len(entries)] ==
            IF n = 0 THEN <<>>
            ELSE IF ProblemType[entries[n]] # type THEN all[n - 1]
            ELSE Preferences[entries[n]] \o all[n - 1]
    IN  all[Len(entries)]

-----------------------------------------------------------------------------
\* As long as no two saves overlapped and the process did not die, the log is
\* complete and in the order of the answers once nobody is saving.
QuietLogIsComplete ==
    (\A t \in Threads : pc[t] = "idle") /\ ~disturbed => Loaded = acked

\* Whatever was lost, a log that can be read lists posted entries only, and
\* none of them twice.
NothingInvented ==
    /\ \A i \in DOMAIN log : log[i] \in posted
    /\ IsInjective(log)

\* The explainer is given preferences of the session's problem type only, never
\* more than the limit, and never an older one while a newer entry's is left out.
PreferencesAreTheNewest ==
    \A type \in {ProblemType[e] : e \in Entries} :
        LET prefs == RelevantPreferences(Loaded, type)
            all == NewestFirst(Loaded, type)
        IN  IsPrefix(prefs, all) /\ (prefs = all \/ Len(prefs) = Limit)

=============================================================================
