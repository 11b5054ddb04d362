------------------------------- MODULE Export -------------------------------
(* The export of the audit log (security/audit/page.tsx, exportCsv): page  *)
(* after page of the rows under one filter, newest first, each page a      *)
(* query of its own (security.service.ts, listAuditLogs), while rows are   *)
(* still written.                                                          *)
EXTENDS Naturals, FiniteSets

CONSTANTS
    Row,
    PageSize, MaxPages,   \* 100 and 100 in the code
    MaxTime               \* bound: the times rows are written at

ExportAssumption == PageSize \in Nat \ {0} /\ MaxPages \in Nat /\ MaxTime \in Nat \ {0}

VARIABLES
    now,
    log,      \* when each row was written; 0 for a row that is not
    next,     \* the page the export asks for next; 0 before it begins
    last,     \* the number of pages the last reply told of
    file,     \* the rows read so far
    begun,    \* history: the rows there were at the beginning
    state     \* of the export

vars == <<now, log, next, last, file, begun, state>>

Written == {r \in Row : log[r] > 0}
Ceiling(n) == (n + PageSize - 1) \div PageSize

(* The sets a query may return as page p of the rows, newest first: rows   *)
(* of the same time come in no particular order.                           *)
PagesOf(p) ==
    LET newer(r) == Cardinality({s \in Written : log[s] > log[r]})
        same(r)  == {s \in Written : log[s] = log[r]}
        from == (p - 1) * PageSize
        size == IF Cardinality(Written) - from < PageSize
                THEN IF Cardinality(Written) > from THEN Cardinality(Written) - from ELSE 0
                ELSE PageSize
        \* a row of rank newer(r) .. newer(r) + |same(r)| - 1 lies on the page
        certain == {r \in Written : newer(r) >= from /\ newer(r) + Cardinality(same(r)) <= from + PageSize}
        possible == {r \in Written : newer(r) < from + PageSize /\ newer(r) + Cardinality(same(r)) > from}
    IN  {rows \in SUBSET possible : certain \subseteq rows /\ Cardinality(rows) = size
            /\ \A r \in possible :
                Cardinality(rows \cap same(r)) =
                    LET lo == IF newer(r) > from THEN newer(r) ELSE from
                        hi == IF newer(r) + Cardinality(same(r)) < from + PageSize
                              THEN newer(r) + Cardinality(same(r)) ELSE from + PageSize
                    IN  hi - lo}

Init ==
    /\ now = 1 /\ log = [r \in Row |-> 0]
    /\ next = 0 /\ last = 0 /\ file = {} /\ begun = {} /\ state = "idle"

Tick == now < MaxTime /\ now' = now + 1 /\ UNCHANGED <<log, next, last, file, begun, state>>

Write(r) ==
    /\ log[r] = 0
    /\ log' = [log EXCEPT ![r] = now]
    /\ UNCHANGED <<now, next, last, file, begun, state>>

Begin ==
    /\ state = "idle"
    /\ state' = "reading" /\ next' = 1 /\ begun' = Written
    /\ UNCHANGED <<now, log, last, file>>

(* The loop ends after the page the reply says is the last. *)
ReadPageOfFirstTotal ==
    /\ state = "reading" /\ next <= MaxPages
    /\ \E rows \in PagesOf(next) : file' = file \cup rows
    /\ last' = IF next = 1 THEN Ceiling(Cardinality(Written)) ELSE last
    /\ IF next >= last' THEN state' = "saved" /\ UNCHANGED next ELSE next' = next + 1 /\ UNCHANGED state
    /\ UNCHANGED <<now, log, begun>>

ReadPage ==
    /\ state = "reading" /\ next <= MaxPages
    /\ \E rows \in PagesOf(next) : file' = file \cup rows
    /\ last' = Ceiling(Cardinality(Written))
    /\ IF next >= last' THEN state' = "saved" /\ UNCHANGED next ELSE next' = next + 1 /\ UNCHANGED state
    /\ UNCHANGED <<now, log, begun>>

(* After MaxPages pages the file is saved without a word about the rest. *)
Truncate ==
    /\ state = "reading" /\ next > MaxPages
    /\ state' = "saved"
    /\ UNCHANGED <<now, log, next, last, file, begun>>

(* A reply that fails leaves no file. *)
Abandon ==
    /\ state = "reading"
    /\ state' = "failed"
    /\ UNCHANGED <<now, log, next, last, file, begun>>

Next ==
    \/ Tick
    \/ \E r \in Row : Write(r)
    \/ Begin \/ ReadPage \/ Truncate \/ Abandon

Spec == Init /\ [][Next]_vars

-----------------------------------------------------------------------------
(* The log, and how far the export has come.                              *)
TypeOK ==
    /\ now \in 1..MaxTime /\ log \in [Row -> 0..MaxTime]
    /\ next \in 0..MaxPages + 1 /\ last \in Nat
    /\ file \subseteq Written /\ begun \subseteq Written
    /\ state \in {"idle", "reading", "saved", "failed"}

(* A saved file has every row there was when the export began, however     *)
(* many are written during it: rows written meanwhile push rows to later   *)
(* pages, never to earlier ones. Only a row of the same time as another    *)
(* can slip through between two pages, and rows past the last page that    *)
(* is read (audit/page.tsx, the comment on exportCsv).                     *)
ExportMissesNothing ==
    state = "saved" /\ next <= MaxPages =>
        \A r \in begun \ file : \E s \in Written \ {r} : log[s] = log[r]
=============================================================================
