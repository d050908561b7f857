---------------------------- MODULE CasePromise ----------------------------
(***************************************************************************)
(* What a case promises whoever opens it: "An ingest either lands or does  *)
(* not", and so does a scan.  Evidence is added and never rewritten, and a *)
(* scan's findings are those of one set of events that the case held.      *)
(* How many processes work on it, and which of them die, does not show.    *)
(***************************************************************************)
EXTENDS Naturals, FiniteSets

CONSTANTS
    None,           \* no value
    Readings,       \* what may land: [bundle, events, artifacts, gaps]
    RuleSets,       \* the rules that may be run
    Findings(_, _)  \* what rules find in a table of events

VARIABLE rows

Nothing == [x \in {} |-> None]

Init == rows = [bundles |-> Nothing, artifacts |-> Nothing, events |-> Nothing,
                gaps |-> {}, findings |-> Nothing, runs |-> {}, last |-> None]

(* The table has these keys more, and what it had is as it was. *)
Grows(table, grown, keys) ==
    /\ DOMAIN grown = DOMAIN table \cup keys
    /\ \A k \in DOMAIN table : grown[k] = table[k]

Same(tables) == \A t \in tables : rows'[t] = rows[t]

(* The whole of a reading. *)
Land(r) ==
    /\ Grows(rows.bundles, rows'.bundles, {r.bundle})
    /\ Grows(rows.events, rows'.events, {v.id : v \in r.events})
    /\ \A k \in DOMAIN rows'.events \ DOMAIN rows.events :
          [id |-> k, payload |-> rows'.events[k]] \in r.events
    /\ DOMAIN rows'.artifacts = DOMAIN rows.artifacts \cup {a.key : a \in r.artifacts}
    /\ \A k \in DOMAIN rows'.artifacts :
          IF k \in {a.key : a \in r.artifacts}
          THEN [key |-> k, sha |-> rows'.artifacts[k].sha,
                status |-> rows'.artifacts[k].status] \in r.artifacts
          ELSE rows'.artifacts[k] = rows.artifacts[k]
    /\ rows'.gaps = rows.gaps \cup r.gaps
    /\ Same({"findings", "runs", "last"})

NameLast ==
    \E b \in DOMAIN rows.bundles : rows' = [rows EXCEPT !.last = b]

(* The whole of a scan, which may have read the case a while ago: found is *)
(* what its rules make of the events it saw.                               *)
StoreFound(rules, seen, found) ==
    /\ Grows(rows.findings, rows'.findings, {<<f.rule, f.events>> : f \in found})
    /\ \A k \in DOMAIN rows'.findings \ DOMAIN rows.findings :
          \E f \in found : k = <<f.rule, f.events>> /\ rows'.findings[k] = f.sha
    /\ \E run \in rows'.runs \ rows.runs :
          /\ rows'.runs = rows.runs \cup {run}
          /\ run.rules = {r.id : r \in rules}
          /\ run.eventsRead = Cardinality(seen)
          /\ run.findings = Cardinality(found)
    /\ Same({"bundles", "artifacts", "events", "gaps", "last"})

Store(rules) ==
    \E seen \in SUBSET DOMAIN rows.events :
        StoreFound(rules, seen, Findings(rules, [k \in seen |-> rows.events[k]]))

Next ==
    \/ \E r \in Readings : Land(r)
    \/ NameLast
    \/ \E rules \in RuleSets : Store(rules)

Spec == Init /\ [][Next]_rows
=============================================================================
