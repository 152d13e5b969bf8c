----------------------------- MODULE SkuMapping -----------------------------
(***************************************************************************)
(* The SKU mapper of src/backend/sku-mapper: the import of channel SKUs,   *)
(* their matching with system SKUs by the language model, and the          *)
(* decisions users take on the mappings proposed to them.                  *)
(*                                                                         *)
(* A match reads the system SKUs, waits for the model and then writes all  *)
(* its results in one transaction; a user looks at a mapping and decides   *)
(* later.  Neither checks what has become of the mapping meanwhile.        *)
(***************************************************************************)
EXTENDS Naturals, FiniteSets, Sequences

CONSTANTS
  ChannelSkus, SystemSkus,
  Matches,    \* calls of batchMatch and matchSingle
  Decisions,  \* users that look at one mapping each and decide
  Batches,    \* the sequences of records to import; a record is a channel SKU
              \* and what becomes of it: "valid", "invalid", or "refused" by
              \* the database
  MaxFaults   \* bound: transactions and calls of the model that fail

MappingAssumption ==
  /\ Batches \subseteq Seq([sku : ChannelSkus, outcome : {"valid", "invalid", "refused"}])
  /\ MaxFaults \in Nat

VARIABLES
  channelSkus, \* the rows of channel_skus
  mapping,     \* mapping[c]: the row of sku_mappings
  corrections, \* corrections[c]: the corrected SKUs in sku_mapping_corrections
  match,       \* match[m]: the local variables of a match
  decision,    \* decision[d]: what the user saw and did
  chosen,      \* history: chosen[c], the SKU the last decision was about and
               \* whether the mapping had been changed since the user saw it
  import,      \* the import, its rows those the transaction will store
  faults

vars == <<channelSkus, mapping, corrections, match, decision, chosen, import, faults>>

Null == "null"
NoRow == [status |-> "none", sku |-> Null, matchType |-> "none"]
NoImport == [at |-> "idle"]

(* The tables outlive the process: SKUs may be there, and mappings of them *)
(* that wait for a decision.                                               *)
Init ==
  /\ channelSkus \in {{}, ChannelSkus}
  /\ mapping \in [ChannelSkus -> {NoRow} \cup
       {[status |-> "pending", sku |-> s, matchType |-> "needs_review"] : s \in SystemSkus}]
  /\ \A c \in ChannelSkus \ channelSkus : mapping[c] = NoRow
  /\ corrections = [c \in ChannelSkus |-> <<>>]
  /\ match = [m \in Matches |-> [at |-> "idle"]]
  /\ decision = [d \in Decisions |-> [at |-> "idle"]]
  /\ chosen = [c \in ChannelSkus |-> [sku |-> Null, stale |-> FALSE]]
  /\ import = NoImport
  /\ faults = 0

Fault ==
  /\ faults < MaxFaults
  /\ faults' = faults + 1

-----------------------------------------------------------------------------
(* parseLLMResponse and classifyResult: an answer names a SKU or none, and *)
(* its confidence decides.  The model may name a SKU that does not exist.  *)
Threshold == 85
Confidences == {0, 84, 85}
NoMatch == [sku |-> Null, matchType |-> "no_match"]
Classify(sku, confidence) ==
  IF confidence = 0 \/ sku = Null THEN NoMatch
  ELSE [sku |-> sku,
        matchType |-> IF confidence >= Threshold THEN "high_confidence" ELSE "needs_review"]
Answers == {Classify(s, k) : s \in SystemSkus \cup {Null, "unknown"}, k \in Confidences}

(* Without active system SKUs nothing matches; a single match stores that, *)
(* a batch does not.                                                       *)
Start(m, skus, single) ==
  /\ match[m].at = "idle"
  /\ \/ match' = [match EXCEPT ![m] = [at |-> "llm", skus |-> skus]]
     \/ match' = [match EXCEPT ![m] =
          IF single THEN [at |-> "persist", results |-> [c \in skus |-> NoMatch]]
                    ELSE [at |-> "done"]]
  /\ UNCHANGED <<channelSkus, mapping, corrections, decision, chosen, import, faults>>

(* matchBatch: what the model does not answer, and everything when it      *)
(* fails, is no match.                                                     *)
Llm(m) ==
  /\ match[m].at = "llm"
  /\ \/ /\ \E results \in [match[m].skus -> Answers] :
             match' = [match EXCEPT ![m] = [at |-> "persist", results |-> results]]
        /\ UNCHANGED faults
     \/ /\ Fault
        /\ match' = [match EXCEPT ![m] =
             [at |-> "persist", results |-> [c \in match[m].skus |-> NoMatch]]]
  /\ UNCHANGED <<channelSkus, mapping, corrections, decision, chosen, import>>

(* Mutant of Upserted: a decided mapping keeps its status.                 *)
UpsertedUnlessDecided(c, result) ==
  [status |-> IF mapping[c].status = "none" THEN "pending" ELSE mapping[c].status,
   sku |-> result.sku, matchType |-> result.matchType]

(* The upsert makes a mapping pending, whatever it was.                    *)
Upserted(c, result) ==
  [status |-> "pending", sku |-> result.sku, matchType |-> result.matchType]

(* What users saw of these mappings is no longer what they are.            *)
Outdated(skus) ==
  [e \in Decisions |->
     IF decision[e].at = "seen" /\ decision[e].c \in skus
       THEN [decision[e] EXCEPT !.stale = TRUE] ELSE decision[e]]

(* persistResults: one transaction; a channel SKU or a system SKU that     *)
(* does not exist breaks a foreign key, and all results are lost.          *)
Stored(results) ==
  \A c \in DOMAIN results : c \in channelSkus /\ results[c].sku \in SystemSkus \cup {Null}

Persist(m) ==
  /\ match[m].at = "persist"
  /\ LET results == match[m].results IN
       /\ Stored(results)
       /\ mapping' = [c \in ChannelSkus |-> IF c \in DOMAIN results THEN Upserted(c, results[c])
                                                                  ELSE mapping[c]]
       /\ decision' = Outdated(DOMAIN results)
  /\ match' = [match EXCEPT ![m] = [at |-> "done"]]
  /\ UNCHANGED <<channelSkus, corrections, chosen, import, faults>>

PersistFails(m) ==
  /\ match[m].at = "persist"
  /\ \/ ~Stored(match[m].results) /\ UNCHANGED faults
     \/ Fault
  /\ match' = [match EXCEPT ![m] = [at |-> "done"]]
  /\ UNCHANGED <<channelSkus, mapping, corrections, decision, chosen, import>>

-----------------------------------------------------------------------------
(* A user looks at a mapping.                                              *)
View(d, c) ==
  /\ decision[d].at = "idle"
  /\ mapping[c].status # "none"
  /\ decision' = [decision EXCEPT ![d] =
       [at |-> "seen", c |-> c, sku |-> mapping[c].sku, stale |-> FALSE]]
  /\ UNCHANGED <<channelSkus, mapping, corrections, match, chosen, import, faults>>

(* confirmMatch: the mapping is confirmed or rejected as it now is.        *)
Confirm(d, confirmed) ==
  /\ decision[d].at = "seen"
  /\ LET c == decision[d].c IN
       /\ mapping' = [mapping EXCEPT ![c].status =
            IF confirmed THEN "confirmed" ELSE "rejected"]
       /\ chosen' = [chosen EXCEPT ![c] =
            [sku |-> decision[d].sku, stale |-> decision[d].stale]]
  /\ decision' = [decision EXCEPT ![d] = [at |-> "done"]]
  /\ UNCHANGED <<channelSkus, corrections, match, import, faults>>

(* recordCorrection: the sample for learning, without the SKU it corrects, *)
(* and the mapping, in one transaction.                                    *)
Correct(d, sku) ==
  /\ decision[d].at = "seen"
  /\ LET c == decision[d].c IN
       /\ corrections' = [corrections EXCEPT ![c] = Append(@, sku)]
       /\ mapping' = [mapping EXCEPT ![c].status = "corrected", ![c].sku = sku]
       /\ chosen' = [chosen EXCEPT ![c] = [sku |-> sku, stale |-> FALSE]]
       /\ decision' = [Outdated({c}) EXCEPT ![d] = [at |-> "done"]]
  /\ UNCHANGED <<channelSkus, match, import, faults>>

(* The transaction fails: 500, nothing changed.                            *)
DecideFails(d) ==
  /\ decision[d].at = "seen"
  /\ Fault
  /\ decision' = [decision EXCEPT ![d] = [at |-> "done"]]
  /\ UNCHANGED <<channelSkus, mapping, corrections, match, chosen, import>>

-----------------------------------------------------------------------------
(* importChannelSkus: a transaction begins.                                *)
Import(batch) ==
  /\ import.at = "idle"
  /\ import' = [at |-> "importing", records |-> batch, next |-> 1, rows |-> {},
                aborted |-> FALSE, imported |-> 0, skipped |-> 0]
  /\ UNCHANGED <<channelSkus, mapping, corrections, match, decision, chosen, faults>>

(* PostgreSQL: after a statement that fails every other fails as well, and *)
(* COMMIT rolls back without an error.                                     *)
Aborted(outcome) == import.aborted \/ outcome = "refused"

(* One record: an invalid one is skipped, one whose INSERT throws too, the *)
(* others are counted.                                                     *)
ImportRecord ==
  /\ import.at = "importing"
  /\ import.next <= Len(import.records)
  /\ LET record == import.records[import.next]
         failing == record.outcome = "refused" \/ import.aborted
     IN
       import' =
         IF record.outcome = "invalid" \/ failing
           THEN [import EXCEPT !.next = @ + 1, !.skipped = @ + 1,
                               !.aborted = Aborted(record.outcome)]
           ELSE [import EXCEPT !.next = @ + 1, !.imported = @ + 1,
                               !.rows = @ \cup {record.sku}]
  /\ UNCHANGED <<channelSkus, mapping, corrections, match, decision, chosen, faults>>

Commit ==
  /\ import.at = "importing"
  /\ import.next > Len(import.records)
  /\ channelSkus' = IF import.aborted THEN channelSkus ELSE channelSkus \cup import.rows
  /\ import' = [import EXCEPT !.at = "returned", !.rows = IF import.aborted THEN {} ELSE @]
  /\ UNCHANGED <<mapping, corrections, match, decision, chosen, faults>>

CommitFails ==
  /\ import.at = "importing"
  /\ Fault
  /\ import' = [at |-> "failed"]
  /\ UNCHANGED <<channelSkus, mapping, corrections, match, decision, chosen>>

Next ==
  \/ \E m \in Matches :
       \/ \E skus \in SUBSET ChannelSkus \ {{}} : Start(m, skus, FALSE)
       \/ \E c \in ChannelSkus : Start(m, {c}, TRUE)
       \/ Llm(m)
       \/ Persist(m)
       \/ PersistFails(m)
  \/ \E d \in Decisions :
       \/ \E c \in ChannelSkus : View(d, c)
       \/ \E confirmed \in BOOLEAN : Confirm(d, confirmed)
       \/ \E sku \in SystemSkus : Correct(d, sku)
       \/ DecideFails(d)
  \/ \E batch \in Batches : Import(batch)
  \/ ImportRecord
  \/ Commit
  \/ CommitFails

Spec == Init /\ [][Next]_vars

-----------------------------------------------------------------------------
Results == [sku : SystemSkus \cup {Null, "unknown"},
            matchType : {"no_match", "needs_review", "high_confidence"}]

TypeOK ==
  /\ channelSkus \subseteq ChannelSkus
  /\ mapping \in [ChannelSkus -> [status : {"none", "pending", "confirmed", "rejected", "corrected"},
                                  sku : SystemSkus \cup {Null},
                                  matchType : {"none", "no_match", "needs_review", "high_confidence"}]]
  /\ \A c \in ChannelSkus :
       /\ corrections[c] \in Seq(SystemSkus)
       /\ mapping[c].status # "none" => c \in channelSkus
       /\ mapping[c].matchType = "high_confidence" /\ mapping[c].status = "pending" =>
            mapping[c].sku # Null
  /\ \A m \in Matches : match[m].at = "persist" =>
       \A c \in DOMAIN match[m].results : match[m].results[c] \in Results
  /\ chosen \in [ChannelSkus -> [sku : SystemSkus \cup {Null}, stale : BOOLEAN]]
  /\ faults \in Nat

(* A mapping that is confirmed names the SKU its user saw when confirming  *)
(* it, one that is corrected the SKU its user chose, and the latest sample *)
(* for learning names that one too.  A match or another correction that    *)
(* comes between the look and the click is the one exception: the          *)
(* confirmation is then of a SKU the user has not seen.  (That a decision  *)
(* lasts is DecisionsAreNotUndone.)                                        *)
ChoicesStand ==
  \A c \in ChannelSkus :
    /\ mapping[c].status \in {"confirmed", "corrected"} /\ ~chosen[c].stale =>
         mapping[c].sku = chosen[c].sku
    /\ mapping[c].status = "corrected" =>
         corrections[c] # <<>> /\ mapping[c].sku = corrections[c][Len(corrections[c])]

(* An import counts every record once, stores no invalid one, and with no  *)
(* record refused by the database all valid ones, whatever others are      *)
(* skipped.  (What a refused record does is ValidRecordsAreImported.)      *)
ValidSkus ==
  {import.records[i].sku : i \in {j \in DOMAIN import.records :
                                     import.records[j].outcome = "valid"}}
ImportAddsUp ==
  import.at = "returned" =>
    /\ import.imported + import.skipped = Len(import.records)
    /\ import.rows \subseteq ValidSkus \cap channelSkus
    /\ (\A i \in DOMAIN import.records : import.records[i].outcome # "refused") =>
         import.rows = ValidSkus

(* Property 5 of m2/design.md: an import stores as many SKUs as the input  *)
(* has valid records.  One record refused by the database aborts the       *)
(* transaction, whose COMMIT rolls back without an error, and the records  *)
(* before it are reported as imported all the same.                        *)
ValidRecordsAreImported == import.at = "returned" => ValidSkus \subseteq channelSkus

(* Requirement 12 of m2: the statistics count what users have confirmed or *)
(* corrected.  A match, even one begun before the decision, makes the      *)
(* mapping pending again.                                                  *)
DecisionsAreNotUndone ==
  [][\A c \in ChannelSkus :
       mapping[c].status \in {"confirmed", "corrected"} => mapping'[c].status # "pending"]_vars
=============================================================================
