------------------------------ MODULE TaxRules ------------------------------
(***************************************************************************)
(* validate_rule_pack and evaluate_rule of tax_rules.py, as _evaluate_row  *)
(* of taxflow.py applies a pack to one stored transaction.  Decimals are   *)
(* integers: amounts and taxes in ten-thousandths (MONEY_QUANTUM), rates   *)
(* in millionths (RATE_QUANTUM), a product of both in Cent-ths below.      *)
(***************************************************************************)
EXTENDS Integers, Sequences

CONSTANTS
    Pack,       \* rule packs a request may bring
    TaxRow      \* stored transactions

Cent == 100000000       \* 0.01 in units of 10^-10
AllowedOperators == {"required_all", "computed_equal", "in_set", "gte"}

\* A rule's severity and message count by whether they are acceptable.
RuleFields == {"code", "operator", "described", "value", "tolerance"}
RowFields == {"amount", "rate", "tax", "ids", "duplicate"}

ASSUME TaxRulesAssumption ==
    /\ \A p \in Pack : \A i \in 1 .. Len(p) : DOMAIN p[i] = RuleFields
    /\ \A row \in TaxRow : /\ DOMAIN row = RowFields
                           /\ row.amount \in Nat /\ row.rate \in Nat /\ row.tax \in Nat

VARIABLES pack, taxRow, verdict

rulesVars == <<pack, taxRow, verdict>>

----------------------------------------------------------------------------
CodesUnique(p) ==
    /\ \A i \in 1 .. Len(p) : p[i].code # ""
    /\ \A i, j \in 1 .. Len(p) : p[i].code = p[j].code => i = j

ValidPack(p) ==
    /\ CodesUnique(p)
    /\ \A i \in 1 .. Len(p) : p[i].operator \in AllowedOperators /\ p[i].described

\* quantize(Decimal("0.01"), ROUND_HALF_UP) of a number that is not negative.
ToCents(x) == ((x + Cent \div 2) \div Cent) * Cent

Exact(row) == row.amount * row.rate
Actual(row) == row.tax * 1000000
Distance(x, y) == IF x < y THEN y - x ELSE x - y

\* Mutant: a difference of the tolerance itself is flagged.
NotEqualNorTolerated(rule, row) == Distance(ToCents(Exact(row)), Actual(row)) >= rule.tolerance

ComputedUnequal(rule, row) == Distance(ToCents(Exact(row)), Actual(row)) > rule.tolerance

\* evaluate_rule: does the rule flag the row?
Flags(rule, row) ==
    CASE rule.operator = "required_all" -> row.ids \cap {"", "none"} # {}
      [] rule.operator = "computed_equal" -> ComputedUnequal(rule, row)
      [] rule.operator = "in_set" -> row.duplicate
      [] rule.operator = "gte" -> row.amount >= rule.value

\* _evaluate_row: a finding for each rule that flags the row, by its place in the pack.
RowFindings(p, row) == {i \in 1 .. Len(p) : Flags(p[i], row)}

----------------------------------------------------------------------------
RulesTypeOK ==
    /\ pack \in Pack
    /\ taxRow \in TaxRow
    /\ verdict.kind \in {"none", "refused", "judged"}

NoVerdict == [kind |-> "none", findings |-> {}]

RulesInit ==
    /\ pack \in Pack
    /\ taxRow \in TaxRow
    /\ verdict = NoVerdict

\* The pack is checked before the run begins; ValueError answers 409.
Refuse ==
    /\ verdict.kind = "none"
    /\ ~ValidPack(pack)
    /\ verdict' = [kind |-> "refused", findings |-> {}]
    /\ UNCHANGED <<pack, taxRow>>

Judge ==
    /\ verdict.kind = "none"
    /\ ValidPack(pack)
    /\ verdict' = [kind |-> "judged", findings |-> RowFindings(pack, taxRow)]
    /\ UNCHANGED <<pack, taxRow>>

RulesNext == Refuse \/ Judge

RulesSpec == RulesInit /\ [][RulesNext]_rulesVars

----------------------------------------------------------------------------
RoundedTaxes(row) ==
    LET down == (Exact(row) \div Cent) * Cent IN
    IF down = Exact(row) THEN {down} ELSE {down, down + Cent}

(* The recalculation with a tolerance of a cent never flags a tax that was *)
(* rounded to the cent by whatever rule (down, up, half to even), and      *)
(* always flags one that is off by more than a cent and a half; and no     *)
(* accepted pack finds one code twice on a row (evaluate_rule,             *)
(* validate_rule_pack).                                                    *)
FindingsAreDue ==
    verdict.kind = "judged" =>
        /\ \A i, j \in verdict.findings : pack[i].code = pack[j].code => i = j
        /\ \A i \in 1 .. Len(pack) :
              pack[i].operator = "computed_equal" /\ pack[i].tolerance = Cent =>
                  /\ Actual(taxRow) \in RoundedTaxes(taxRow) => i \notin verdict.findings
                  /\ 2 * Distance(Exact(taxRow), Actual(taxRow)) > 3 * Cent
                         => i \in verdict.findings
=============================================================================
