\* A run commits between the reads of tax_rule_runs and tax_findings.
SPECIFICATION BackupSpec
CONSTANTS
    Batch = {b1}
    TaxRun = {r1}
    Creator = {c1}
    ChainMayFork = FALSE
INVARIANT
    BackupsRestore
