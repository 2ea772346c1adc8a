---------------------------- MODULE MCMigration ----------------------------
(* Migration on small instances; the configurations choose among these sets. *)
EXTENDS Migration, TLC

CONSTANTS t1, t2, c1, c2

OneThread  == {t1}
TwoThreads == {t1, t2}
OneAp      == {1}
TwoAps     == {1, 3}     \* APIC ids need not be contiguous
OneContext == {c1}
TwoContexts == {c1, c2}
Nobody     == {}
Nothing    == {}
OneStep    == {<<c1, c2>>}
Autorun    == {"autorun"}
Manual     == {"manual"}
AllModes   == {"system", "manual", "autorun"}
OnlyT1     == {t1}

=============================================================================
