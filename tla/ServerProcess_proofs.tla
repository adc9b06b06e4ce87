------------------------- MODULE ServerProcess_proofs ------------------------
(***************************************************************************)
(* Theorems about ServerProcess, for any key pairs, any number of backups  *)
(* kept and any number of days.                                            *)
(***************************************************************************)
EXTENDS ServerProcess, FiniteSetTheorems, WellFoundedInduction, TLAPS

-----------------------------------------------------------------------------
(* The directory of backups. *)

(* Sorting the names finds the oldest day. *)
LEMMA OldestFirst ==
    ASSUME DOMAIN backups \subseteq Nat, DOMAIN backups # {}
    PROVE  /\ FirstBackup \in DOMAIN backups
           /\ \A e \in DOMAIN backups : FirstBackup <= e
<1> DEFINE R == {p \in Nat \X Nat : p[1] < p[2]}
<1>1. IsWellFoundedOn(R, Nat)
  <2>1. R = OpToRel(<, Nat)
    BY DEF OpToRel
  <2> QED
    BY <2>1, NatLessThanWellFounded
<1>2. PICK x \in DOMAIN backups : \A y \in DOMAIN backups : <<y, x>> \notin R
  BY <1>1, WFMin
<1>3. ASSUME NEW y \in DOMAIN backups PROVE x <= y
  <2>1. x \in Nat /\ y \in Nat /\ <<y, x>> \notin R
    BY <1>2
  <2>2. ASSUME y < x PROVE <<y, x>> \in R
    BY <2>1, <2>2
  <2> QED
    BY <2>1, <2>2
<1> QED
  BY <1>2, <1>3 DEF FirstBackup, Min

(* What the directory holds after a removal ... *)
LEMMA WithoutDay ==
    ASSUME NEW d, backups \in [DOMAIN backups -> BOOLEAN]
    PROVE  /\ DOMAIN Without(d) = DOMAIN backups \ {d}
           /\ Without(d) \in [DOMAIN backups \ {d} -> BOOLEAN]
           /\ \A e \in DOMAIN backups \ {d} : Without(d)[e] = backups[e]
BY DEF Without

(* ... and after a file was written. *)
LEMMA WithDay ==
    ASSUME NEW d, NEW whole \in BOOLEAN, backups \in [DOMAIN backups -> BOOLEAN]
    PROVE  /\ DOMAIN With(d, whole) = DOMAIN backups \cup {d}
           /\ With(d, whole) \in [DOMAIN backups \cup {d} -> BOOLEAN]
           /\ \A e \in DOMAIN backups \ {d} : With(d, whole)[e] = backups[e]
BY DEF With

-----------------------------------------------------------------------------
(* The type invariant. *)

(* The steps of main and of Caddy leave the backups alone.                 *)
AuthorityStep ==
    LoadAuthority \/ DrawAuthority \/ WriteKey \/ WriteCert \/ Publish \/ Serve
    \/ CaddyStarts \/ CaddyStops

(* The steps of maintenance leave the authority alone. *)
BackupStep ==
    NextDay \/ MaintainSamples \/ RemoveDestination \/ VacuumInto \/ BackedUp
    \/ RemoveOldBackup \/ Rotated \/ MaintenanceFails

LEMMA AuthorityStepType == TypeOK /\ AuthorityStep => TypeOK'
<1> SUFFICES ASSUME TypeOK, AuthorityStep PROVE TypeOK'
  OBVIOUS
<1> USE DEF TypeOK, backupVars, Main
<1>1. CASE LoadAuthority  BY <1>1 DEF LoadAuthority
<1>2. CASE DrawAuthority  BY <1>2 DEF DrawAuthority, Fresh
<1>3. CASE WriteKey  BY <1>3 DEF WriteKey
<1>4. CASE WriteCert  BY <1>4 DEF WriteCert
<1>5. CASE Publish  BY <1>5 DEF Publish
<1>6. CASE Serve  BY <1>6 DEF Serve
<1>7. CASE CaddyStarts  BY <1>7 DEF CaddyStarts
<1>8. CASE CaddyStops  BY <1>8 DEF CaddyStops
<1> QED
  BY <1>1, <1>2, <1>3, <1>4, <1>5, <1>6, <1>7, <1>8 DEF AuthorityStep

LEMMA BackupStepType == TypeOK /\ BackupStep => TypeOK'
<1> SUFFICES ASSUME TypeOK, BackupStep PROVE TypeOK'
  OBVIOUS
<1> USE DEF TypeOK, authorityVars, Maintenance
<1>1. CASE NextDay  BY <1>1 DEF NextDay
<1>2. CASE MaintainSamples  BY <1>2 DEF MaintainSamples
<1>3. CASE RemoveDestination  BY <1>3, WithoutDay DEF RemoveDestination
<1>4. CASE VacuumInto
  <2>1. /\ backups' \in [DOMAIN backups \cup {day} -> BOOLEAN]
        /\ DOMAIN backups' = DOMAIN backups \cup {day}
    BY <1>4, WithDay DEF VacuumInto
  <2>2. maint' = [maint EXCEPT !.pc = "copy"] /\ UNCHANGED <<files, public, caddy, proc, day, taken>>
    BY <1>4 DEF VacuumInto
  <2>3. maint.pc = "vacuum"
    BY <1>4 DEF VacuumInto
  <2> QED
    BY <2>1, <2>2, <2>3
<1>5. CASE BackedUp
  <2>1. /\ backups' \in [DOMAIN backups \cup {day} -> BOOLEAN]
        /\ DOMAIN backups' = DOMAIN backups \cup {day}
    BY <1>5, WithDay DEF BackedUp
  <2>2. /\ maint' = [maint EXCEPT !.pc = "rotate"] /\ taken' = taken \cup {day}
        /\ UNCHANGED <<files, public, caddy, proc, day>>
    BY <1>5 DEF BackedUp
  <2>3. maint.pc = "copy"
    BY <1>5 DEF BackedUp
  <2> QED
    BY <2>1, <2>2, <2>3
<1>6. CASE RemoveOldBackup  BY <1>6, WithoutDay DEF RemoveOldBackup
<1>7. CASE Rotated  BY <1>7 DEF Rotated
<1>8. CASE MaintenanceFails
  <2>1. /\ backups' \in [DOMAIN backups' -> BOOLEAN]
        /\ DOMAIN backups' \subseteq DOMAIN backups
    <3>1. backups' = backups \/ backups' = Without(day)
      BY <1>8 DEF MaintenanceFails
    <3>2. CASE backups' = backups
      BY <3>2
    <3>3. CASE backups' = Without(day)
      <4>1. /\ DOMAIN backups' = DOMAIN backups \ {day}
            /\ backups' \in [DOMAIN backups \ {day} -> BOOLEAN]
        BY <3>3, WithoutDay
      <4> QED
        BY <4>1
    <3> QED
      BY <3>1, <3>2, <3>3
  <2>2. /\ maint' = [maint EXCEPT !.pc = "wait"]
        /\ UNCHANGED <<files, public, caddy, proc, day, taken>>
    BY <1>8 DEF MaintenanceFails
  <2>3. maint.pc # "off"
    BY <1>8 DEF MaintenanceFails
  <2> QED
    BY <2>1, <2>2, <2>3
<1> QED
  BY <1>1, <1>2, <1>3, <1>4, <1>5, <1>6, <1>7, <1>8 DEF BackupStep

LEMMA TypeStep == TypeOK /\ [Next]_vars => TypeOK'
<1> SUFFICES ASSUME TypeOK, [Next]_vars PROVE TypeOK'
  OBVIOUS
<1>1. CASE AuthorityStep  BY <1>1, AuthorityStepType
<1>2. CASE BackupStep  BY <1>2, BackupStepType
<1>3. CASE Start  BY <1>3 DEF Start, Main, TypeOK
<1>4. CASE Exit  BY <1>4 DEF Exit, Down, TypeOK
<1>5. CASE UNCHANGED vars  BY <1>5 DEF vars, TypeOK
<1> QED
  BY <1>1, <1>2, <1>3, <1>4, <1>5 DEF Next, AuthorityStep, BackupStep

(* The next run is due tomorrow at the latest, and the backups are of days *)
(* that have come.                                                         *)
THEOREM TypeCorrect == Spec => []TypeOK
<1>1. Init => TypeOK
  BY ServerProcessAssumption DEF Init, Down, TypeOK
<1> QED
  BY <1>1, TypeStep, PTL DEF Spec
-----------------------------------------------------------------------------
(* The authority. *)

(* What main has in memory, and the two files, in the order in which they  *)
(* are written: the key, its certificate, the published copy, Caddy's.     *)
FilesFollow ==
    /\ files.cert # None => files.key = files.cert
    /\ public # None => files.cert = public
    /\ caddy # None => public = caddy
MemoryFits ==
    /\ proc.pc = "writeKey" => files.key = None /\ proc.cert # None /\ proc.key = proc.cert
    /\ proc.pc = "writeCert" => files.cert = None /\ proc.cert # None
                               /\ proc.key = proc.cert /\ files.key = proc.cert
    /\ proc.pc \in {"publish", "serve", "serving"} =>
           files.cert # None /\ files.cert = proc.cert /\ files.key = proc.key
    /\ proc.pc \in {"serve", "serving"} => public = proc.cert
AuthorityInvariant == TypeOK /\ FilesFollow /\ MemoryFits

LEMMA AuthorityInvariantStep == AuthorityInvariant /\ [Next]_vars => AuthorityInvariant'
<1> SUFFICES ASSUME AuthorityInvariant, [Next]_vars PROVE FilesFollow' /\ MemoryFits'
  BY TypeStep DEF AuthorityInvariant
<1> USE ServerProcessAssumption
    DEF AuthorityInvariant, TypeOK, FilesFollow, MemoryFits, backupVars, Main
<1>1. CASE LoadAuthority  BY <1>1 DEF LoadAuthority
<1>2. CASE DrawAuthority  BY <1>2 DEF DrawAuthority, Fresh
<1>3. CASE WriteKey  BY <1>3 DEF WriteKey
<1>4. CASE WriteCert  BY <1>4 DEF WriteCert
<1>5. CASE Publish  BY <1>5 DEF Publish
<1>6. CASE Serve  BY <1>6 DEF Serve
<1>7. CASE CaddyStarts  BY <1>7 DEF CaddyStarts
<1>8. CASE CaddyStops  BY <1>8 DEF CaddyStops
<1>9. CASE Start  BY <1>9 DEF Start
<1>10. CASE Exit  BY <1>10 DEF Exit, Down
<1>11. CASE BackupStep \/ UNCHANGED vars
  <2>1. UNCHANGED <<files, public, caddy, proc>>
    BY <1>11 DEF BackupStep, vars, authorityVars, NextDay, MaintainSamples, RemoveDestination,
                 VacuumInto, BackedUp, RemoveOldBackup, Rotated, MaintenanceFails
  <2> QED
    BY <2>1
<1> QED
  BY <1>1, <1>2, <1>3, <1>4, <1>5, <1>6, <1>7, <1>8, <1>9, <1>10, <1>11
  DEF Next, BackupStep

(* However many starts were cut short: the certificate Caddy verifies      *)
(* agents with belongs to the key that signs their certificates.           *)
THEOREM ProxyTrustsTheSigner == Spec => []ProxyTrustsSigner
<1>1. Init => AuthorityInvariant
  BY ServerProcessAssumption
  DEF Init, Down, AuthorityInvariant, TypeOK, FilesFollow, MemoryFits
<1>2. AuthorityInvariant => ProxyTrustsSigner
  BY DEF AuthorityInvariant, FilesFollow, MemoryFits, ProxyTrustsSigner
<1> QED
  BY <1>1, <1>2, AuthorityInvariantStep, PTL DEF Spec

-----------------------------------------------------------------------------
(* The backups. *)

(* While the day's copy is written, no whole one is in its place. *)
BackupInvariant ==
    /\ TypeOK
    /\ maint.pc \in {"vacuum", "copy"} => ~Whole(day)

LEMMA BackupInvariantStep == BackupInvariant /\ [Next]_vars => BackupInvariant'
<1> SUFFICES ASSUME BackupInvariant, [Next]_vars, maint'.pc \in {"vacuum", "copy"}
             PROVE  ~Whole(day)'
  BY TypeStep DEF BackupInvariant
<1> USE DEF BackupInvariant, Whole
<1>t. maint = [pc |-> maint.pc, due |-> maint.due] /\ backups \in [DOMAIN backups -> BOOLEAN]
  BY DEF TypeOK
<1>1. CASE RemoveDestination
  <2>1. day' = day /\ DOMAIN backups' = DOMAIN backups \ {day}
    BY <1>1, <1>t, WithoutDay DEF RemoveDestination
  <2> QED
    BY <2>1
<1>2. CASE VacuumInto
  BY <1>2 DEF VacuumInto, With
<1>3. ASSUME BackedUp \/ RemoveOldBackup \/ Rotated \/ MaintenanceFails
             \/ NextDay \/ MaintainSamples \/ Start \/ Exit
      PROVE  FALSE
  <2>1. CASE BackedUp \/ Rotated \/ MaintenanceFails
    BY <1>t, <2>1 DEF BackedUp, Rotated, MaintenanceFails, Maintenance
  <2>2. CASE RemoveOldBackup \/ NextDay
    BY <2>2 DEF RemoveOldBackup, NextDay
  <2>3. CASE MaintainSamples \/ Start \/ Exit
    BY <2>3 DEF MaintainSamples, Start, Exit
  <2> QED
    BY <1>3, <2>1, <2>2, <2>3
<1>4. CASE AuthorityStep \/ UNCHANGED vars
  <2>1. UNCHANGED <<day, maint, backups>>
    BY <1>4 DEF AuthorityStep, vars, backupVars, LoadAuthority, DrawAuthority, WriteKey,
                WriteCert, Publish, Serve, CaddyStarts, CaddyStops
  <2> QED
    BY <2>1
<1> QED
  BY <1>1, <1>2, <1>3, <1>4 DEF Next, AuthorityStep

(* A backup is removed by the rotation with at least Keep newer ones in    *)
(* the directory.                                                          *)
LEMMA RotationKeeps ==
    ASSUME TypeOK, RemoveOldBackup
    PROVE  Cardinality({e \in DOMAIN backups : e > FirstBackup}) >= Keep
<1>1. DOMAIN backups \subseteq 0 .. day /\ day \in Nat
  BY DEF TypeOK
<1>2. IsFiniteSet(DOMAIN backups) /\ Cardinality(DOMAIN backups) \in Nat
  <2>1. IsFiniteSet(0 .. day)
    BY <1>1, FS_Interval
  <2>2. IsFiniteSet(DOMAIN backups)
    BY <1>1, <2>1, FS_Subset
  <2> QED
    BY <2>2, FS_CardinalityType
<1>3. Cardinality(DOMAIN backups) > Keep /\ Keep \in Nat
  BY ServerProcessAssumption DEF RemoveOldBackup
<1>4. DOMAIN backups # {}
  BY <1>2, <1>3, FS_EmptySet
<1>5. FirstBackup \in DOMAIN backups /\ \A e \in DOMAIN backups : FirstBackup <= e
  BY <1>1, <1>4, OldestFirst
<1>6. {e \in DOMAIN backups : e > FirstBackup} = DOMAIN backups \ {FirstBackup}
  BY <1>1, <1>5
<1>7. Cardinality(DOMAIN backups \ {FirstBackup}) = Cardinality(DOMAIN backups) - 1
  BY <1>2, <1>5, FS_RemoveElement
<1> QED
  BY <1>2, <1>3, <1>6, <1>7

(* However runs and starts are cut short: a whole backup of an earlier day *)
(* goes only with Keep newer files behind it.                              *)
THEOREM BackupsOutliveCrashes == Spec => OlderBackupsSurvive
<1> DEFINE Kept(d) == \/ d = day /\ maint.pc = "remove"
                      \/ Cardinality({e \in DOMAIN backups : e > d}) >= Keep
           Survive == \A d \in DOMAIN backups : Whole(d) /\ ~Whole(d)' => Kept(d)
<1>1. Init => BackupInvariant
  BY ServerProcessAssumption DEF Init, Down, BackupInvariant, TypeOK
<1>2. BackupInvariant /\ [Next]_vars => [Survive]_vars
  <2> SUFFICES ASSUME BackupInvariant, Next, NEW d \in DOMAIN backups, Whole(d), ~Whole(d)'
               PROVE  Kept(d)
    OBVIOUS
  <2> USE DEF BackupInvariant, Whole
  <2>1. backups' # backups
    OBVIOUS
  <2>2. backups \in [DOMAIN backups -> BOOLEAN]
    BY DEF TypeOK
  <2>3. CASE RemoveDestination
    BY <2>2, <2>3, WithoutDay DEF RemoveDestination
  <2>4. CASE VacuumInto \/ BackedUp
    <3>1. maint.pc \in {"vacuum", "copy"}
      BY <2>4 DEF VacuumInto, BackedUp
    <3>2. d # day
      BY <3>1
    <3>3. PICK whole \in BOOLEAN : backups' = With(day, whole)
      BY <2>4 DEF VacuumInto, BackedUp
    <3>4. DOMAIN backups' = DOMAIN backups \cup {day} /\ backups'[d] = backups[d]
      BY <2>2, <3>2, <3>3, WithDay
    <3> QED
      BY <3>4
  <2>5. CASE RemoveOldBackup
    <3>1. d = FirstBackup
      BY <2>2, <2>5, WithoutDay DEF RemoveOldBackup
    <3> QED
      BY <2>5, <3>1, RotationKeeps
  <2>6. CASE MaintenanceFails
    <3>1. maint.pc = "copy" /\ backups' = Without(day)
      BY <2>1, <2>6 DEF MaintenanceFails
    <3>2. d # day
      BY <3>1
    <3>3. d \in DOMAIN backups' /\ backups'[d] = backups[d]
      BY <2>2, <3>1, <3>2, WithoutDay
    <3>4. Whole(d)'
      BY <3>3
    <3> QED
      BY <3>4
  <2>7. ASSUME AuthorityStep \/ NextDay \/ MaintainSamples \/ Rotated \/ Start \/ Exit
        PROVE  FALSE
    BY <2>1, <2>7 DEF AuthorityStep, backupVars, LoadAuthority, DrawAuthority, WriteKey,
                WriteCert, Publish, Serve, CaddyStarts, CaddyStops, NextDay, MaintainSamples,
                Rotated, Start, Exit
  <2> QED
    BY <2>3, <2>4, <2>5, <2>6, <2>7 DEF Next, AuthorityStep
<1> QED
  BY <1>1, <1>2, BackupInvariantStep, PTL DEF Spec, OlderBackupsSurvive
=============================================================================
