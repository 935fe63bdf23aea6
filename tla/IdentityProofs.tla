--------------------------- MODULE IdentityProofs ---------------------------
(***************************************************************************)
(* Proofs about Identity, for any set of processes and any number of        *)
(* crashes and losses of power: the type invariant, when the key in the     *)
(* file is never replaced, that the certhash is stable over starts that do  *)
(* not overlap, and that a settled identity is never touched.               *)
(***************************************************************************)
EXTENDS Identity, FiniteSetTheorems, TLAPS

(* The keys a file may hold when there was one before the first start.      *)
HoldsOrigin(d) == d.exists /\ d.key \in {None, origin.key}

(* The inductive form of KeySurvives.  When there was a key before the      *)
(* first start, also what a loss of power may leave, and what a process is  *)
(* about to write, hold that key or none.  When starts did not find the     *)
(* file missing together, there is one key: in the file, in what it has     *)
(* held, in what is served and in what is about to be written; and none at  *)
(* all before the file is there, except in the one process that creates it. *)
OriginKept ==
    /\ HoldsOrigin(disk)
    /\ \A d \in durable : HoldsOrigin(d)
    /\ \A p \in Procs : writing(p) => proc[p].id.exists /\ proc[p].id.key = origin.key
    /\ \A id \in served : id.key = origin.key
    /\ held = {origin.key}
OneKey ==
    /\ ~disk.exists => held = {} /\ served = {} /\ disk.key = None
    /\ \A p \in Procs : proc[p].at = "opened" => disk.exists
    /\ \A p \in Procs : writing(p) => proc[p].id.exists
    /\ disk.key # None => disk.key \in held
    /\ \A id \in served : id.key \in held
    /\ \A j, k \in held : j = k
    /\ \A p \in Procs : writing(p) => \A k \in held : proc[p].id.key = k
    /\ \A p, q \in Procs : writing(p) /\ writing(q) => proc[p].id.key = proc[q].id.key
KeyInv ==
    /\ faults \in [crashes : Nat, power : Nat]
    /\ origin.key # None => OriginKept
    /\ "missing" \notin overlap /\ faults.power = 0 => OneKey

-----------------------------------------------------------------------------
(* The files that the code writes are files of the model.                   *)
LEMMA FileTypes ==
    /\ Absent \in Files /\ Empty \in Files
    /\ \A k \in 0..MaxMints : KeyOnly(k) \in Files
    /\ \A k, c \in 0..MaxMints : Complete(k, c) \in Files
    /\ \A d \in Files, k \in 0..MaxMints : [d EXCEPT !.key = k] \in Files
    /\ \A d \in Files : d.key \in 0..MaxMints /\ d.cert \in 0..MaxMints
BY IdentityAssumption DEF Files, Absent, Empty, KeyOnly, Complete, None

(* Initially every variable has its type.                                   *)
LEMMA InitType == Init => TypeOK
BY IdentityAssumption, FileTypes DEF Init, TypeOK, Idle

(* Every step of load_or_create, every crash and loss of power keeps it.    *)
LEMMA NextType == TypeOK /\ [Next]_vars => TypeOK'
<1> SUFFICES ASSUME TypeOK, [Next]_vars PROVE TypeOK'
    OBVIOUS
<1> USE IdentityAssumption, FileTypes DEF TypeOK
<1>0. \A p \in Procs : proc[p].id \in Files
    OBVIOUS
<1>1. ASSUME NEW p \in Procs, load(p) PROVE TypeOK'
    BY <1>1 DEF load
<1>2. ASSUME NEW p \in Procs, mint(p) PROVE TypeOK'
    <2>1. minted + 1 \in 0..MaxMints /\ minted' \in 1..MaxMints
        BY <1>2 DEF mint
    <2>2. generate \in Files /\ (disk.key # None => Complete(disk.key, build_cert) \in Files)
        BY <2>1 DEF generate, build_cert
    <2>3. PICK id \in Files : proc' = [proc EXCEPT ![p] = [at |-> "write", id |-> id]]
        BY <1>2, <2>2 DEF mint
    <2> QED
        BY <1>2, <2>1, <2>3 DEF mint
<1>3. ASSUME NEW p \in Procs, parse_error(p) PROVE TypeOK'
    BY <1>3 DEF parse_error
<1>4. ASSUME NEW p \in Procs, open_truncate(p) PROVE TypeOK'
    BY <1>4 DEF open_truncate, at_risk
<1>5. ASSUME NEW p \in Procs, write_all(p) PROVE TypeOK'
    BY <1>0, <1>5 DEF write_all, at_risk
<1>6. ASSUME NEW p \in Procs, stop(p) PROVE TypeOK'
    BY <1>6 DEF stop, Idle
<1>7. ASSUME NEW p \in Procs, crash(p) PROVE TypeOK'
    BY <1>0, <1>7 DEF crash, at_risk, writing, Idle
<1>8. CASE write_back
    BY <1>8 DEF write_back
<1>9. CASE power_loss
    BY <1>9 DEF power_loss, Idle
<1>10. CASE UNCHANGED vars
    BY <1>10 DEF vars
<1> QED
    BY <1>1, <1>2, <1>3, <1>4, <1>5, <1>6, <1>7, <1>8, <1>9, <1>10 DEF Next

(* The type invariant of the identity store holds for every number of       *)
(* processes and faults.                                                    *)
THEOREM TypeCorrect == Spec => []TypeOK
BY InitType, NextType, PTL DEF Spec

-----------------------------------------------------------------------------
(* Before the first start nothing but the original key is anywhere.         *)
LEMMA InitKey == Init => KeyInv
BY DEF Init, KeyInv, OriginKept, OneKey, HoldsOrigin, Absent, KeyOnly, Idle, None, writing

(* The loss of power and the overlap of starts are never forgotten.         *)
LEMMA FaultsStay ==
    TypeOK /\ faults \in [crashes : Nat, power : Nat] /\ [Next]_vars =>
        /\ faults' \in [crashes : Nat, power : Nat] /\ origin' = origin
        /\ overlap \subseteq overlap'
        /\ faults'.power = 0 => faults.power = 0 /\ ~power_loss
<1> SUFFICES ASSUME TypeOK, faults \in [crashes : Nat, power : Nat], [Next]_vars
             PROVE  /\ faults' \in [crashes : Nat, power : Nat] /\ origin' = origin
                    /\ overlap \subseteq overlap'
                    /\ faults'.power = 0 => faults.power = 0 /\ ~power_loss
    OBVIOUS
<1>1. CASE power_loss
    <2>1. faults'.power = faults.power + 1 /\ faults.power \in Nat
        BY <1>1 DEF power_loss
    <2>2. faults'.power # 0
        BY <2>1
    <2> QED
        BY <1>1, <2>2 DEF power_loss
<1>2. CASE ~power_loss
    <2>1. ASSUME NEW p \in Procs, mint(p)
          PROVE  faults' = faults /\ origin' = origin /\ overlap \subseteq overlap'
        BY <2>1 DEF mint
    <2>2. ASSUME NEW p \in Procs, crash(p)
          PROVE  /\ faults' \in [crashes : Nat, power : Nat] /\ faults'.power = faults.power
                 /\ origin' = origin /\ overlap' = overlap
        BY <2>2 DEF crash
    <2>3. ASSUME NEW p \in Procs,
                 load(p) \/ parse_error(p) \/ open_truncate(p) \/ write_all(p) \/ stop(p)
          PROVE  faults' = faults /\ origin' = origin /\ overlap' = overlap
        BY <2>3 DEF load, parse_error, open_truncate, write_all, stop
    <2>4. CASE write_back \/ UNCHANGED vars
        BY <1>2, <2>4 DEF write_back, vars
    <2> QED
        BY <1>2, <2>1, <2>2, <2>3, <2>4 DEF Next
<1> QED
    BY <1>1, <1>2

(* A file that held a key before the first start: no step puts another key  *)
(* in it, in what may be found after a loss of power, or in a process that  *)
(* is about to write.                                                       *)
LEMMA NextOrigin == TypeOK /\ OriginKept /\ origin.key # None /\ [Next]_vars => OriginKept'
<1> SUFFICES ASSUME TypeOK, OriginKept, origin.key # None, [Next]_vars
             PROVE  OriginKept'
    OBVIOUS
<1>0. origin' = origin
    BY DEF Next, vars, load, mint, parse_error, open_truncate, write_all, stop, crash,
           write_back, power_loss
<1> USE <1>0 DEF TypeOK, OriginKept, HoldsOrigin, Files, None, writing
<1>1. ASSUME NEW p \in Procs, load(p) PROVE OriginKept'
    BY <1>1 DEF load, from_pem
<1>2. ASSUME NEW p \in Procs, mint(p) PROVE OriginKept'
    BY <1>2 DEF mint, not_found, Complete, Idle
<1>3. ASSUME NEW p \in Procs, parse_error(p) PROVE OriginKept'
    BY <1>3 DEF parse_error, Idle
<1>4. ASSUME NEW p \in Procs, open_truncate(p) PROVE OriginKept'
    BY <1>4 DEF open_truncate, at_risk, Empty
<1>5. ASSUME NEW p \in Procs, write_all(p) PROVE OriginKept'
    BY <1>5 DEF write_all, at_risk, KeyOnly
<1>6. ASSUME NEW p \in Procs, stop(p) PROVE OriginKept'
    BY <1>6 DEF stop, Idle
<1>7. ASSUME NEW p \in Procs, crash(p) PROVE OriginKept'
    BY <1>7 DEF crash, at_risk, Idle
<1>8. CASE write_back
    BY <1>8 DEF write_back
<1>9. CASE power_loss
    BY <1>9 DEF power_loss, Idle
<1>10. CASE UNCHANGED vars
    BY <1>10 DEF vars
<1> QED
    BY <1>1, <1>2, <1>3, <1>4, <1>5, <1>6, <1>7, <1>8, <1>9, <1>10 DEF Next

(* A file that was missing: the start that finds it so without another one  *)
(* about to write is the only one that brings a key.                        *)
LEMMA NextOneKey ==
    TypeOK /\ OneKey /\ [Next]_vars /\ "missing" \notin overlap' /\ ~power_loss => OneKey'
<1> SUFFICES ASSUME TypeOK, OneKey, [Next]_vars, "missing" \notin overlap', ~power_loss
             PROVE  OneKey'
    OBVIOUS
<1> USE DEF TypeOK, OneKey, Files, None, writing
<1>1. ASSUME NEW p \in Procs, load(p) PROVE OneKey'
    BY <1>1 DEF load, from_pem
<1>2. ASSUME NEW p \in Procs, mint(p) PROVE OneKey'
    <2>1. CASE not_found(disk)
        <3>1. \A q \in Procs : ~writing(q)
            BY <1>2, <2>1 DEF mint
        <3> QED
            BY <1>2, <2>1, <3>1 DEF mint, not_found, generate, build_cert, Complete, Idle
    <2>2. CASE ~not_found(disk)
        <3> DEFINE id == Complete(disk.key, build_cert)
        <3>1. /\ disk.exists /\ disk.key \in held
              /\ proc' = [proc EXCEPT ![p] = [at |-> "write", id |-> id]]
              /\ UNCHANGED <<disk, served, held>>
            BY <1>2, <2>2 DEF mint, not_found
        <3>2. id.exists /\ id.key = disk.key
            BY DEF Complete
        <3> HIDE DEF id
        <3>3. \A q \in Procs : writing(q)' =>
                proc'[q].id.exists /\ proc'[q].id.key = disk.key
            BY <3>1, <3>2
        <3>4. \A q \in Procs : proc'[q].at = "opened" => disk'.exists
            BY <3>1
        <3> QED
            BY <3>1, <3>3, <3>4
    <2> QED
        BY <2>1, <2>2
<1>3. ASSUME NEW p \in Procs, parse_error(p) PROVE OneKey'
    BY <1>3 DEF parse_error, Idle
<1>4. ASSUME NEW p \in Procs, open_truncate(p) PROVE OneKey'
    BY <1>4 DEF open_truncate, Empty
<1>5. ASSUME NEW p \in Procs, write_all(p) PROVE OneKey'
    BY <1>5 DEF write_all
<1>6. ASSUME NEW p \in Procs, stop(p) PROVE OneKey'
    BY <1>6 DEF stop, Idle
<1>7. ASSUME NEW p \in Procs, crash(p) PROVE OneKey'
    BY <1>7 DEF crash, Idle
<1>8. CASE write_back
    BY <1>8 DEF write_back
<1>9. CASE UNCHANGED vars
    BY <1>9 DEF vars
<1> QED
    BY <1>1, <1>2, <1>3, <1>4, <1>5, <1>6, <1>7, <1>8, <1>9 DEF Next

(* So no step breaks either part.                                           *)
LEMMA NextKey == TypeOK /\ KeyInv /\ [Next]_vars => KeyInv'
<1> SUFFICES ASSUME TypeOK, KeyInv, [Next]_vars PROVE KeyInv'
    OBVIOUS
<1>1. faults \in [crashes : Nat, power : Nat]
    BY DEF KeyInv
<1>2. (origin.key # None => OriginKept)'
    BY <1>1, FaultsStay, NextOrigin DEF KeyInv
<1>3. ("missing" \notin overlap /\ faults.power = 0 => OneKey)'
    BY <1>1, FaultsStay, NextOneKey DEF KeyInv
<1> QED
    BY <1>1, <1>2, <1>3, FaultsStay DEF KeyInv

(* load_or_create never replaces the key that was in the file before the    *)
(* first start, whatever crashes, however the starts overlap; nor the one   *)
(* that a start has put there, unless another start found the file missing  *)
(* at the same time, or the power failed before it was written back.  A     *)
(* server serves that key or does not start.                                *)
THEOREM KeyNeverReplaced == Spec => []KeySurvives
<1>1. KeyInv => KeySurvives
    BY DEF KeyInv, OriginKept, OneKey, KeySurvives
<1> QED
    BY <1>1, InitType, NextType, InitKey, NextKey, PTL DEF Spec

-----------------------------------------------------------------------------
(* The inductive form of StableAcrossRestarts.  Without overlapping starts  *)
(* and losses of power there is one writer, it writes a complete identity   *)
(* over a file without one before any was served, and what was served is    *)
(* what the file holds.                                                     *)
OneWriter ==
    /\ \A p, q \in Procs : writing(p) /\ writing(q) => p = q
    /\ \A p \in Procs : writing(p) =>
         from_pem(proc[p].id) /\ disk.cert = None /\ served = {}
    /\ disk.cert # None => from_pem(disk)
    /\ \A id \in served : id = disk /\ from_pem(disk)
StableInv ==
    /\ faults \in [crashes : Nat, power : Nat]
    /\ overlap = {} /\ faults.power = 0 => OneWriter

(* Before the first start nobody writes and nothing was served.             *)
LEMMA InitStable == Init => StableInv
BY DEF Init, StableInv, OneWriter, Absent, KeyOnly, Idle, None, writing

(* No start that does not overlap another one, and no crash, disturbs it.   *)
LEMMA NextStable == TypeOK /\ StableInv /\ [Next]_vars => StableInv'
<1> SUFFICES ASSUME TypeOK, StableInv, [Next]_vars PROVE StableInv'
    OBVIOUS
<1> USE DEF StableInv, OneWriter, writing, from_pem, None, Idle
<1>0. disk.key \in Nat /\ disk.cert \in Nat /\ minted \in Nat /\ minted # 0
    BY IdentityAssumption DEF TypeOK, Files
<1>1. proc \in [Procs -> [at : {"idle", "write", "opened", "serving", "failed"}, id : Files]]
    BY DEF TypeOK
<1>2. ASSUME NEW p \in Procs, load(p) PROVE StableInv'
    BY <1>1, <1>2 DEF load
<1>3. ASSUME NEW p \in Procs, mint(p) PROVE StableInv'
    <2>0. /\ generate.key # None /\ generate.cert # None
          /\ \A k \in Nat : k # None =>
               Complete(k, build_cert).key # None /\ Complete(k, build_cert).cert # None
        BY <1>0 DEF generate, build_cert, Complete
    <2>1. PICK id : /\ proc' = [proc EXCEPT ![p] = [at |-> "write", id |-> id]]
                    /\ id.key # None /\ id.cert # None
        BY <1>0, <1>3, <2>0, Zenon DEF mint
    <2>2. /\ disk' = disk /\ served' = served /\ faults' = faults /\ ~from_pem(disk)
          /\ overlap' = {} => overlap = {} /\ \A q \in Procs : ~writing(q)
        BY <1>3 DEF mint
    <2> QED
        BY <1>1, <2>1, <2>2
<1>4. ASSUME NEW p \in Procs, parse_error(p) PROVE StableInv'
    BY <1>1, <1>4 DEF parse_error
<1>5. ASSUME NEW p \in Procs, open_truncate(p) PROVE StableInv'
    BY <1>1, <1>5 DEF open_truncate, Empty
<1>6. ASSUME NEW p \in Procs, write_all(p) PROVE StableInv'
    BY <1>1, <1>6 DEF write_all
<1>7. ASSUME NEW p \in Procs, stop(p) PROVE StableInv'
    BY <1>1, <1>7 DEF stop
<1>8. ASSUME NEW p \in Procs, crash(p) PROVE StableInv'
    <2>1. faults' \in [crashes : Nat, power : Nat] /\ faults'.power = faults.power
        BY <1>8 DEF crash
    <2>2. disk'.cert = disk.cert \/ disk' = disk
        BY <1>8 DEF crash, TypeOK, Files
    <2> QED
        BY <1>1, <1>8, <2>1, <2>2 DEF crash
<1>9. CASE write_back
    BY <1>9 DEF write_back
<1>10. CASE power_loss
    BY <1>10 DEF power_loss
<1>11. CASE UNCHANGED vars
    BY <1>11 DEF vars
<1> QED
    BY <1>2, <1>3, <1>4, <1>5, <1>6, <1>7, <1>8, <1>9, <1>10, <1>11 DEF Next

(* cert.rs:76, the certhash is byte-stable across restarts: wherever        *)
(* processes crash, starts that do not overlap serve one certificate.       *)
THEOREM StableCerthash == Spec => []StableAcrossRestarts
<1>1. StableInv => StableAcrossRestarts
    <2> SUFFICES ASSUME StableInv, overlap = {}, faults.power = 0
                 PROVE  Cardinality({id.cert : id \in served}) \leq 1
        BY DEF StableAcrossRestarts
    <2>1. {id.cert : id \in served} \subseteq {disk.cert}
        BY DEF StableInv, OneWriter
    <2>2. IsFiniteSet({disk.cert}) /\ Cardinality({disk.cert}) = 1
        BY FS_Singleton
    <2> QED
        BY <2>1, <2>2, FS_Subset
<1> QED
    BY <1>1, InitType, NextType, InitStable, NextStable, PTL DEF Spec

(* An identity that is complete and written back is only ever read: no      *)
(* start, crash or loss of power changes the file (cert.rs:76).             *)
THEOREM SettledForGood == Spec => SettledStays
<1>1. TypeOK /\ [Next]_vars /\ Settled => Settled' /\ disk' = disk
    <2> SUFFICES ASSUME TypeOK, [Next]_vars, Settled PROVE Settled' /\ disk' = disk
        OBVIOUS
    <2> USE DEF TypeOK, Settled, writing, from_pem, Idle
    <2>1. ASSUME NEW p \in Procs,
                 load(p) \/ parse_error(p) \/ stop(p)
          PROVE  Settled' /\ disk' = disk
        BY <2>1 DEF load, parse_error, stop
    <2>2. ASSUME NEW p \in Procs,
                 mint(p) \/ open_truncate(p) \/ write_all(p) \/ crash(p)
          PROVE  FALSE
        BY <2>2 DEF mint, open_truncate, write_all, crash
    <2>3. CASE write_back \/ power_loss
        BY <2>3 DEF write_back, power_loss
    <2>4. CASE UNCHANGED vars
        BY <2>4 DEF vars
    <2> QED
        BY <2>1, <2>2, <2>3, <2>4 DEF Next
<1>2. TypeOK /\ [Next]_vars => [Settled => Settled' /\ disk' = disk]_vars
    BY <1>1
<1> QED
    BY <1>2, InitType, NextType, PTL DEF Spec, SettledStays

=============================================================================
