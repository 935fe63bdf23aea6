------------------------------ MODULE Identity ------------------------------
(***************************************************************************)
(* The server's identity file (libs/rust/kps/src/cert.rs): a private key    *)
(* and a certificate, whose hash clients pin.  load_or_create reads it,     *)
(* builds what is missing and writes it back: truncate, then write, without *)
(* fsync and without a temporary file.  Processes may start together on one *)
(* file, crash between any two steps, and lose what was not written back.   *)
(*                                                                          *)
(* Abstractions: a key and a certificate are numbers, fresh whenever the    *)
(* code draws random bits; a file is the blocks that can be parsed from it, *)
(* the key's before the certificate's, so that a torn write leaves a key    *)
(* without its certificate.                                                 *)
(***************************************************************************)
EXTENDS Integers, FiniteSets

CONSTANTS
    Procs,          \* server processes that use the file
    MaxMints,       \* bound: fresh keys and certificates
    MaxCrashes,     \* bound: process crashes
    MaxPowerLosses  \* bound: losses of power

ASSUME IdentityAssumption ==
    MaxMints \in Nat \ {0} /\ {MaxCrashes, MaxPowerLosses} \subseteq Nat

VARIABLES
    disk,       \* the file as processes see it: [exists, key, cert]
    durable,    \* what the file may be found to be after a loss of power
    proc,       \* each process: [at, id], id the identity it holds
    served,     \* the identities load_or_create has returned
    minted,     \* how many fresh numbers have been drawn
    origin,     \* the file before the first start
    held,       \* every key the file has held
    overlap,    \* what starts have found while another was about to write: no
                \* file ("missing"), or a key without a certificate ("key")
    faults      \* [crashes, power]: how many there have been

vars == <<disk, durable, proc, served, minted, origin, held, overlap, faults>>

None == 0
Absent == [exists |-> FALSE, key |-> None, cert |-> None]
Empty == [exists |-> TRUE, key |-> None, cert |-> None]
KeyOnly(k) == [exists |-> TRUE, key |-> k, cert |-> None]
Complete(k, c) == [exists |-> TRUE, key |-> k, cert |-> c]
Idle == [at |-> "idle", id |-> Absent]

(* No file, or a legacy file that holds a key only.                         *)
Init ==
    /\ origin \in {Absent, KeyOnly(1)}
    /\ disk = origin /\ durable = {origin} /\ minted = 1
    /\ proc = [p \in Procs |-> Idle]
    /\ served = {} /\ held = {origin.key} \ {None} /\ overlap = {}
    /\ faults = [crashes |-> 0, power |-> 0]

writing(p) == proc[p].at \in {"write", "opened"}

(* Mutant: the certificate of the file is not used.                         *)
from_pem_key_only(d) == FALSE

(* from_pem finds both blocks; it does not compare them.                    *)
from_pem(d) == d.key # None /\ d.cert # None

(* Mutant: a file that cannot be parsed is replaced.                        *)
not_found_or_unreadable(d) == d.key = None

(* The file is not there.                                                   *)
not_found(d) == ~d.exists

(* load_or_create, read_to_string: the identity that is there.              *)
load(p) ==
    /\ proc[p] = Idle /\ from_pem(disk)
    /\ proc' = [proc EXCEPT ![p] = [at |-> "serving", id |-> disk]]
    /\ served' = served \cup {disk}
    /\ UNCHANGED <<disk, durable, minted, origin, held, overlap, faults>>

(* A certificate with a random serial number, and an identity of its own.   *)
build_cert == minted + 1
generate == Complete(minted + 1, build_cert)

(* load_or_create, no file: generate; or a key only: build_cert.            *)
mint(p) ==
    /\ proc[p] = Idle /\ ~from_pem(disk) /\ minted < MaxMints
    /\ \/ /\ not_found(disk)
          /\ proc' = [proc EXCEPT ![p] = [at |-> "write", id |-> generate]]
       \/ /\ ~not_found(disk) /\ disk.key # None
          /\ proc' = [proc EXCEPT ![p] = [at |-> "write", id |-> Complete(disk.key, build_cert)]]
    /\ minted' = minted + 1
    /\ overlap' = overlap \cup {IF not_found(disk) THEN "missing" ELSE "key" :
                                 q \in {q \in Procs : writing(q)}}
    /\ UNCHANGED <<disk, durable, served, origin, held, faults>>

(* load_or_create, no key that can be parsed: an error.                     *)
parse_error(p) ==
    /\ proc[p] = Idle /\ ~not_found(disk) /\ disk.key = None
    /\ proc' = [proc EXCEPT ![p].at = "failed"]
    /\ UNCHANGED <<disk, durable, served, minted, origin, held, overlap, faults>>

(* What a loss of power may leave when more is written.                     *)
at_risk(contents, new) == contents \cup new

(* write_secret, open with truncate.                                        *)
open_truncate(p) ==
    /\ proc[p].at = "write"
    /\ proc' = [proc EXCEPT ![p].at = "opened"]
    /\ disk' = Empty /\ durable' = at_risk(durable, {Empty})
    /\ UNCHANGED <<served, minted, origin, held, overlap, faults>>

(* write_secret, write_all; then load_or_create returns.                    *)
write_all(p) ==
    LET id == proc[p].id IN
    /\ proc[p].at = "opened"
    /\ proc' = [proc EXCEPT ![p].at = "serving"]
    /\ disk' = id /\ durable' = at_risk(durable, {KeyOnly(id.key), id})
    /\ served' = served \cup {id} /\ held' = held \cup {id.key}
    /\ UNCHANGED <<minted, origin, overlap, faults>>

(* The process ends.                                                        *)
stop(p) ==
    /\ proc[p].at \in {"serving", "failed"}
    /\ proc' = [proc EXCEPT ![p] = Idle]
    /\ UNCHANGED <<disk, durable, served, minted, origin, held, overlap, faults>>

(* The process is killed before it serves; a write may have been torn.      *)
crash(p) ==
    /\ writing(p) /\ faults.crashes < MaxCrashes
    /\ faults' = [faults EXCEPT !.crashes = @ + 1]
    /\ proc' = [proc EXCEPT ![p] = Idle]
    /\ \/ UNCHANGED <<disk, durable, held>>
       \/ /\ proc[p].at = "opened"
          /\ disk' = [disk EXCEPT !.key = proc[p].id.key]
          /\ durable' = at_risk(durable, {disk'}) /\ held' = held \cup {disk'.key}
    /\ UNCHANGED <<served, minted, origin, overlap>>

(* The operating system: the file is written back; or the power fails.      *)
write_back ==
    /\ durable # {disk}
    /\ durable' = {disk}
    /\ UNCHANGED <<disk, proc, served, minted, origin, held, overlap, faults>>
power_loss ==
    /\ faults.power < MaxPowerLosses
    /\ faults' = [faults EXCEPT !.power = @ + 1]
    /\ disk' \in durable /\ durable' = {disk'}
    /\ proc' = [p \in Procs |-> Idle]
    /\ UNCHANGED <<served, minted, origin, held, overlap>>

Next ==
    \/ \E p \in Procs :
         \/ load(p) \/ mint(p) \/ parse_error(p)
         \/ open_truncate(p) \/ write_all(p) \/ stop(p) \/ crash(p)
    \/ write_back \/ power_loss

Spec == Init /\ [][Next]_vars

-----------------------------------------------------------------------------
Files == [exists : BOOLEAN, key : 0..MaxMints, cert : 0..MaxMints]

(* Every variable has its type, and what processes see may be what a loss   *)
(* of power leaves.                                                         *)
TypeOK ==
    /\ disk \in Files /\ durable \subseteq Files /\ disk \in durable
    /\ proc \in [Procs -> [at : {"idle", "write", "opened", "serving", "failed"}, id : Files]]
    /\ served \subseteq Files /\ minted \in 1..MaxMints
    /\ held \subseteq 0..MaxMints /\ overlap \subseteq {"missing", "key"}

(* cert.rs:76, "byte-stable across restarts", as far as it goes: starts     *)
(* that do not overlap serve one certhash, wherever processes crash, unless *)
(* the power fails before the file was written back.                        *)
StableAcrossRestarts ==
    overlap = {} /\ faults.power = 0 => Cardinality({id.cert : id \in served}) \leq 1

(* The identity is complete and written back, and nobody is about to write. *)
Settled ==
    /\ disk.key # None /\ disk.cert # None /\ durable = {disk}
    /\ \A p \in Procs : ~writing(p)

(* Once settled, the identity is not changed by any start, crash or loss of *)
(* power: load_or_create only reads it.                                     *)
SettledStays == [][Settled => Settled' /\ disk' = disk]_vars

(* A key that the file has held is never replaced by another one, and a     *)
(* server serves that key or does not start: always when the file held one  *)
(* before the first start; when there was no file, unless two starts found  *)
(* it missing together, or the power failed.                                *)
KeySurvives ==
    origin.key # None \/ ("missing" \notin overlap /\ faults.power = 0) =>
        /\ \A j, k \in held : j = k
        /\ \A id \in served : id.key \in held

=============================================================================
