---------------------------- MODULE BuildWorkers ----------------------------
(***************************************************************************)
(* The driver of pgx-pg-sys/build.rs: `main` spawns one scoped thread per *)
(* PostgreSQL major version, each running generate_bindings (bindgen,     *)
(* rewrite_items, then pg{N}.rs and pg{N}_oids.rs written and rustfmt'd   *)
(* into every destination directory), joins them in spawn order, returns  *)
(* the first error, and only then builds the C shim for every version.    *)
(*                                                                         *)
(* Worker k is the k-th entry of `pg_configs`.  Outside release mode a    *)
(* single version is generated into OUT_DIR; in release mode every        *)
(* configured version is generated into OUT_DIR and then src/.            *)
(***************************************************************************)
EXTENDS Naturals, Sequences, FiniteSets, Oids

CONSTANTS
    NR,       \* number of configured versions in release mode
    Bindings  \* Bindings[k]: the items bindgen produces for the k-th version

ASSUME NR \in Nat \ {0}

VARIABLES
    release,  \* PGX_PG_SYS_GENERATE_BINDINGS_FOR_RELEASE == "1"
    cshim,    \* CARGO_FEATURE_CSHIM == "1"
    wpc,      \* wpc[k]: where worker k's generate_bindings is
    wstep,    \* wstep[k]: index of the next file write of worker k
    files,    \* files[<<k, dir, kind>>]: state of an emitted file
    mpc,      \* where main is
    jidx,     \* next thread to join
    result,   \* main's return value
    reported, \* which failure main's Err carries
    sidx,     \* next version whose shim is built
    shims,    \* versions whose libpgx-cshim-N.a was built
    gen,      \* gen[k]: the rewritten items and BuiltinOid impl of worker k
    classFail \* observation: workers whose impl_pg_node panicked

vars == <<release, cshim, wpc, wstep, files, mpc, jidx, result, reported,
          sidx, shims, gen, classFail>>

Slots == 1..NR
Workers == IF release THEN Slots ELSE {1}
NW == Cardinality(Workers)

(* dest_dirs (build.rs:249-256), each receiving pg{N}.rs then pg{N}_oids.rs. *)
Dirs == IF release THEN <<"out", "src">> ELSE <<"out">>
Writes == [j \in 1..2 * Len(Dirs) |->
             <<Dirs[(j + 1) \div 2], IF j % 2 = 1 THEN "rs" ELSE "oids">>]
FileIds == Slots \X {"out", "src"} \X {"rs", "oids"}

Finished == {"ok", "err", "panic"}
NoReport == [stage |-> "none", k |-> 0]
NoGen == [none |-> TRUE]

TypeOK ==
    /\ release \in BOOLEAN /\ cshim \in BOOLEAN
    /\ wpc \in [Slots -> {"absent", "bindgen", "rewrite", "write"} \cup Finished]
    /\ wstep \in [Slots -> 1..5]
    /\ files \in [FileIds -> {"none", "torn", "raw", "fmt"}]
    /\ mpc \in {"join", "unwind", "shim", "done"}
    /\ jidx \in 1..NR + 1
    /\ result \in {"none", "ok", "err", "panic"}
    /\ reported \in [stage : {"none", "bindings", "shim"}, k : 0..NR]
    /\ sidx \in 1..NR + 1
    /\ shims \subseteq Slots
    /\ classFail \subseteq Slots
    /\ \A k \in Slots : gen[k] = NoGen \/ DOMAIN gen[k] = {"rs", "impl"}

Init ==
    /\ release \in BOOLEAN
    /\ cshim \in BOOLEAN
    /\ wpc = [k \in Slots |-> IF k \in Workers THEN "bindgen" ELSE "absent"]
    /\ wstep = [k \in Slots |-> 1]
    /\ files = [f \in FileIds |-> "none"]
    /\ mpc = "join"
    /\ jidx = 1
    /\ result = "none"
    /\ reported = NoReport
    /\ sidx = 1
    /\ shims = {}
    /\ gen = [k \in Slots |-> NoGen]
    /\ classFail = {}

WorkerVars == <<wpc, wstep, files, gen, classFail>>
MainVars == <<mpc, jidx, result, reported, sidx, shims>>

(* get_bindings(..).wrap_err_with(..)?: bindgen (or reading the raw       *)
(* bindings) succeeds, or the worker returns Err, or it panics (bindgen    *)
(* itself, or `env::var("TARGET").unwrap()` in the include flags).  The    *)
(* optional PGX_PG_SYS_EXTRA_OUTPUT_PATH copy is not an artifact here.     *)
Bindgen(k) ==
    /\ wpc[k] = "bindgen"
    /\ \E out \in {"rewrite", "err", "panic"} : wpc' = [wpc EXCEPT ![k] = out]
    /\ UNCHANGED <<release, cshim, wstep, files, gen, classFail>> /\ UNCHANGED MainVars

(* extract_oids, rewrite_items, format_builtin_oid_impl (247-250):       *)
(* impl_pg_node panics when ptr_problems is non-empty, which unwinds the   *)
(* worker; otherwise the worker holds what it will write.                  *)
Rewrite(k) ==
    /\ wpc[k] = "rewrite"
    /\ \/ /\ wpc' = [wpc EXCEPT ![k] = "write"]
          /\ gen' = [gen EXCEPT ![k] = Generate(Bindings[k])]
          /\ UNCHANGED classFail
       \/ /\ wpc' = [wpc EXCEPT ![k] = "panic"]
          /\ classFail' = classFail \cup {k}
          /\ UNCHANGED gen
    /\ UNCHANGED <<release, cshim, wstep, files>> /\ UNCHANGED MainVars

(* One write_rs_file: std::fs::write then rust_fmt.  A failed write       *)
(* leaves the file in an unknown state and returns Err.  run_command     *)
(* returns Ok whatever rustfmt's exit status, so the file may stay        *)
(* unformatted and the worker go on; failing to spawn rustfmt is Err.     *)
WriteRsFile(k) ==
    /\ wpc[k] = "write"
    /\ LET w == Writes[wstep[k]]
           id == <<k, w[1], w[2]>>
           last == wstep[k] = Len(Writes)
       IN  \E o \in {<<"fmt", "go">>, <<"raw", "go">>, <<"raw", "err">>,
                     <<"torn", "err">>} :
               /\ files' = [files EXCEPT ![id] = o[1]]
               /\ wpc' = [wpc EXCEPT ![k] = IF o[2] = "err" THEN "err"
                                           ELSE IF last THEN "ok" ELSE "write"]
               /\ wstep' = [wstep EXCEPT ![k] = @ + 1]
    /\ UNCHANGED <<release, cshim, gen, classFail>> /\ UNCHANGED MainVars

FirstErr == CHOOSE k \in Workers : wpc[k] = "err" /\ \A j \in Workers :
                                      wpc[j] = "err" => k <= j

(* Mutant: the scope's results are folded from the last thread backwards. *)
ReportLastErr ==
    /\ mpc = "join"
    /\ jidx > NW
    /\ IF \E k \in Workers : wpc[k] = "err"
          THEN /\ result' = "err"
               /\ reported' = [stage |-> "bindings", k |->
                    CHOOSE k \in Workers : wpc[k] = "err" /\ \A j \in Workers :
                                              wpc[j] = "err" => j <= k]
               /\ mpc' = "done"
          ELSE /\ mpc' = IF cshim THEN "shim" ELSE "done"
               /\ result' = IF cshim THEN "none" ELSE "ok"
               /\ UNCHANGED reported
    /\ UNCHANGED <<jidx, sidx, shims>> /\ UNCHANGED <<release, cshim>>
    /\ UNCHANGED WorkerVars

(* `thread.join().expect(..)`: wait for the jidx-th thread; a thread that *)
(* panicked makes main panic, after which the scope still waits for the   *)
(* remaining threads before the panic leaves thread::scope.                *)
Join ==
    /\ mpc = "join"
    /\ jidx <= NW
    /\ wpc[jidx] \in Finished
    /\ IF wpc[jidx] = "panic"
          THEN mpc' = "unwind" /\ UNCHANGED jidx
          ELSE jidx' = jidx + 1 /\ UNCHANGED mpc
    /\ UNCHANGED <<result, reported, sidx, shims>> /\ UNCHANGED <<release, cshim>>
    /\ UNCHANGED WorkerVars

(* thread::scope joins every remaining thread, then resumes the panic.    *)
Unwind ==
    /\ mpc = "unwind"
    /\ \A k \in Workers : wpc[k] \in Finished
    /\ mpc' = "done"
    /\ result' = "panic"
    /\ UNCHANGED <<jidx, reported, sidx, shims>> /\ UNCHANGED <<release, cshim>>
    /\ UNCHANGED WorkerVars

(* Mutant: the `?` after thread::scope dropped; the shim is built anyway. *)
ReportIgnoringErr ==
    /\ mpc = "join"
    /\ jidx > NW
    /\ mpc' = IF cshim THEN "shim" ELSE "done"
    /\ result' = IF cshim THEN "none"
                 ELSE IF \E k \in Workers : wpc[k] = "err" THEN "err" ELSE "ok"
    /\ reported' = IF \E k \in Workers : wpc[k] = "err"
                      THEN [stage |-> "bindings", k |-> FirstErr] ELSE reported
    /\ UNCHANGED <<jidx, sidx, shims>> /\ UNCHANGED <<release, cshim>>
    /\ UNCHANGED WorkerVars

(* `results.into_iter().try_for_each(|r| r)?`: the first Err in spawn     *)
(* order is returned; otherwise main goes on to the shim when asked.      *)
Report ==
    /\ mpc = "join"
    /\ jidx > NW
    /\ IF \E k \in Workers : wpc[k] = "err"
          THEN /\ result' = "err"
               /\ reported' = [stage |-> "bindings", k |-> FirstErr]
               /\ mpc' = "done"
          ELSE /\ mpc' = IF cshim THEN "shim" ELSE "done"
               /\ result' = IF cshim THEN "none" ELSE "ok"
               /\ UNCHANGED reported
    /\ UNCHANGED <<jidx, sidx, shims>> /\ UNCHANGED <<release, cshim>>
    /\ UNCHANGED WorkerVars

(* Mutant: the shim loop runs one version past the configured ones.      *)
BuildShimPastEnd ==
    /\ mpc = "shim"
    /\ sidx <= NW + 1
    /\ \/ /\ shims' = shims \cup {sidx}
          /\ sidx' = sidx + 1
          /\ UNCHANGED <<mpc, result, reported>>
       \/ /\ result' \in {"err", "panic"}
          /\ reported' = [stage |-> "shim", k |-> sidx]
          /\ mpc' = "done"
          /\ UNCHANGED <<sidx, shims>>
    /\ UNCHANGED jidx /\ UNCHANGED <<release, cshim>> /\ UNCHANGED WorkerVars

(* `build_shim(..)?` for each configured version, in order.  A make      *)
(* failure or a non-zero exit is Err; build_shim_for_version panics on a  *)
(* failed create_dir_all or copy (`.unwrap()`, build.rs:1426-1441) and on *)
(* make killed by a signal (`status.code().unwrap()`, 1455).              *)
BuildShim ==
    /\ mpc = "shim"
    /\ sidx <= NW
    /\ \/ /\ shims' = shims \cup {sidx}
          /\ sidx' = sidx + 1
          /\ UNCHANGED <<mpc, result, reported>>
       \/ /\ result' \in {"err", "panic"}
          /\ reported' = [stage |-> "shim", k |-> sidx]
          /\ mpc' = "done"
          /\ UNCHANGED <<sidx, shims>>
    /\ UNCHANGED jidx /\ UNCHANGED <<release, cshim>> /\ UNCHANGED WorkerVars

ShimsBuilt ==
    /\ mpc = "shim"
    /\ sidx > NW
    /\ mpc' = "done"
    /\ result' = "ok"
    /\ UNCHANGED <<jidx, reported, sidx, shims>> /\ UNCHANGED <<release, cshim>>
    /\ UNCHANGED WorkerVars

(* The build script has returned. *)
Exited == mpc = "done" /\ UNCHANGED vars

Next ==
    \/ \E k \in Workers : Bindgen(k) \/ Rewrite(k) \/ WriteRsFile(k)
    \/ Join \/ Unwind \/ Report \/ BuildShim \/ ShimsBuilt
    \/ Exited

(* Every spawned thread runs to completion (nothing blocks it) and main  *)
(* is a single thread; each is scheduled by the OS, hence weak fairness. *)
Spec == Init /\ [][Next]_vars
             /\ \A k \in Slots : WF_vars(Bindgen(k) \/ Rewrite(k) \/ WriteRsFile(k))
             /\ WF_vars(Join \/ Unwind \/ Report \/ BuildShim \/ ShimsBuilt)

-----------------------------------------------------------------------------
(* What main returns agrees with what its threads did: it panics when    *)
(* some thread panicked (even one joined after a thread that returned     *)
(* Err), and otherwise only from a shim build; it returns the Err of the  *)
(* first failing thread in spawn order when no thread panicked, and it    *)
(* returns Ok only when every thread and every requested shim build       *)
(* succeeded.                                                              *)
ResultReflectsWorkers ==
    mpc = "done" =>
        /\ (\E k \in Workers : wpc[k] = "panic") => result = "panic"
        /\ result = "panic" /\ reported.stage # "shim" =>
              \E k \in Workers : wpc[k] = "panic"
        /\ result = "err" /\ reported.stage = "bindings" =>
              reported.k = FirstErr
        /\ result = "ok" => \A k \in Workers : wpc[k] = "ok"

(* The C shim is only built once the bindings of every version have been *)
(* generated successfully: a failed or panicked generation never reaches  *)
(* build_shim.                                                             *)
ShimOnlyAfterBindings ==
    shims # {} => \A k \in Workers : wpc[k] = "ok"


(* The two files a worker generates agree on which constants are OIDs:    *)
(* the constants pg{N}.rs retypes as `Oid` (rewrite_oid_consts) are       *)
(* exactly the variants of pg{N}_oids.rs's BuiltinOid (extract_oids,      *)
(* format_builtin_oid_impl), with the same values, and every other item   *)
(* of bindgen's output is written as bindgen produced it.                 *)
OidFilesAgree ==
    \A k \in Slots : gen[k] # NoGen =>
        LET g == gen[k] IN
        /\ {<<i.name, i.val>> : i \in {i \in Range(g.rs) : i.ty = "Oid"}}
             = {<<v.name, v.val>> : v \in Range(g.impl.variants)}
        /\ \A j \in DOMAIN g.rs : g.rs[j].ty # "Oid" => g.rs[j] = Bindings[k][j]

(* `BuiltinOid::from_u32` of the generated impl inverts the enum: each    *)
(* variant's value maps back to that variant, 0 is Invalid, and any       *)
(* other value of the bindings (an `i32` constant, a non-OID `u32`) is    *)
(* Ambiguous.                                                             *)
FromU32Inverse ==
    \A k \in Slots : gen[k] # NoGen =>
        LET impl == gen[k].impl
            vals == {v.val : v \in Range(impl.variants)}
        IN /\ \A v \in Range(impl.variants) : FromU32(impl, v.val) = Ok(v.name)
           /\ FromU32(impl, 0) = Invalid
           /\ \A u \in {i.val : i \in Range(Bindings[k])} \ (vals \cup {0}) :
                 FromU32(impl, u) = Ambiguous

=============================================================================
