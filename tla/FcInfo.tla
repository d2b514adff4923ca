------------------------------- MODULE FcInfo -------------------------------
(***************************************************************************)
(* pgx/src/fcinfo.rs: calling a V1 function directly.                      *)
(* direct_function_call_as_datum_internal pallocs a FunctionCallInfo,      *)
(* fills it from `args`, calls the function and turns `isnull` into the    *)
(* Option it returns.  The callee reads its arguments with pg_getarg_datum *)
(* (through get_nullable_datum on pg12+, through the fixed arrays          *)
(* `arg`/`argnull` on pg11) and may return NULL with pg_return_null.       *)
(*                                                                         *)
(* Datums are model values; an argument list is its length `n` and the    *)
(* values at the indices the callee may probe.  The callee is any         *)
(* function: it reads any probed argument and returns a value or NULL.    *)
(***************************************************************************)
EXTENDS Integers, FiniteSets

CONSTANTS
    Datums,        \* datum values an argument or a return may carry
    None,          \* Option::None
    ArgCounts,     \* lengths of `args` a caller passes
    Probes,        \* argument indices the callee may read
    FuncMaxArgs,   \* FUNC_MAX_ARGS: length of pg11's arg/argnull arrays
    UsizeHuge      \* a usize above every probe (see SliceLen)

ASSUME None \notin Datums
ASSUME UsizeHuge > FuncMaxArgs /\ \A p \in Probes : UsizeHuge > p

VARIABLES
    pg11,      \* built with feature "pg11"
    debug,     \* built with overflow checks (a debug profile)
    args,      \* the caller's `args`: [n |-> len, val |-> Probes -> Option]
    nargs,     \* fcinfo.nargs, a C `short`
    isnull,    \* fcinfo.isnull
    pc,        \* "idle", "callee", "returned", "done", "panicked"
    reads,     \* what each pg_getarg_datum of the callee got
    ret,       \* the Datum the callee returned
    nulled,    \* history: the callee called pg_return_null
    result     \* what direct_function_call_as_datum returned

vars == <<pg11, debug, args, nargs, isnull, pc, reads, ret, nulled, result>>

Opt == Datums \cup {None}
Panic == "panic"
Args == [n : ArgCounts, val : [Probes -> Opt]]

(* Mutant: the `as _` store treated as lossless. *)
Wrap16Lossless(x) == x

(* `x as i16` of a non-negative usize: two's-complement truncation. *)
Wrap16(x) == ((x + 32768) % 65536) - 32768

(* size_of::<NullableDatum>() * nargs as usize (fcinfo.rs:176): a negative *)
(* short sign-extends to 2^64 + nargs.  With overflow checks the product   *)
(* panics; without, it wraps to 2^64 + 16 * nargs, above every index the   *)
(* callee uses.                                                           *)
NullableDatumSize == 16
LenOverflows(na) == na < 0 /\ debug
SliceLen(na) == IF na >= 0 THEN NullableDatumSize * na ELSE UsizeHuge

(* The argument slot `num` of the fcinfo as the caller left it: a written  *)
(* NullableDatum below n; anything at all past it (palloc does not zero,   *)
(* and on pg12+ the slot lies past the allocation).                        *)
Slot(num) == IF num < args.n THEN {args.val[num]} ELSE Opt

TypeOK ==
    /\ pg11 \in BOOLEAN
    /\ debug \in BOOLEAN
    /\ args \in Args \cup {[n |-> 0, val |-> [p \in Probes |-> None]]}
    /\ nargs \in -32768..32767
    /\ isnull \in BOOLEAN
    /\ pc \in {"idle", "callee", "returned", "done", "panicked"}
    /\ reads \subseteq [num : Probes, got : Opt \cup {Panic}]
    /\ ret \in Datums
    /\ nulled \in BOOLEAN
    /\ result \in Opt

Init ==
    /\ pg11 \in BOOLEAN
    /\ debug \in BOOLEAN
    /\ args = [n |-> 0, val |-> [p \in Probes |-> None]]
    /\ nargs = 0
    /\ isnull = FALSE
    /\ pc = "idle"
    /\ reads = {}
    /\ ret \in Datums
    /\ nulled = FALSE
    /\ result = None

(* Mutant: fcinfo.isnull left as palloc found it. *)
DirectCall12NoReset(a) ==
    /\ nargs' = Wrap16(a.n)
    /\ isnull' \in BOOLEAN
    /\ pc' = "callee"

(* direct_function_call_as_datum_internal, pg12+ (fcinfo.rs:357-380): the  *)
(* header fields are set, nargs stored as a short, and every argument      *)
(* written into the flexible array sized for len(args).                    *)
DirectCall12(a) ==
    /\ nargs' = Wrap16(a.n)
    /\ isnull' = FALSE
    /\ pc' = "callee"

(* The pg11 variant (fcinfo.rs:329-347) writes into the fixed arrays       *)
(* arg[FUNC_MAX_ARGS] and argnull[FUNC_MAX_ARGS]; the write of index       *)
(* FUNC_MAX_ARGS panics before the function is called.                     *)
DirectCall11(a) ==
    /\ nargs' = Wrap16(a.n)
    /\ isnull' = FALSE
    /\ pc' = IF a.n > FuncMaxArgs THEN "panicked" ELSE "callee"

DirectCall(a) ==
    /\ pc = "idle"
    /\ args' = a
    /\ IF pg11 THEN DirectCall11(a) ELSE DirectCall12(a)
    /\ UNCHANGED <<pg11, debug, reads, ret, nulled, result>>

(* get_nullable_datum (fcinfo.rs:172-179): `args.as_slice(len)[num]` with  *)
(* len the byte size of nargs NullableDatums, bounds-checked against len.  *)
GetNullableDatum(num) ==
    IF ~LenOverflows(nargs) /\ num < SliceLen(nargs) THEN Slot(num) ELSE {Panic}

(* pg11 pg_arg_is_null / pg_getarg_datum_raw: `argnull[num]`, `arg[num]`   *)
(* checked against the array length FUNC_MAX_ARGS only.                    *)
GetArg11(num) ==
    IF num < FuncMaxArgs THEN Slot(num) ELSE {Panic}

(* pg_getarg_datum (fcinfo.rs:111-118, 157-164): None for a null argument, *)
(* else its value; an out-of-bounds index panics and unwinds the callee.   *)
PgGetargDatum(num) ==
    /\ pc = "callee"
    /\ num \notin {r.num : r \in reads}
    /\ \E got \in IF pg11 THEN GetArg11(num) ELSE GetNullableDatum(num) :
          /\ reads' = reads \cup {[num |-> num, got |-> got]}
          /\ pc' = IF got = Panic THEN "panicked" ELSE "callee"
    /\ UNCHANGED <<pg11, debug, args, nargs, isnull, ret, nulled, result>>

(* pg_return_null (fcinfo.rs:125-129, 181-186): sets fcinfo.isnull and     *)
(* returns Datum 0.                                                        *)
PgReturnNull(d) ==
    /\ pc = "callee"
    /\ isnull' = TRUE
    /\ ret' = d
    /\ nulled' = TRUE
    /\ pc' = "returned"
    /\ UNCHANGED <<pg11, debug, args, nargs, reads, result>>

(* The callee returning a datum without touching isnull. *)
CalleeReturns(d) ==
    /\ pc = "callee"
    /\ ret' = d
    /\ pc' = "returned"
    /\ UNCHANGED <<pg11, debug, args, nargs, isnull, reads, nulled, result>>

(* After the call (fcinfo.rs:349-353, 382-386): None if fcinfo.isnull,     *)
(* else the returned datum; then the fcinfo is pfree'd.                    *)
Finish ==
    /\ pc = "returned"
    /\ result' = IF isnull THEN None ELSE ret
    /\ pc' = "done"
    /\ UNCHANGED <<pg11, debug, args, nargs, isnull, reads, ret, nulled>>

Stopped ==
    /\ pc \in {"done", "panicked"}
    /\ UNCHANGED vars

Next ==
    \/ \E a \in Args : DirectCall(a)
    \/ \E num \in Probes : PgGetargDatum(num)
    \/ \E d \in Datums : PgReturnNull(d) \/ CalleeReturns(d)
    \/ Finish
    \/ Stopped

Spec == Init /\ [][Next]_vars

-----------------------------------------------------------------------------

(* On pg12+ pg_getarg_datum(fcinfo, num) reads the caller's argument num  *)
(* when num < len(args), and panics in as_slice's bounds check otherwise   *)
(* (the `[num]` at fcinfo.rs:177), never reading a slot the caller did not *)
(* write.  get_nullable_datum passes the byte size of the arguments as the *)
(* element count (fcinfo.rs:176), so an index up to 16 * nargs - 1 passes  *)
(* the check and reads past the flexible array.                            *)
ArgReadInBounds ==
    ~pg11 => \A r \in reads :
                 r.got = IF r.num < args.n THEN args.val[r.num] ELSE Panic

(* direct_function_call_as_datum returns None exactly when the callee      *)
(* called pg_return_null, and otherwise the callee's datum: isnull is      *)
(* reset on the fresh, unzeroed palloc before the call.                    *)
NullResultIffReturnNull ==
    pc = "done" => /\ result = None <=> nulled
                   /\ ~nulled => result = ret

=============================================================================
