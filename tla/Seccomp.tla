------------------------------ MODULE Seccomp ------------------------------
(***************************************************************************)
(* The seccomp filter compiler (seccompiler/src/compiler.rs, backend.rs):   *)
(* the filter of a thread, a list of syscall rules with conditions on       *)
(* arguments, becomes a BPF program.  A machine for the few instructions    *)
(* that are used runs the program for one system call.  Words have the      *)
(* values 0..Word - 1 (2^32 in the code) and arguments are two words; jumps *)
(* reach at most MaxJump statements (255).                                  *)
(***************************************************************************)
EXTENDS Naturals, Sequences, SequencesExt, Bitwise

CONSTANTS
  Word, MaxJump,
  BPF_MAX_LEN,
  SyscallTable,      \* the syscall numbers the compiler knows
  Filters,           \* the filters to compile: [default_action, filter_action, filter]
  Calls              \* the system calls: [nr, arch, args]

TargetArch == "target"
CONDITION_MAX_LEN == 6
ARG_NUMBER_MAX == 5

BPF_STMT(code, k) == [code |-> code, k |-> k, jt |-> 0, jf |-> 0]
BPF_JUMP(code, k, jt, jf) == [code |-> code, k |-> k, jt |-> jt, jf |-> jf]

-----------------------------------------------------------------------------
(* Conditions.  offset is the distance from the end of the condition to the *)
(* next rule.                                                              *)

msb(v) == v \div Word
lsb(v) == v % Word
lsb_offset(c) == 16 + c.arg_number * 8
msb_offset(c) == lsb_offset(c) + 4

Qword(c, stmts) == IF c.arg_len = "qword" THEN stmts ELSE << >>
LoadMsb(c) == BPF_STMT("ld", msb_offset(c))
LoadLsb(c) == BPF_STMT("ld", lsb_offset(c))

into_eq_bpf(c, offset) ==
    Qword(c, <<LoadMsb(c), BPF_JUMP("jeq", msb(c.value), 0, offset + 2)>>)
    \o <<LoadLsb(c), BPF_JUMP("jeq", lsb(c.value), 0, offset)>>

above_jump == 3

into_ge_bpf(c, offset) ==
    Qword(c, <<LoadMsb(c), BPF_JUMP("jgt", msb(c.value), above_jump, 0), BPF_JUMP("jeq", msb(c.value), 0, offset + 2)>>)
    \o <<LoadLsb(c), BPF_JUMP("jge", lsb(c.value), 0, offset)>>

into_gt_bpf(c, offset) ==
    Qword(c, <<LoadMsb(c), BPF_JUMP("jgt", msb(c.value), above_jump, 0), BPF_JUMP("jeq", msb(c.value), 0, offset + 2)>>)
    \o <<LoadLsb(c), BPF_JUMP("jgt", lsb(c.value), 0, offset)>>

into_le_bpf(c, offset) ==
    Qword(c, <<LoadMsb(c), BPF_JUMP("jgt", msb(c.value), offset + 3, 0), BPF_JUMP("jeq", msb(c.value), 0, 2)>>)
    \o <<LoadLsb(c), BPF_JUMP("jgt", lsb(c.value), offset, 0)>>

into_lt_bpf(c, offset) ==
    Qword(c, <<LoadMsb(c), BPF_JUMP("jgt", msb(c.value), offset + 3, 0), BPF_JUMP("jeq", msb(c.value), 0, 2)>>)
    \o <<LoadLsb(c), BPF_JUMP("jge", lsb(c.value), offset, 0)>>

into_masked_eq_bpf(c, offset) ==
    Qword(c, <<LoadMsb(c), BPF_STMT("and", msb(c.mask)), BPF_JUMP("jeq", msb(c.value & c.mask), 0, offset + 3)>>)
    \o <<LoadLsb(c), BPF_STMT("and", lsb(c.mask)), BPF_JUMP("jeq", lsb(c.value & c.mask), 0, offset)>>

into_ne_bpf(c, offset) ==
    Qword(c, <<LoadMsb(c), BPF_JUMP("jeq", msb(c.value), 0, 2)>>)
    \o <<LoadLsb(c), BPF_JUMP("jeq", lsb(c.value), offset, 0)>>

into_bpf(c, offset) ==
    CASE c.operator = "eq" -> into_eq_bpf(c, offset)
      [] c.operator = "ge" -> into_ge_bpf(c, offset)
      [] c.operator = "gt" -> into_gt_bpf(c, offset)
      [] c.operator = "le" -> into_le_bpf(c, offset)
      [] c.operator = "lt" -> into_lt_bpf(c, offset)
      [] c.operator = "masked_eq" -> into_masked_eq_bpf(c, offset)
      [] c.operator = "ne" -> into_ne_bpf(c, offset)

-----------------------------------------------------------------------------
(* Rules are built backwards; stmts is what has been built.                *)

too_far(offset) == offset + CONDITION_MAX_LEN + 1 > MaxJump

\* Mutant: the helper jump out of the rule misses it by one.
helper_out_short(offset) == offset
helper_out(offset) == offset + 1

helper_jumps(offset) == <<BPF_STMT("ja", 2), BPF_STMT("ja", helper_out(offset)), BPF_STMT("ja", offset + 1)>>

append_condition(acc, c) ==
    LET a == IF too_far(acc.offset) THEN [stmts |-> helper_jumps(acc.offset) \o acc.stmts, offset |-> 1] ELSE acc
        bpf == into_bpf(c, a.offset)
    IN  [stmts |-> bpf \o a.stmts, offset |-> a.offset + Len(bpf)]

rule_into_bpf(conditions, action) ==
    LET acc == FoldLeft(append_condition, [stmts |-> <<BPF_STMT("ret", action)>>, offset |-> 1], conditions)
    IN  <<BPF_STMT("ja", 1), BPF_STMT("ja", acc.offset + 1)>> \o acc.stmts

append_syscall_chain(nr, rules, action, default_action) ==
    <<BPF_JUMP("jeq", nr, 0, 1)>>
    \o FoldLeft(LAMBDA stmts, conditions : stmts \o rule_into_bpf(conditions, action), << >>, rules)
    \o <<BPF_STMT("ret", default_action)>>

VALIDATE_ARCHITECTURE == <<BPF_STMT("ld", 4), BPF_JUMP("jeq", TargetArch, 1, 0), BPF_STMT("ret", "kill_process")>>
EXAMINE_SYSCALL == <<BPF_STMT("ld", 0)>>

\* try_into; the rules are a map from syscall numbers, walked in their order.
filter_into_bpf(rules, f) ==
    IF DOMAIN rules = {} THEN VALIDATE_ARCHITECTURE \o <<BPF_STMT("ret", f.default_action)>>
    ELSE VALIDATE_ARCHITECTURE \o EXAMINE_SYSCALL
         \o FoldLeft(LAMBDA stmts, nr : stmts \o append_syscall_chain(nr, rules[nr], f.filter_action, f.default_action),
                     << >>, SetToSortSeq(DOMAIN rules, <))
         \o <<BPF_STMT("ret", f.default_action)>>

-----------------------------------------------------------------------------
(* The compiler.                                                           *)

Syscalls(f) == {f.filter[i].syscall : i \in DOMAIN f.filter}
make_seccomp_filter(f) ==
    [nr \in Syscalls(f) |-> LET own == SelectSeq(f.filter, LAMBDA r : r.syscall = nr)
                            IN  [i \in DOMAIN own |-> own[i].conditions]]
make_basic_seccomp_filter(f) == [nr \in Syscalls(f) |-> << << >> >>]

conflicting(chain) == Len(chain) > 1 /\ \E i \in DOMAIN chain : chain[i] = << >>

\* Filter::validate, the syscall table, SeccompFilter::validate, and the limit on
\* the length of a program.
CompileError(f, rules) ==
    \/ f.default_action = f.filter_action
    \/ \E i \in DOMAIN f.filter : \E c \in DOMAIN f.filter[i].conditions :
         f.filter[i].conditions[c].arg_number > ARG_NUMBER_MAX
    \/ ~(Syscalls(f) \subseteq SyscallTable)
    \/ \E nr \in DOMAIN rules : conflicting(rules[nr])
    \/ Len(filter_into_bpf(rules, f)) >= BPF_MAX_LEN

RulesOf(f, is_basic) == IF is_basic THEN make_basic_seccomp_filter(f) ELSE make_seccomp_filter(f)
compile_blob(f, is_basic) ==
    IF CompileError(f, RulesOf(f, is_basic)) THEN [ok |-> FALSE, program |-> << >>]
    ELSE [ok |-> TRUE, program |-> filter_into_bpf(RulesOf(f, is_basic), f)]

-----------------------------------------------------------------------------
(* The kernel runs the program on a system call.                           *)

VARIABLES filter, is_basic, compiled, call, pc, accumulator, verdict
bpfvars == <<filter, is_basic, compiled, call, pc, accumulator, verdict>>

seccomp_data(at) ==
    CASE at = 0 -> call.nr
      [] at = 4 -> call.arch
      [] at >= 16 /\ at % 8 = 0 -> lsb(call.args[(at - 16) \div 8])
      [] OTHER -> msb(call.args[(at - 20) \div 8])

Instr == compiled.program[pc]

Compile ==
    /\ verdict = "compile"
    /\ compiled' = compile_blob(filter, is_basic)
    /\ verdict' = IF compile_blob(filter, is_basic).ok THEN "running" ELSE "refused"
    /\ UNCHANGED <<filter, is_basic, call, pc, accumulator>>

Taken == CASE Instr.code = "jeq" -> accumulator = Instr.k
           [] Instr.code = "jgt" -> accumulator > Instr.k
           [] Instr.code = "jge" -> accumulator >= Instr.k

Execute ==
    /\ verdict = "running"
    /\ CASE Instr.code = "ld" -> accumulator' = seccomp_data(Instr.k) /\ pc' = pc + 1 /\ UNCHANGED verdict
         [] Instr.code = "and" -> accumulator' = accumulator & Instr.k /\ pc' = pc + 1 /\ UNCHANGED verdict
         [] Instr.code = "ja" -> pc' = pc + 1 + Instr.k /\ UNCHANGED <<accumulator, verdict>>
         [] Instr.code = "ret" -> verdict' = Instr.k /\ UNCHANGED <<pc, accumulator>>
         [] OTHER -> pc' = pc + 1 + (IF Taken THEN Instr.jt ELSE Instr.jf) /\ UNCHANGED <<accumulator, verdict>>
    /\ UNCHANGED <<filter, is_basic, compiled, call>>

SeccompInit ==
    /\ filter \in Filters /\ is_basic \in BOOLEAN /\ call \in Calls
    /\ compiled = [ok |-> FALSE, program |-> << >>] /\ pc = 1 /\ accumulator = 0 /\ verdict = "compile"

SeccompNext == Compile \/ Execute
SeccompSpec == SeccompInit /\ [][SeccompNext]_bpfvars

-----------------------------------------------------------------------------
(* Properties.                                                             *)

Actions == {"allow", "trap", "kill_process"}
\* Types of the filter, the call in flight and its outcome.
SeccompTypeOK ==
    /\ pc \in 1..BPF_MAX_LEN /\ verdict \in Actions \cup {"compile", "running", "refused"}
    /\ verdict = "running" => pc \in DOMAIN compiled.program

\* What a condition, a rule and a filter mean (docs/seccompiler.md), with no
\* word in sight.
Holds(c, args) ==
    LET v == IF c.arg_len = "qword" THEN args[c.arg_number] ELSE args[c.arg_number] % Word
        k == IF c.arg_len = "qword" THEN c.value ELSE c.value % Word
        m == IF c.arg_len = "qword" THEN c.mask ELSE c.mask % Word
    IN  CASE c.operator = "eq" -> v = k
          [] c.operator = "ne" -> v # k
          [] c.operator = "lt" -> v < k
          [] c.operator = "le" -> v <= k
          [] c.operator = "gt" -> v > k
          [] c.operator = "ge" -> v >= k
          [] c.operator = "masked_eq" -> (v & m) = (k & m)
Matches(rule) == rule.syscall = call.nr /\ (is_basic \/ \A i \in DOMAIN rule.conditions : Holds(rule.conditions[i], call.args))

\* A compiled program gives every system call what its filter says: the filter
\* action if all conditions of some rule for that syscall hold, the default
\* action otherwise; calls of another architecture are killed.  This crosses the
\* comparison of 64-bit values by halves, the jumps between conditions, rules and
\* syscalls, and the helper jumps of rules too long for one jump.
VerdictIsRight ==
    verdict \in Actions =>
      verdict = IF call.arch # TargetArch THEN "kill_process"
                ELSE IF \E i \in DOMAIN filter.filter : Matches(filter.filter[i]) THEN filter.filter_action
                ELSE filter.default_action
=============================================================================
