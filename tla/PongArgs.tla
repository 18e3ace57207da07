------------------------------ MODULE PongArgs ------------------------------
(***************************************************************************)
(* xcmpong's command line (src/tools/xcmpong.c:671-803): main's getopt    *)
(* loop over "cspn:m:b:i:h", get_prefix, parse_int and parse_float, and    *)
(* the checks after the loop that decide between running and usage.      *)
(*                                                                         *)
(* A command line is its options and the number of positional arguments.  *)
(* An option argument is abstracted to what parse_int and parse_float see: *)
(* empty, not a number, or a number with an optional k/M/G suffix.  The    *)
(* numbers are ints, as strtol's result is stored; an interval is kept as  *)
(* its sign, the only thing the code compares it with.                     *)
(***************************************************************************)
EXTENDS Integers, Sequences, SequencesExt, Functions

CONSTANTS
    Strs,       \* option arguments: [kind, num, suffix]
    MaxOpts     \* options on a command line (bound)

DEFAULT_THROUGHPUT_ROUNDTRIPS == 100000
DEFAULT_LATENCY_ROUNDTRIPS == 2147483647          \* INT_MAX
DEFAULT_MSG_SIZE == 100
DEFAULT_BATCH_SIZE == 1
INT_MAX == 2147483647

PrefixLetters == {"", "k", "M", "G"}
ASSUME Strs \subseteq [kind: {"empty", "int", "junk"},
                       num: -INT_MAX .. INT_MAX, suffix: PrefixLetters]

\* getopt's result: a flag, an option with its argument, or '?' for an
\* unknown option or a missing argument.
Opts == [c: {"c", "s", "p", "h", "?"}] \cup [c: {"n", "m", "b", "i"}, arg: Strs]
CmdLines == [opts: BoundedSeq(Opts, MaxOpts), nargs: 0 .. 2]

VARIABLES cmd, argv, client, server, client_mode, num_rt, msg_size,
          batch_size, interval, status

vars == <<cmd, argv, client, server, client_mode, num_rt, msg_size,
          batch_size, interval, status>>

-----------------------------------------------------------------------------
(* int arithmetic as the build does it: two's complement, 32 bits, a      *)
(* signed overflow wrapping.  A word is four bytes, least significant      *)
(* first, so that no intermediate value leaves the range of a TLC integer. *)

Bytes(x) ==
    LET u == IF x >= 0 THEN x ELSE (x + INT_MAX) + 1      \* x + 2^31
    IN [k \in 0 .. 3 |-> ((u \div 256^k) % 256)
                          + (IF k = 3 /\ x < 0 THEN 128 ELSE 0)]

Word(r) == ((IF r[3] < 128 THEN r[3] ELSE r[3] - 256) * 256^3)
           + (r[2] * 256^2) + (r[1] * 256) + r[0]

\* a * b in int: the schoolbook product of the bytes, carried, with the
\* bytes above the fourth dropped.
Mul32(a, b) ==
    LET A == Bytes(a)
        B == Bytes(b)
        col(k) == SumFunction([i \in 0 .. k |-> A[i] * B[k - i]])
        s0 == col(0)
        s1 == col(1) + (s0 \div 256)
        s2 == col(2) + (s1 \div 256)
        s3 == col(3) + (s2 \div 256)
    IN Word([k \in 0 .. 3 |-> <<s0, s1, s2, s3>>[k + 1] % 256])

-----------------------------------------------------------------------------

\* get_prefix: the multiplier of a trailing k, M or G, which it strips.
get_prefix(s) == CASE s.suffix = "k" -> 1000
                   [] s.suffix = "M" -> 1000 * 1000
                   [] s.suffix = "G" -> 1000 * 1000 * 1000
                   [] OTHER -> 1

\* parse_int: exit(EXIT_FAILURE) for an empty string or one strtol does
\* not consume entirely, else prefix*value.
parse_int(s) == IF s.kind = "int" THEN [ok |-> TRUE, v |-> Mul32(get_prefix(s), s.num)]
                ELSE [ok |-> FALSE, v |-> 0]

\* parse_float: the same, in double; only the sign is kept.
parse_float(s) == IF s.kind = "int" THEN [ok |-> TRUE, v |-> IF s.num > 0 THEN 1
                                                         ELSE IF s.num = 0 THEN 0 ELSE -1]
                  ELSE [ok |-> FALSE, v |-> 0]

Init ==
    /\ cmd \in CmdLines
    /\ argv = cmd.opts
    /\ client = FALSE /\ server = FALSE
    /\ client_mode = "throughput"
    /\ num_rt = DEFAULT_THROUGHPUT_ROUNDTRIPS
    /\ msg_size = DEFAULT_MSG_SIZE
    /\ batch_size = DEFAULT_BATCH_SIZE
    /\ interval = -1
    /\ status = "parsing"

Opt == Head(argv)
Parsing == status = "parsing" /\ argv # <<>>

\* case 'c', case 's', and an option the switch has no case for.
OptFlag ==
    /\ Parsing /\ Opt.c \in {"c", "s", "?"}
    /\ client' = (client \/ Opt.c = "c") /\ server' = (server \/ Opt.c = "s")
    /\ argv' = Tail(argv)
    /\ UNCHANGED <<cmd, client_mode, num_rt, msg_size, batch_size, interval, status>>

\* case 'p': latency mode, and the latency default for a round-trip count
\* still equal to the throughput default.
OptLatency ==
    /\ Parsing /\ Opt.c = "p"
    /\ client_mode' = "latency"
    /\ num_rt' = IF num_rt = DEFAULT_THROUGHPUT_ROUNDTRIPS
                 THEN DEFAULT_LATENCY_ROUNDTRIPS ELSE num_rt
    /\ argv' = Tail(argv)
    /\ UNCHANGED <<cmd, client, server, msg_size, batch_size, interval, status>>

\* case 'n', 'm', 'b': parse_int, then the check that the value is at
\* least 1; either failing exits with EXIT_FAILURE.
OptNumber ==
    /\ Parsing /\ Opt.c \in {"n", "m", "b"}
    /\ LET r == parse_int(Opt.arg) IN
       IF r.ok /\ r.v >= 1
       THEN /\ num_rt' = IF Opt.c = "n" THEN r.v ELSE num_rt
            /\ msg_size' = IF Opt.c = "m" THEN r.v ELSE msg_size
            /\ batch_size' = IF Opt.c = "b" THEN r.v ELSE batch_size
            /\ UNCHANGED status
       ELSE status' = "failure" /\ UNCHANGED <<num_rt, msg_size, batch_size>>
    /\ argv' = Tail(argv)
    /\ UNCHANGED <<cmd, client, server, client_mode, interval>>

\* case 'i': parse_float, and a negative interval refused.
OptInterval ==
    /\ Parsing /\ Opt.c = "i"
    /\ LET r == parse_float(Opt.arg) IN
       IF r.ok /\ r.v >= 0 THEN interval' = r.v /\ UNCHANGED status
       ELSE status' = "failure" /\ UNCHANGED interval
    /\ argv' = Tail(argv)
    /\ UNCHANGED <<cmd, client, server, client_mode, num_rt, msg_size, batch_size>>

\* case 'h': usage and exit(EXIT_SUCCESS).
OptHelp ==
    /\ Parsing /\ Opt.c = "h"
    /\ status' = "help" /\ argv' = Tail(argv)
    /\ UNCHANGED <<cmd, client, server, client_mode, num_rt, msg_size,
                   batch_size, interval>>

\* After the loop: neither -c nor -s runs both; a latency client gets the
\* default interval; a client needs exactly one address and, in throughput
\* mode, no positive interval; a server alone needs one address.
EndOpts ==
    /\ status = "parsing" /\ argv = <<>>
    /\ LET both == ~client /\ ~server
           cl == client \/ both
           sv == server \/ both
           iv == IF cl /\ client_mode = "latency" /\ interval < 0 THEN 1
                 ELSE interval
           bad == \/ cl /\ (cmd.nargs # 1 \/ (client_mode = "throughput" /\ iv > 0))
                  \/ ~cl /\ sv /\ cmd.nargs # 1
       IN /\ client' = cl /\ server' = sv /\ interval' = iv
          /\ status' = IF bad THEN "usage" ELSE "run"
    /\ batch_size' = IF batch_size <= 0 THEN 1 ELSE batch_size
    /\ UNCHANGED <<cmd, argv, client_mode, num_rt, msg_size>>

\* main goes on to run, or the process has exited.
Done == status # "parsing" /\ UNCHANGED vars

Next == OptFlag \/ OptLatency \/ OptNumber \/ OptInterval \/ OptHelp
        \/ EndOpts \/ Done

Spec == Init /\ [][Next]_vars

-----------------------------------------------------------------------------

\* The value a numeric option writes, where it is an int.
Fits(s) == s.kind = "int" /\ s.num <= INT_MAX \div get_prefix(s)
                          /\ s.num >= -(INT_MAX \div get_prefix(s))

LastArg(c) == cmd.opts[SelectLastInSeq(cmd.opts, LAMBDA o : o.c = c)].arg
Given(c) == \E k \in 1 .. Len(cmd.opts) : cmd.opts[k].c = c

\* What the usage text promises: a configuration main goes on to run has
\* exactly the round trips (-n), message size (-m) and batch size (-b) the
\* command line wrote last, and without -n the default of the mode chosen.
ParsedAsWritten ==
    status = "run" =>
      /\ \A c \in {"n", "m", "b"} :
           Given(c) =>
             LET s == LastArg(c)
                 v == CASE c = "n" -> num_rt [] c = "m" -> msg_size
                        [] c = "b" -> batch_size
             IN Fits(s) /\ v = get_prefix(s) * s.num
      /\ ~Given("n") =>
           num_rt = IF client_mode = "latency" THEN DEFAULT_LATENCY_ROUNDTRIPS
                    ELSE DEFAULT_THROUGHPUT_ROUNDTRIPS

=============================================================================
