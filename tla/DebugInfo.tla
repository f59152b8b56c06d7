------------------------------- MODULE DebugInfo -------------------------------
(***************************************************************************)
(* The additional debug information of a report.                          *)
(* collect_additional_debug_information calls every configured static     *)
(* method "name.space.Class.method" (option debugmethod) that returns a    *)
(* String, and stores the results in a vector of (label, data) pairs      *)
(* ended by a pair with a NULL label.  info_pair_vector_to_string later   *)
(* renders the vector as "label = data\n" lines into one malloc'ed block  *)
(* (add_additional_info_data, report_stacktrace).                          *)
(*                                                                         *)
(* A configured entry is its label's length and whether it has a '.'; a   *)
(* datum is its length.  The vector is indexed from 0 as in C, and the     *)
(* ghosts record a write past either allocation.                          *)
(***************************************************************************)
EXTENDS Integers, Sequences

CONSTANTS
    Configs,     \* values of globalConfig.fqdnDebugMethods: <<[len, fqdn]>>
    DataLens,    \* lengths of the Strings a debug method returns
    Failures,    \* whether malloc, strdup and the JNI look-ups may fail
    NullResults  \* whether a debug method may return null

ASSUME DebugInfoAssumption ==
    /\ Configs \subseteq Seq([len : Nat \ {0}, fqdn : BOOLEAN])
    /\ DataLens \subseteq Nat
    /\ Failures \in BOOLEAN /\ NullResults \in BOOLEAN

(* A label or datum is its length; these stand for the bytes of a pair    *)
(* malloc has not initialised and for a NULL pointer.                     *)
Unset == -2
NullPtr == -1

VARIABLES
    config,      \* globalConfig.fqdnDebugMethods
    pc,          \* "alloc", "loop", "term", "size", "write", "done", "crash"
    cap,         \* the pairs malloc'ed for the vector
    vec,         \* vec[k] = [label, data]: the pair at ret_val + k
    iter,        \* the configured entry the loop is at (1-based)
    info,        \* info - ret_val
    collected,   \* ghost: the entries whose method returned a String
    required,    \* required_bytes
    pointer,     \* pointer - contents
    k,           \* the pair info_pair_vector_to_string is at
    vecOverflow, \* a pair was written past the vector
    strOverflow  \* a byte was written past contents

vars == <<config, pc, cap, vec, iter, info, collected, required, pointer, k,
          vecOverflow, strOverflow>>

CanFail == IF Failures THEN BOOLEAN ELSE {TRUE}

Cnt == Len(config)

(* vec with the pair at index i set, and the overflow it makes.           *)
SetPair(i, p) ==
    /\ vec' = IF i < cap THEN [vec EXCEPT ![i] = p] ELSE vec
    /\ vecOverflow' = (vecOverflow \/ i >= cap)

(* strlen(label) + strlen(data) + strlen(" = \n") of a pair.              *)
LineLen(p) == p.label + p.data + 4

(* The pairs before the first NULL label, in order.                       *)
Pairs ==
    LET ends == {j \in 0..(cap - 1) : vec[j].label = NullPtr}
        n == IF ends = {} THEN cap
             ELSE CHOOSE j \in ends : \A j2 \in ends : j <= j2
    IN [j \in 1..n |-> vec[j - 1]]

(* The sum of LineLen over a sequence of pairs, as the loop that computes  *)
(* required_bytes adds it up.                                             *)
SumLines(s) ==
    LET acc[i \in 0..Len(s)] == IF i = 0 THEN 0 ELSE acc[i - 1] + LineLen(s[i])
    IN  acc[Len(s)]
-----------------------------------------------------------------------------
(* Mutant of CollectAlloc: malloc(sizeof *ret_val times cnt), no room for     *)
(* the terminating pair.                                                  *)
CollectAllocNoTerminator ==
    /\ pc = "alloc"
    /\ \E ok \in CanFail :
         IF ok THEN /\ cap' = Cnt /\ vec' = [j \in 0..(Cnt - 1) |-> [label |-> Unset, data |-> Unset]]
                    /\ pc' = "loop"
               ELSE pc' = "done" /\ UNCHANGED <<cap, vec>>
    /\ UNCHANGED <<config, iter, info, collected, required, pointer, k, vecOverflow, strOverflow>>

(* Count the configured entries and malloc cnt + 1 pairs; NULL makes the   *)
(* function return NULL.                                                  *)
CollectAlloc ==
    /\ pc = "alloc"
    /\ \E ok \in CanFail :
         IF ok THEN /\ cap' = Cnt + 1 /\ vec' = [j \in 0..Cnt |-> [label |-> Unset, data |-> Unset]]
                    /\ pc' = "loop"
               ELSE pc' = "done" /\ UNCHANGED <<cap, vec>>
    /\ UNCHANGED <<config, iter, info, collected, required, pointer, k, vecOverflow, strOverflow>>

(* strdup of the entry fails: the loop breaks.                            *)
NameDupFails ==
    /\ pc = "loop" /\ iter <= Cnt
    /\ FALSE \in CanFail
    /\ pc' = "term"
    /\ UNCHANGED <<config, cap, vec, iter, info, collected, required, pointer, k, vecOverflow, strOverflow>>

(* The entry has no '.'; or find_class_in_loaded_class finds no loaded     *)
(* class of that name, GetStaticMethodID finds no such method, or the call *)
(* throws: the entry is skipped.                                          *)
EntrySkipped ==
    /\ pc = "loop" /\ iter <= Cnt
    /\ ~config[iter].fqdn \/ FALSE \in CanFail
    /\ iter' = iter + 1
    /\ UNCHANGED <<config, pc, cap, vec, info, collected, required, pointer, k, vecOverflow, strOverflow>>

(* The method returned null: GetStringUTFChars(NULL) kills the JVM.        *)
NullString ==
    /\ pc = "loop" /\ iter <= Cnt /\ config[iter].fqdn
    /\ NullResults
    /\ pc' = "crash"
    /\ UNCHANGED <<config, cap, vec, iter, info, collected, required, pointer, k, vecOverflow, strOverflow>>

(* Mutant of DataDupFails: info is moved past the pair before the NULL    *)
(* test.                                                                  *)
DataDupFailsAdvance ==
    /\ pc = "loop" /\ iter <= Cnt /\ config[iter].fqdn
    /\ FALSE \in CanFail
    /\ SetPair(info, [label |-> config[iter].len, data |-> NullPtr])
    /\ info' = info + 1
    /\ pc' = "term"
    /\ UNCHANGED <<config, cap, iter, collected, required, pointer, k, strOverflow>>

(* The label is stored, then strdup of the String fails: info->data is     *)
(* NULL and the loop breaks without moving info.                          *)
DataDupFails ==
    /\ pc = "loop" /\ iter <= Cnt /\ config[iter].fqdn
    /\ FALSE \in CanFail
    /\ SetPair(info, [label |-> config[iter].len, data |-> NullPtr])
    /\ pc' = "term"
    /\ UNCHANGED <<config, cap, iter, info, collected, required, pointer, k, strOverflow>>

(* The pair is stored and info moves on.                                  *)
Collected ==
    /\ pc = "loop" /\ iter <= Cnt /\ config[iter].fqdn
    /\ \E d \in DataLens :
         /\ SetPair(info, [label |-> config[iter].len, data |-> d])
         /\ collected' = Append(collected, [label |-> config[iter].len, data |-> d])
    /\ info' = info + 1 /\ iter' = iter + 1
    /\ UNCHANGED <<config, pc, cap, required, pointer, k, strOverflow>>

(* The list is done.                                                      *)
LoopEnd ==
    /\ pc = "loop" /\ iter > Cnt
    /\ pc' = "term"
    /\ UNCHANGED <<config, cap, vec, iter, info, collected, required, pointer, k, vecOverflow, strOverflow>>

(* info->label = NULL; info->data = NULL.                                 *)
Terminate ==
    /\ pc = "term"
    /\ SetPair(info, [label |-> NullPtr, data |-> NullPtr])
    /\ pc' = "size"
    /\ UNCHANGED <<config, cap, iter, info, collected, required, pointer, k, strOverflow>>
-----------------------------------------------------------------------------
(* info_pair_vector_to_string: required_bytes over the pairs, NULL when    *)
(* it is 0 or malloc fails, else the write loop with to_write fixed at     *)
(* required_bytes.                                                        *)
StringAlloc ==
    /\ pc = "size"
    /\ \E ok \in CanFail :
         /\ required' = SumLines(Pairs)
         /\ pc' = IF required' = 0 \/ ~ok THEN "done" ELSE "write"
    /\ UNCHANGED <<config, cap, vec, iter, info, collected, pointer, k, vecOverflow, strOverflow>>

(* snprintf(pointer, to_write, "%s = %s\n"): at most to_write bytes, the   *)
(* NUL included; pointer moves by the full length.                        *)
WriteLine ==
    /\ pc = "write" /\ k < Len(Pairs)
    /\ LET n == LineLen(Pairs[k + 1])
           bytes == IF n + 1 <= required THEN n + 1 ELSE required
       IN /\ strOverflow' = (strOverflow \/ pointer + bytes > required)
          /\ pointer' = pointer + n
    /\ k' = k + 1
    /\ UNCHANGED <<config, pc, cap, vec, iter, info, collected, required, vecOverflow>>

WriteEnd ==
    /\ pc = "write" /\ k = Len(Pairs)
    /\ pc' = "done"
    /\ UNCHANGED <<config, cap, vec, iter, info, collected, required, pointer, k, vecOverflow, strOverflow>>

(* globalConfig.fqdnDebugMethods is set (a NULL list returns NULL at once). *)
Init ==
    /\ config \in Configs
    /\ pc = "alloc" /\ cap = 0 /\ vec = <<>>
    /\ iter = 1 /\ info = 0 /\ collected = <<>>
    /\ required = 0 /\ pointer = 0 /\ k = 0
    /\ vecOverflow = FALSE /\ strOverflow = FALSE

Next ==
    \/ CollectAlloc \/ NameDupFails \/ EntrySkipped \/ NullString \/ DataDupFails
    \/ Collected \/ LoopEnd \/ Terminate
    \/ StringAlloc \/ WriteLine \/ WriteEnd

Spec == Init /\ [][Next]_vars
-----------------------------------------------------------------------------
(* collect_additional_debug_information writes no pair past its malloc of *)
(* cnt + 1 pairs, whichever entries fail.                                 *)
VectorWithinAllocation == ~vecOverflow

(* Once the vector is ended, the pairs before its NULL label are exactly   *)
(* the entries whose method returned a String, in configuration order:    *)
(* no pair with NULL data is left for info_pair_vector_to_string's strlen. *)
VectorMatchesCalls ==
    pc \in {"size", "write", "done"} /\ cap > 0 => Pairs = collected

(* info_pair_vector_to_string writes nothing past its malloc(required_bytes).*)
NoStringOverflow == ~strOverflow

=============================================================================
