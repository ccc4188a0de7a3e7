------------------------------ MODULE MCUpdate ------------------------------
(* Instance of the update client for TLC. *)
EXTENDS Update

CONSTANTS ka, kb, kc, kd

MCKey == {ka, kb, kc, kd}

Set(keys, threshold) == [keys |-> keys, threshold |-> threshold]

(* One key stays through both rotations; nothing stays.                    *)
MCChains == {<<Set({ka, kb}, 1), Set({kb, kc}, 1), Set({kb, kd}, 1)>>,
             <<Set({ka, kb}, 2), Set({kc}, 1), Set({kd}, 1)>>}
=============================================================================
