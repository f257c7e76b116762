-------------------------- MODULE MCProcessingLoop --------------------------
(***************************************************************************)
(* Small instances of ProcessingLoop for TLC.                              *)
(***************************************************************************)
EXTENDS ProcessingLoop

CONSTANTS ka, shift, lrld, wheel, raw, vk, c1, c2, conf1, conf2

\* every configuration maps every physical key
MCMappedAll == [c \in Cfgs |-> Keys \ VKeys]
\* no configuration maps the key raw
MCMappedButRaw == [c \in Cfgs |-> Keys \ {raw}]
=============================================================================
