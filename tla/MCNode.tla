------------------------------- MODULE MCNode -------------------------------
(***************************************************************************)
(* One run for the parts of a node that share no state with one another:   *)
(* every behaviour is one of one part, while the variables of the others   *)
(* stay as they are in one of their initial states.                        *)
(***************************************************************************)
EXTENDS ThreadPool, TunnelFec, EarlierTunnels, CtapStream, Qcrypt, AnbDma, AnbPool,
        LeopardCode, PythonCrypt, Hamming

VARIABLE part

MCSize == [p |-> 4, q |-> 6]

\* The fields of two to the 4 and to the 8, each with a Cantor basis.
MCBasis8 == <<{0}, {1, 2}, {1}, {1, 3}>>
MCBasis16 == <<{0}, {1, 2, 4, 6, 7}, {3, 4, 7}, {1, 4, 7}, {1, 2, 4, 6}, {3, 6, 7}, {3, 4, 6},
               {1, 2, 5, 6, 7}>>
\* One original, one recovery shard, and codes of every shape: the last one is
\* too long for the smaller field.
MCCodes == {<<1, 1>>, <<3, 1>>, <<2, 2>>, <<3, 2>>, <<5, 3>>, <<10, 4>>, <<13, 4>>}
\* All losses of the short codes, and every four of the long ones that are a
\* multiple of three apart.
MCLosses(k, r) ==
    {s \in SUBSET (0..(k + r - 1)) :
        \/ k < 5 /\ Cardinality(s) <= r + 1
        \/ k = 5 /\ Cardinality(s) <= r
        \/ k > 5 /\ Cardinality(s) = r /\ \A i, j \in s : (i - j) % 3 = 0}

\* One initial state of each part, for the behaviours of the others.
FecAtRest == curnum_send = 0 /\ slots = NoShards
KeysAtRest == version = "ctap" /\ options = "plain" /\ newest = NoKey
StreamAtRest == program = "ctap"
QcryptAtRest == mode = 0 /\ \A e \in Ends : files[e] = {}
DmaAtRest == registered

MCInit ==
    /\ part \in {"pool", "fec", "keys", "stream", "qcrypt", "dma", "cards", "code",
                "python", "hamming"}
    /\ PoolInit
    /\ FecInit /\ (part # "fec" => FecAtRest)
    /\ TunnelsInit /\ (part # "keys" => KeysAtRest)
    /\ StreamInit /\ (part # "stream" => StreamAtRest)
    /\ QcryptInit /\ (part # "qcrypt" => QcryptAtRest)
    /\ DmaInit /\ (part # "dma" => DmaAtRest)
    /\ AnbPoolInit
    /\ CodeInit
    /\ PythonInit
    /\ HamInit

PoolStep ==
    /\ part = "pool" /\ PoolNext
    /\ UNCHANGED <<fecVars, tunnelVars, streamVars, qcryptVars, dmaVars, anbPoolVars, codeVars,
                   pythonVars, hamVars>>
FecStep ==
    /\ part = "fec" /\ FecNext
    /\ UNCHANGED <<poolVars, tunnelVars, streamVars, qcryptVars, dmaVars, anbPoolVars, codeVars,
                   pythonVars, hamVars>>
KeysStep ==
    /\ part = "keys" /\ TunnelsNext
    /\ UNCHANGED <<poolVars, fecVars, streamVars, qcryptVars, dmaVars, anbPoolVars, codeVars,
                   pythonVars, hamVars>>
StreamStep ==
    /\ part = "stream" /\ StreamNext
    /\ UNCHANGED <<poolVars, fecVars, tunnelVars, qcryptVars, dmaVars, anbPoolVars, codeVars,
                   pythonVars, hamVars>>
QcryptStep ==
    /\ part = "qcrypt" /\ QcryptNext
    /\ UNCHANGED <<poolVars, fecVars, tunnelVars, streamVars, dmaVars, anbPoolVars, codeVars,
                   pythonVars, hamVars>>
DmaStep ==
    /\ part = "dma" /\ DmaNext
    /\ UNCHANGED <<poolVars, fecVars, tunnelVars, streamVars, qcryptVars, anbPoolVars, codeVars,
                   pythonVars, hamVars>>
CardsStep ==
    /\ part = "cards" /\ AnbPoolNext
    /\ UNCHANGED <<poolVars, fecVars, tunnelVars, streamVars, qcryptVars, dmaVars, codeVars,
                   pythonVars, hamVars>>
CodeStep ==
    /\ part = "code" /\ CodeNext
    /\ UNCHANGED <<poolVars, fecVars, tunnelVars, streamVars, qcryptVars, dmaVars, anbPoolVars,
                   pythonVars, hamVars>>
PythonStep ==
    /\ part = "python" /\ PythonNext
    /\ UNCHANGED <<poolVars, fecVars, tunnelVars, streamVars, qcryptVars, dmaVars, anbPoolVars,
                   codeVars, hamVars>>
HammingStep ==
    /\ part = "hamming" /\ HamNext
    /\ UNCHANGED <<poolVars, fecVars, tunnelVars, streamVars, qcryptVars, dmaVars, anbPoolVars,
                   codeVars, pythonVars>>

MCNext ==
    /\ PoolStep \/ FecStep \/ KeysStep \/ StreamStep \/ QcryptStep \/ DmaStep
          \/ CardsStep \/ CodeStep \/ PythonStep \/ HammingStep
    /\ UNCHANGED part

MCSpec == MCInit /\ [][MCNext]_<<part, poolVars, fecVars, tunnelVars, streamVars, qcryptVars,
                                 dmaVars, anbPoolVars, codeVars, pythonVars, hamVars>>
=============================================================================
