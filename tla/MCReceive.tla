------------------------------ MODULE MCReceive ------------------------------
(* Instances of Receive for TLC.                                            *)
EXTENDS Receive

CONSTANTS k1, k2

Opts(plain, file, key) == [noEncryption |-> plain, keyFile |-> file, key |-> key]

(* What a source is made with: no encryption, with and without a key that   *)
(* does not matter then, and a public key given in either way.              *)
Sealing ==
    {Opts(TRUE, NoKey, NoKey), Opts(TRUE, Public(k1), NoKey),
     Opts(FALSE, Public(k1), NoKey), Opts(FALSE, NoKey, Public(k1))}

(* What it is opened with: the like with a private key, another key, the    *)
(* public key, both options, and none.                                      *)
Opening ==
    {Opts(TRUE, NoKey, NoKey), Opts(TRUE, Private(k1), NoKey),
     Opts(FALSE, Private(k1), NoKey), Opts(FALSE, NoKey, Private(k1)),
     Opts(FALSE, Private(k2), NoKey), Opts(FALSE, Public(k1), NoKey),
     Opts(FALSE, Private(k1), Private(k1)), Opts(FALSE, NoKey, NoKey)}

AllCases ==
    {c \in [kind : Kinds, proxied : BOOLEAN, size : {0, 1, 2, Whole}, reader : Readers,
            sealedWith : Sealing, openedWith : Opening] : CaseOK(c)}
=============================================================================
