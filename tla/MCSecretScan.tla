---------------------------- MODULE MCSecretScan ----------------------------
(* What the scanned files may hold: a placeholder alone, one before a secret  *)
(* on its line, an exempted secret, a placeholder to a rule that knows none,  *)
(* a binary and a large file.                                                 *)
EXTENDS SecretScan

Line(a, t, k)     == [allow |-> a, hits |-> [token |-> t, key |-> k]]
Holding(b, n, ls) == [big |-> b, binary |-> n, lines |-> ls]
Value == <<"value">>
MCContent == {Holding(FALSE, FALSE, <<Line(FALSE, <<"placeholder">>, <<>>)>>),
              Holding(FALSE, FALSE, <<Line(TRUE, Value, <<>>),
                                      Line(FALSE, <<"placeholder", "value">>, <<>>)>>),
              Holding(FALSE, FALSE, <<Line(TRUE, Value, <<"placeholder">>)>>),
              Holding(FALSE, FALSE, <<Line(FALSE, <<>>, <<"placeholder">>)>>),
              Holding(FALSE, TRUE, <<Line(FALSE, Value, <<>>)>>),
              Holding(TRUE, FALSE, <<>>)}

=============================================================================
