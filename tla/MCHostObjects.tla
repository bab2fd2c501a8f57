--------------------------- MODULE MCHostObjects ---------------------------
(* Small values and encodings with which the host's value functions meet   *)
(* every kind of pair: equal and unequal, small and object, nested.        *)
EXTENDS HostObjects

MCSmalls == {Small("U64", 1), Small("Symbol", 1), Small("I256", -1)}
MCPieces == {<<-1, 3>>, <<-1, 1>>}
MCStrings == {<<1>>, <<2, 1>>}
MCForeign == {
  ScVal("Map", << <<ScVal("U64", 2), ScVal("Void", 0)>>,
                  <<ScVal("U64", 1), ScVal("Void", 0)>> >>),
  ScVal("Symbol", <<0, 1>>)}
MCRootArgs == {
  <<ScVal("Vec", <<ScVal("Bytes", <<1>>)>>)>>,
  <<ScVal("Map", << <<ScVal("U64", 1), ScVal("I256", <<-1, 1>>)>> >>)>>}
=============================================================================
