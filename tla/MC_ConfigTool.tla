--------------------------- MODULE MC_ConfigTool ---------------------------
(***************************************************************************)
(* A small Config.json and an empty file; a text that is an int, a whole   *)
(* number of 32 bits that is none, a number that is not whole, one that    *)
(* JSON cannot write, a text that is no number, and that of the root.      *)
(***************************************************************************)
EXTENDS ConfigTool

const_Config ==
  <<>> :> Object(<<"debrisNumber", "ISS">>) @@
  <<"debrisNumber">> :> [kind |-> "Double", value |-> "500"] @@
  <<"ISS">> :> Object(<<"Position">>) @@
  <<"ISS", "Position">> :> [kind |-> "Array", value |-> <<"60", "2.4">>]
const_InitialFiles == "Config" :> const_Config @@ "New" :> Empty
const_FileName == DOMAIN const_InitialFiles
const_Key == {"debrisNumber", "ISS", "Position"}
const_Int32 == {"500", "60"}
const_UInt32 == const_Int32 \cup {"3000000000"}
const_JsonNumber == const_UInt32 \cup {"2.4"}
const_Number == const_JsonNumber \cup {"NaN"}
const_Text == {"60", "3000000000", "2.4", "NaN", "six", "JSONConfig"}
=============================================================================
