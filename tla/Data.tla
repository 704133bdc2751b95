-------------------------------- MODULE Data --------------------------------
(***************************************************************************)
(* The objects of the libraries that have nothing but data: requests of    *)
(* JSON-RPC, values of JSON and of pgfe, and the options of a connection   *)
(* and of a listener.                                                      *)
(***************************************************************************)
EXTENDS Integers

CONSTANTS
  ParamName, MaxParams,   \* JSON-RPC
  MaxChanged,             \* options
  ByteBase                \* numbers

ASSUME DataAssumption == MaxParams \in Nat

VARIABLES
  request, said,              \* a JSON-RPC request
  options_, listener_options_ \* options

J == INSTANCE Jrpc
N == INSTANCE Conversions
O == INSTANCE Options

jrpcVars == <<request, said>>
optionsVars == <<options_, listener_options_>>
=============================================================================
