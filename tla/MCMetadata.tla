----------------------------- MODULE MCMetadata -----------------------------
(***************************************************************************)
(* Metadata: the definitions of sets and items in data models, and the     *)
(* sets and items that a header has.  HeaderMetadata takes its definitions *)
(* from a constant, so that each moves while the other stands still.       *)
(***************************************************************************)
EXTENDS MCHeader, MCDataModel

NoHeader == entries = <<>> /\ nextTag = MaxTag /\ sets = NoSets /\ ~current
            /\ file = [primer |-> <<>>, sets |-> NoSets]

HeaderMoves == ModelInit /\ Next /\ UNCHANGED modelVars
ModelMoves  == NoHeader /\ NextModel /\ UNCHANGED vars

MetadataInit == Init /\ ModelInit
MetadataSpec == MetadataInit /\ [][HeaderMoves \/ ModelMoves]_<<vars, modelVars>>
=============================================================================
