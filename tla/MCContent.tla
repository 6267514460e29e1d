------------------------------ MODULE MCContent ------------------------------
(***************************************************************************)
(* What the device keeps and shows: the directory of a take with I/O       *)
(* errors in every tail of its publication, the databases with their cuts, *)
(* losses and restores, the catalog of published sessions and the live     *)
(* preview.  The parts share no state here, so a behaviour of the whole    *)
(* projects to a behaviour of each, and a behaviour here moves one.        *)
(***************************************************************************)
EXTENDS SessionPublication, StateDatabase, SessionCatalog, LivePreview

VARIABLE part          \* the part that moves

contentVars == <<part, vars, databaseVars, catalogVars, previewVars>>

ContentInit ==
    /\ part \in {"take", "database", "catalog", "preview"}
    /\ Init
    /\ DatabaseInit /\ (part = "database" \/ ~json)
    /\ CatalogInit /\ (part = "catalog" \/ \A s \in Sessions : folder[s] = Gone)
    /\ PreviewInit

\* the variables of the part that moves are the only ones that change
Moves(p, step) == part = p /\ UNCHANGED part /\ step

ContentNext ==
    /\ \/ Moves("take", Next)
       \/ Moves("database", DatabaseNext)
       \/ Moves("catalog", CatalogNext)
       \/ Moves("preview", PreviewNext)
       \/ part # "take" /\ UNCHANGED contentVars   \* only the publication may not stop
    /\ part # "take" => UNCHANGED vars
    /\ part # "database" => UNCHANGED databaseVars
    /\ part # "catalog" => UNCHANGED catalogVars
    /\ part # "preview" => UNCHANGED previewVars

ContentSpec == ContentInit /\ [][ContentNext]_contentVars

TwoOfOneTake == <<1, 2>>
=============================================================================
