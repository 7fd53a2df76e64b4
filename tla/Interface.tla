------------------------------- MODULE Interface ---------------------------------
(***************************************************************************)
(* The parts of the windows that keep state of their own, checked in one   *)
(* run: the add window with its path entry, the torrent list, the tooltips *)
(* of a row, and the content tab. They meet on the UI goroutine but share no variable, *)
(* and none looks at another, so a behaviour of their product is one       *)
(* behaviour of each, and it is enough to run each while the others rest   *)
(* in an initial state. The run starts with the choice.                    *)
(***************************************************************************)
EXTENDS AddWindow, TorrentSelection, HoverTooltip, ContentTree

\* A file and an empty one in a folder of a folder, and a file beside it.
MCPaths == {<<"d", "e", "x">>, <<"d", "e", "y">>, <<"d", "z">>}
MCSize  == [p \in MCPaths |-> CASE p = <<"d", "e", "x">> -> 3
                                [] p = <<"d", "e", "y">> -> 0
                                [] p = <<"d", "z">>      -> 1]

VARIABLE part      \* the component that runs

vars == <<part, addVars, listVars, hoverVars, contentVars>>

\* The component that runs starts in any of its initial states.
Init ==
    /\ part \in {"add", "list", "hover", "content"}
    /\ AddInit  /\ (part # "add"  => text = Blank)
    /\ ListInit /\ (part # "list" => filterBy = "name")
    /\ HoverInit
    /\ ContentInit

Adding ==
    /\ part = "add" /\ AddNext
    /\ UNCHANGED <<part, listVars, hoverVars, contentVars>>

Listing ==
    /\ part = "list" /\ ListNext
    /\ UNCHANGED <<part, addVars, hoverVars, contentVars>>

Hovering ==
    /\ part = "hover" /\ HoverNext
    /\ UNCHANGED <<part, addVars, listVars, contentVars>>

Browsing ==
    /\ part = "content" /\ ContentNext
    /\ UNCHANGED <<part, addVars, listVars, hoverVars>>

Next == Adding \/ Listing \/ Hovering \/ Browsing

\* Nothing that must happen is enabled in a component that rests.
Spec ==
    /\ Init /\ [][Next]_vars
    /\ AddFairness /\ ListFairness /\ HoverFairness /\ ContentFairness

\* The variables of the four keep their types, and what they say of one another.
InterfaceTypeOK == AddTypeOK /\ ListTypeOK /\ HoverTypeOK /\ ContentTypeOK
==================================================================================
