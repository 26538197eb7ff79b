------------------------------ MODULE MCZipFile -----------------------------
(* Values for the constants of ZipFile: names are 1, 2 and 3; compress() is
   given /1 and extract() puts its members in /3. *)
EXTENDS ZipFile

MCPaths == {<<1>>, <<1, 1>>, <<1, 2>>,
            <<3>>, <<3, 1>>, <<3, 1, 1>>, <<3, 1, 2>>, <<3, 2>>}

MCSource      == <<1>>
MCDestination == <<3>>

MCMember(p, folder, fault) == [path |-> p, folder |-> folder, text |-> "x", fault |-> fault]

(* A folder, files in it and beside it, one with no name, one of each fault. *)
MCMembers == {MCMember(<<>>, TRUE, "none"), MCMember(<<1>>, TRUE, "none"),
              MCMember(<<1>>, FALSE, "none"), MCMember(<<2>>, FALSE, "none"),
              MCMember(<<1, 2>>, FALSE, "none"), MCMember(<<2>>, FALSE, "entry"),
              MCMember(<<1, 2>>, FALSE, "header"), MCMember(<<1, 2>>, FALSE, "data")}

MCArchives == {<<>>} \cup {<<m>> : m \in MCMembers}
                \cup {<<m, n>> : m \in MCMembers, n \in MCMembers}
=============================================================================
