---------------------------- MODULE MCProductList ----------------------------
EXTENDS ProductList

\* Five products, some of which share a name or a price.
MCCatalogs == {[i \in 1 .. 5 |-> [name |-> n[i], price |-> p[i]]] :
                 n \in {<<1, 1, 2, 1, 2>>, <<2, 1, 1, 1, 1>>},
                 p \in {<<5, 7, 7, 7, 6>>, <<5, 5, 7, 8, 7>>}}
MCNeedles == {{1}, {2}}

MCCursor(i) == [sort |-> "name", order |-> "asc", q |-> None, name |-> 1, price |-> 5, id |-> i]

MCLinks == {Home, [Home EXCEPT !.q = {2}, !.page = 3], [Home EXCEPT !.ids = <<2, 9>>],
            [Home EXCEPT !.after = MCCursor(2)],
            [Home EXCEPT !.after = MCCursor(2), !.page = 2]}
=============================================================================
