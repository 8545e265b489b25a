----------------------------- MODULE KnowledgeBase -----------------------------
(***************************************************************************)
(* Articles of the knowledge base, their categories, and what each page     *)
(* lists, links and opens.                                                  *)
(***************************************************************************)
EXTENDS PageRequest

CONSTANTS
    Articles, Categories,   \* keys of the rows there may be
    RowLimit,               \* the LIMIT of each list: 50, 60, 8 and 5 rows
    MaxCount                \* bound: views and votes that are counted, in all

ASSUME RowLimitAssumption ==
    RowLimit \in [{"kb_home", "portal_kb_home", "search", "related"} -> Nat]

VARIABLES articles, categories

kbVars == <<articles, categories>>

\* A key is of one table only, and neither the name of a step nor none.
ASSUME KeysApart == Articles \cap Categories = {} /\ {"commit", None} \cap Categories = {}

Audiences == {"internal", "portal"}
Readers == {"editor", "agent", "visitor"}   \* may edit, may view, without an account
Counters == {"view_count", "helpful_count", "not_helpful_count"}

NoArticle == [state |-> "none", is_published |-> FALSE, audience |-> "internal", category_id |-> None,
              view_count |-> 0, helpful_count |-> 0, not_helpful_count |-> 0]
NoCategory == [state |-> "none", is_active |-> TRUE]

KnowledgeBaseInit ==
    /\ articles = [a \in Articles |-> NoArticle]
    /\ categories = [g \in Categories |-> NoCategory]

ArticleRows == {a \in Articles : articles[a].state # "none"}
LiveArticle(a) == articles[a].state = "live"
LiveCategory(g) == categories[g].state = "live"

-----------------------------------------------------------------------------
(* Pages.                                                                   *)

PublishedAnywhere(audience) == {a \in Articles : LiveArticle(a) /\ articles[a].is_published}
Published(audience) == {a \in Articles : LiveArticle(a) /\ articles[a].is_published /\ articles[a].audience = audience}

\* Whoever may not edit sees the internal articles, whatever audience is asked for.
audience_of(reader, asked) == IF reader = "editor" THEN asked ELSE "internal"

\* What a query may return under its LIMIT: all rows, or as many as fit.
Limited(rows, limit) ==
    {list \in SUBSET rows : Cardinality(list) = IF Cardinality(rows) <= limit
                                                THEN Cardinality(rows) ELSE limit}
MostViewed(rows, limit) ==
    {list \in Limited(rows, limit) :
        \A a \in list, b \in rows \ list : articles[a].view_count >= articles[b].view_count}

\* What the pages list of the articles a query or a category matches; a search for
\* less than two characters lists nothing.
kb_home(reader, asked, matches) ==
    MostViewed(Published(audience_of(reader, asked)) \cap matches, RowLimit["kb_home"])
kb_search_html(reader, asked, matches) ==
    {{}} \cup Limited(Published(audience_of(reader, asked)) \cap matches, RowLimit["search"])
kb_search(matches, limit) == {{}} \cup Limited(Published("internal") \cap matches, limit)
portal_kb_home(matches) == MostViewed(Published("portal") \cap matches, RowLimit["portal_kb_home"])
portal_kb_search(matches) == {{}} \cup Limited(Published("portal") \cap matches, RowLimit["search"])

\* A visitor is refused: the article, unlike kb_search_html, asks for kb.view.
kb_article_detail(reader) ==
    {a \in Articles : reader # "visitor" /\ LiveArticle(a)
                      /\ (articles[a].audience = "internal" \/ reader = "editor")}
portal_kb_detail == {a \in Articles : LiveArticle(a) /\ articles[a].is_published /\ articles[a].audience = "portal"}

\* The attachment of an article that has one, under the guards of the article.
kb_internal_attachment(reader) ==
    {a \in Articles : reader # "visitor" /\ LiveArticle(a)
                      /\ ~(articles[a].audience # "internal" /\ reader # "editor")}
portal_kb_attachment == {a \in Articles : LiveArticle(a) /\ articles[a].is_published /\ articles[a].audience = "portal"}

\* Beside an article: others of its category and audience.
Related(a, audience) ==
    Limited({b \in Published(audience) \ {a} : articles[a].category_id # None
                                        /\ articles[b].category_id = articles[a].category_id},
            RowLimit["related"])
kb_related(a) == Related(a, articles[a].audience)
portal_kb_related(a) == Related(a, "portal")

\* Where the link of a listed article leads.
kb_link(audience) == IF audience = "portal" THEN "/portal/kb" ELSE "/kb"
Opens(reader, link) == IF link = "/kb" THEN kb_article_detail(reader) ELSE portal_kb_detail

\* The manager's table of categories counts the live articles of each.
manager_kb_categories ==
    [g \in {h \in Categories : LiveCategory(h)} |->
        Cardinality({a \in Articles : LiveArticle(a) /\ articles[a].category_id = g})]

-----------------------------------------------------------------------------
(* Operations.                                                              *)

BeginKb(c, op, pc, stage) ==
    /\ Begin(c, [op |-> op, pc |-> pc, stage |-> stage])
    /\ UNCHANGED kbVars

\* A form posts any category it was opened with, deleted since or not.
PostedCategories == {g \in Categories : categories[g].state # "none"} \cup {None}

kb_create_article(published, audience, g) ==
    LET free == {a \in Articles : articles[a].state = "none"}
    IN  /\ g \in PostedCategories
        /\ free # {} /\ Cardinality(ArticleRows) < page.rows
        /\ articles' = [articles EXCEPT ![CHOOSE a \in free : TRUE] =
                [NoArticle EXCEPT !.state = "live", !.is_published = published,
                                  !.audience = audience, !.category_id = g]]
        /\ Interrupt
        /\ UNCHANGED categories

kb_update_article(c, a, published, audience, g) ==
    /\ LiveArticle(a) /\ g \in PostedCategories
    /\ BeginKb(c, "kb_update_article", "commit",
               Only(a, NetChange(articles[a], [is_published |-> published, audience |-> audience, category_id |-> g])))

kb_delete_article(c, a) ==
    LiveArticle(a) /\ BeginKb(c, "kb_delete_article", "commit", Only(a, [state |-> "deleted"]))

Counted == {p \in Articles \X Counters : articles[p[1]][p[2]] > 0}

\* A view by either page, a vote: read, add one, write.
count(c, a, k) ==
    /\ k = "view_count" => a \in kb_article_detail("editor")
    /\ LiveArticle(a) /\ Cardinality(Counted) < MaxCount
    /\ BeginKb(c, "count", "commit", Only(a, NetChange(articles[a], Only(k, articles[a][k] + 1))))

create_kb_category ==
    LET free == {g \in Categories : categories[g].state = "none"}
    IN  /\ free # {}
        /\ categories' = [categories EXCEPT ![CHOOSE g \in free : TRUE].state = "live"]
        /\ Interrupt
        /\ UNCHANGED articles

update_kb_category(c, g, active) ==
    /\ LiveCategory(g)
    /\ BeginKb(c, "update_kb_category", "commit", Only(g, NetChange(categories[g], [is_active |-> active])))

delete_kb_category(c, g) ==
    LiveCategory(g) /\ BeginKb(c, "delete_kb_category", g, Only(g, [state |-> "deleted"]))

\* The live articles of the category lose it.
UnlinkArticles(c) ==
    LET g == req[c].pc
        linked == {a \in Articles : LiveArticle(a) /\ articles[a].category_id = g}
    IN  /\ Busy(c) /\ g \in Categories
        /\ Goto(c, [pc |-> "commit",
                    stage |-> Over(req[c].stage, [a \in linked |-> NetChange(articles[a], [category_id |-> None])])])
        /\ UNCHANGED kbVars

CommitKb(c) ==
    /\ Busy(c) /\ req[c].pc = "commit"
    /\ articles' = Written(articles, req[c].stage)
    /\ categories' = Written(categories, req[c].stage)
    /\ Finish(c)

KnowledgeBaseNext ==
    /\ page.area = "kb"
    /\ \/ create_kb_category
       \/ \E p \in BOOLEAN, audience \in Audiences, g \in Categories \cup {None} :
            \/ kb_create_article(p, audience, g)
            \/ \E c \in Slots, a \in Articles : kb_update_article(c, a, p, audience, g)
       \/ \E c \in Slots :
            \/ \E a \in Articles : kb_delete_article(c, a) \/ \E k \in Counters : count(c, a, k)
            \/ \E g \in Categories : delete_kb_category(c, g)
                                     \/ \E active \in BOOLEAN : update_kb_category(c, g, active)
            \/ UnlinkArticles(c) \/ CommitKb(c)
=============================================================================
