--------------------------- MODULE MCSkillImport ---------------------------
(* Values of the constants of SkillImport for TLC.                         *)
EXTENDS SkillImport

Place == {<<>>, <<"a">>, <<"a", "b">>, <<"c">>}

Skill(dir, says) ==
    [sort |-> "file", dir |-> dir, base |-> "SKILL.md", text |-> TRUE, size |-> 1,
     says |-> says]

Other(sort, dir, base, text, size) ==
    [sort |-> sort, dir |-> dir, base |-> base, text |-> text, size |-> size, says |-> None]

Attachments ==
    {Other("file", dir, "run.py", TRUE, size) : dir \in Place, size \in 1..2}
      \cup {Other("file", <<"a">>, "note.md", text, 2) : text \in BOOLEAN}

Faulty ==
    {Other("outside", <<>>, "run.py", TRUE, 1), Other("link", <<"a">>, "run.py", TRUE, 1),
     Other("dir", <<"a">>, "b", FALSE, 0), Other("file", <<"a">>, "note.md", TRUE, 3)}

\* Two skills, nested or not, and an attachment; too many bytes, or entries; a
\* SKILL.md that does not parse, or that is there twice; no SKILL.md.
MCPackages ==
    {<<Skill(dir, "s1"), e, Skill(<<"a", "b">>, "s2")>> : dir \in {<<>>, <<"a">>}, e \in Attachments}
    \cup {<<Skill(<<>>, "s1"), e, Skill(<<"a">>, "s1")>> : e \in {a \in Attachments : a.dir = <<"a">>}}
    \cup {<<Skill(<<>>, "s1"), e>> : e \in Faulty}
    \cup {<<Skill(<<>>, "s1"), Skill(<<"a">>, None)>>,
          <<Skill(<<>>, "s1"), Skill(<<>>, "s2"), Other("file", <<>>, "run.py", TRUE, 1)>>,
          <<Skill(<<>>, "s1"), Skill(<<>>, "s2"), Skill(<<"c">>, "s2"),
            Other("file", <<"c">>, "run.py", TRUE, 1)>>,
          <<Other("file", <<>>, "run.py", TRUE, 1)>>,
          <<Skill(<<>>, "s1"), Other("file", <<>>, "note.md", TRUE, 2),
            Other("file", <<"a">>, "note.md", TRUE, 2), Other("file", <<"c">>, "note.md", TRUE, 2)>>,
          <<Skill(<<>>, "s1"), Skill(<<"a">>, "s2"), Skill(<<"c">>, "s2"),
            Other("file", <<"c">>, "run.py", TRUE, 1), Other("file", <<"a">>, "run.py", TRUE, 1)>>}

MCWishes == {<<>>, <<"s2">>, <<"s1", "s2">>, <<"s1", "s1">>}

=============================================================================
