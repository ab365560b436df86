--------------------------- MODULE MCEmailGadget ---------------------------
EXTENDS EmailGadget

Line(kind, key, text) == [kind |-> kind, key |-> key, text |-> text]
Set(key, text) == Line("set", key, text)
More(text)     == Line("more", "", text)
Note(key)      == Line("note", key, "")

\* Cut down from main.cf of the image: settings of one line, of two and of
\* three lines, and one on the last line.
MCBaseConf ==
    << Set("mynetworks", "image"),
       Note(""),
       Set("smtpd_tls_chain_files", ""), More("privkey"), More("fullchain"),
       Set("alias_maps", "hash"),
       Set("mua_client_restrictions", ""), More("permit_mynetworks"),
       Set("disable_vrfy_command", "yes") >>

\* The one of meta-email-gadget/README.md:33; a replaced setting of three lines,
\* and a line that looks like a setting; replaced settings of one line and of
\* two, one behind the other; the last line, and one that is commented out.
FromReadme == << Set("myhostname", "mail"), Set("mydomain", "domain") >>
TwoInARow ==
    << Set("mua_client_restrictions", "reject"), Set("alias_maps", "own") >>

MCLocalConfs ==
    { FromReadme,
      << Set("smtpd_tls_chain_files", ""), More("own"),
         Line("more", "mynetworks", "own") >>,
      TwoInARow,
      << Note("alias_maps"), Set("disable_vrfy_command", "no") >> }

MCMessages == 1 .. 4

\* A message that rspamd marked.
Marked(address, domain) ==
    [xSpam |-> { "Yes" }, xSpamRead |-> "Yes", scored |-> TRUE, score |-> 155,
     address |-> address, domain |-> domain]

\* A message with a mark that only spam.sieve takes for "Yes".
LikeMarked(address, domain) ==
    [xSpam |-> { "like Yes" }, xSpamRead |-> "like Yes", scored |-> TRUE,
     score |-> -7, address |-> address, domain |-> domain]

\* Marked mail, two messages of one domain of which only the other has something
\* like a mark, and one whose headers cannot be read.
MCMail ==
    << Marked("a@bulk", "bulk"),
       [xSpam |-> {}, xSpamRead |-> "none", scored |-> TRUE, score |-> 9,
        address |-> "b@shop", domain |-> "shop"],
       LikeMarked("c@shop", "shop"),
       [xSpam |-> {}, xSpamRead |-> "none", scored |-> FALSE, score |-> 0,
        address |-> "d@home", domain |-> "home"] >>

\* Day 752 is Monday, 23 March 2026.
MCMonday == 752

Opening(conf, day, places, ages, steps, failures, days) ==
    [localConf |-> conf, today |-> day, place |-> places,
     received |-> [m \in DOMAIN ages |-> day - ages[m]],
     clientSteps |-> steps, reboots |-> failures, midnights |-> days]

\* Every configuration, and no mail.
EmptyOpenings ==
    { Opening(conf, MCMonday, << "gone", "gone", "gone", "gone" >>,
              << 0, 0, 0, 0 >>, 0, 2, 1) :
        conf \in MCLocalConfs }

\* Nobody is at the mail: two messages of every age around the edges of the
\* windows of 7 and 14 days and of 29 weeks, on every day of a week.
QuietOpenings ==
    { Opening(FromReadme, MCMonday + weekday, << "cur", "new", "gone", "gone" >>,
              << age, other, 0, 0 >>, 0, 0, 1) :
        weekday \in 0 .. 6,
        age \in { 0, 6, 7, 8, 14, 15 } \cup 195 .. 204,
        other \in { 1, 14, 210 } }

\* The user is at the mail, and it is delivered, while the folder is read.
BusyOpenings ==
    { Opening(FromReadme, MCMonday, << "none", "none", "new", "gone" >>,
              << 0, 3, 0, 0 >>, 3, 0, 0),
      Opening(FromReadme, MCMonday, << "cur", "seen", "out", "new" >>,
              << 20, 5, 9, 1 >>, 2, 1, 1) }

MCOpenings == EmptyOpenings \cup QuietOpenings \cup BusyOpenings

\* A message for each of 15 days, the last one with something like a mark.  They
\* are found in their order: a longer list cannot be read in every order.
MCDays == 1 .. 15
MCDailyMail == [m \in MCDays |-> IF m < 15 THEN Marked("a@bulk", "bulk")
                                 ELSE LikeMarked("c@shop", "shop")]
DailyOpenings ==
    { Opening(TwoInARow, MCMonday, [m \in MCDays |-> "cur"],
              [m \in MCDays |-> 15 - m], 0, 0, 0) }
FoundInOrder == \A i \in DOMAIN emails : emails[i].msg = i

=============================================================================
