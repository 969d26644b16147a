-------------------------- MODULE MCHtmlFormatting --------------------------
EXTENDS HtmlFormatting
BodyTags == {"a", "b", "i", "p", "div", "span", "object"}
=============================================================================
